------------------------------ MODULE SppRegistry ------------------------------
(***************************************************************************)
(* The SPP C adapter (c_adapter/ohos_bt_spp.cpp): the id registries that   *)
(* stand between the C API and the SppServerSocket / SppClientSocket       *)
(* objects.  SppServerCreate takes the next id from g_ServerIncrease into  *)
(* g_SppServerMap; SppServerAccept and SppConnect take the next id from    *)
(* g_ClientIncrease into g_SppClientMap; the other calls look an id up.    *)
(* Nothing is locked, and SppServerAccept blocks in Accept, so callers run *)
(* on several threads.  "id = counter++" is a read and a write; a map      *)
(* operation is one step.  std::map::insert of a key already present       *)
(* leaves the map as it was.                                               *)
(***************************************************************************)
EXTENDS Integers, FiniteSets, TLC

CONSTANTS
    Threads,        \* application threads calling the SPP C API
    MaxCalls        \* bound on API calls

INVALID == -1       \* BT_SPP_INVALID_ID

VARIABLES
    btOn,           \* IS_BT_ENABLED()
    serverIncrease, \* g_ServerIncrease
    clientIncrease, \* g_ClientIncrease
    serverMap,      \* g_SppServerMap: id -> socket
    clientMap,      \* g_SppClientMap: id -> socket
    sockOpen,       \* sockOpen[s]: socket s (1..Len) has not been closed
    sockOwner,      \* the thread whose call created socket s
    pc,             \* pc[t]: "idle", "serverId", "accepting" or "clientId"
    sock,           \* sock[t]: the socket t's call is working on
    readId,         \* readId[t]: the value t read from the counter
    held,           \* held[t]: [kind, id, sock] of the ids returned to t
    io,             \* io[t]: the socket t's last Read/Write reached (0: none)
    calls

vars == <<btOn, serverIncrease, clientIncrease, serverMap, clientMap, sockOpen,
          sockOwner, pc, sock, readId, held, io, calls>>

Sockets == DOMAIN sockOpen

\* make_shared<SppServerSocket / SppClientSocket>: a new open socket of t
NewSocket(t) ==
    LET s == Cardinality(Sockets) + 1
    IN /\ sockOpen' = [x \in Sockets \cup {s} |-> IF x = s THEN TRUE ELSE sockOpen[x]]
       /\ sockOwner' = [x \in Sockets \cup {s} |-> IF x = s THEN t ELSE sockOwner[x]]
       /\ sock' = [sock EXCEPT ![t] = s]

\* std::map::insert(make_pair(id, wrap)): no effect if id is present
Insert(m, id, s) == IF id \in DOMAIN m THEN m ELSE m @@ (id :> s)

\* std::map::erase(id)
Erase(m, id) == [x \in DOMAIN m \ {id} |-> m[x]]

Close(s) == sockOpen' = [sockOpen EXCEPT ![s] = FALSE]

Idle(t) == pc[t] = "idle" /\ calls < MaxCalls /\ calls' = calls + 1

Done(t) == pc' = [pc EXCEPT ![t] = "idle"]

HeldIds(t, k) == {h.id : h \in {g \in held[t] : g.kind = k}}

Forget(t, k, id) == held' = [held EXCEPT ![t] = {h \in @ : ~(h.kind = k /\ h.id = id)}]

-----------------------------------------------------------------------------
(* The environment.                                                        *)

ToggleBt ==
    /\ btOn' = ~btOn
    /\ UNCHANGED <<serverIncrease, clientIncrease, serverMap, clientMap, sockOpen,
                   sockOwner, pc, sock, readId, held, io, calls>>

-----------------------------------------------------------------------------
(* The C API.                                                              *)

\* SppServerCreate: BT off or bad parameters return BT_SPP_INVALID_ID;
\* otherwise the server socket is built and serverId = g_ServerIncrease++ read
SppServerCreate(t, validPara) ==
    /\ Idle(t)
    /\ IF btOn /\ validPara
       THEN /\ NewSocket(t)
            /\ readId' = [readId EXCEPT ![t] = serverIncrease]
            /\ pc' = [pc EXCEPT ![t] = "serverId"]
       ELSE UNCHANGED <<sockOpen, sockOwner, sock, readId, pc>>
    /\ UNCHANGED <<btOn, serverIncrease, clientIncrease, serverMap, clientMap, held, io>>

\* mutant: the id is taken but g_ServerIncrease is not advanced
ServerIdWrite_noIncrement(t) ==
    /\ pc[t] = "serverId"
    /\ serverMap' = Insert(serverMap, readId[t], sock[t])
    /\ held' = [held EXCEPT ![t] = @ \cup {[kind |-> "server", id |-> readId[t], sock |-> sock[t]]}]
    /\ Done(t)
    /\ UNCHANGED <<btOn, serverIncrease, clientIncrease, clientMap, sockOpen, sockOwner, sock,
                   readId, io, calls>>

\* ... the write of g_ServerIncrease++, the insert, and return serverId
ServerIdWrite(t) ==
    /\ pc[t] = "serverId"
    /\ serverIncrease' = readId[t] + 1
    /\ serverMap' = Insert(serverMap, readId[t], sock[t])
    /\ held' = [held EXCEPT ![t] = @ \cup {[kind |-> "server", id |-> readId[t], sock |-> sock[t]]}]
    /\ Done(t)
    /\ UNCHANGED <<btOn, clientIncrease, clientMap, sockOpen, sockOwner, sock, readId, io, calls>>

\* SppServerAccept: look the server up, then block in server->Accept(0)
SppServerAccept(t, serverId) ==
    /\ Idle(t)
    /\ IF serverId \in DOMAIN serverMap
       THEN /\ sock' = [sock EXCEPT ![t] = serverMap[serverId]]
            /\ pc' = [pc EXCEPT ![t] = "accepting"]
       ELSE UNCHANGED <<sock, pc>>
    /\ UNCHANGED <<btOn, serverIncrease, clientIncrease, serverMap, clientMap, sockOpen,
                   sockOwner, readId, held, io>>

\* Accept returns: nullptr (no peer, or the server socket was closed) gives
\* BT_SPP_INVALID_ID; a client socket gets clientId = g_ClientIncrease++ read
AcceptReturns(t, connected) ==
    /\ pc[t] = "accepting"
    /\ IF connected /\ sockOpen[sock[t]]
       THEN /\ NewSocket(t)
            /\ readId' = [readId EXCEPT ![t] = clientIncrease]
            /\ pc' = [pc EXCEPT ![t] = "clientId"]
       ELSE /\ Done(t)
            /\ UNCHANGED <<sockOpen, sockOwner, sock, readId>>
    /\ UNCHANGED <<btOn, serverIncrease, clientIncrease, serverMap, clientMap, held, io, calls>>

\* BluetoothSocketServer::Connect, reached through the client socket's
\* Connect: RET_NO_SUPPORT when IProfileManager has no SPP service (the
\* profile services run only while Bluetooth is on), otherwise the
\* service's answer
SocketServerConnect(answer) == btOn /\ answer

\* SppConnect: the client socket connects; on success clientId = g_ClientIncrease++ read
SppConnect(t, connected) ==
    /\ Idle(t)
    /\ IF SocketServerConnect(connected)
       THEN /\ NewSocket(t)
            /\ readId' = [readId EXCEPT ![t] = clientIncrease]
            /\ pc' = [pc EXCEPT ![t] = "clientId"]
       ELSE UNCHANGED <<sockOpen, sockOwner, sock, readId, pc>>
    /\ UNCHANGED <<btOn, serverIncrease, clientIncrease, serverMap, clientMap, held, io>>

\* ... the write of g_ClientIncrease++, the insert, and return clientId
ClientIdWrite(t) ==
    /\ pc[t] = "clientId"
    /\ clientIncrease' = readId[t] + 1
    /\ clientMap' = Insert(clientMap, readId[t], sock[t])
    /\ held' = [held EXCEPT ![t] = @ \cup {[kind |-> "client", id |-> readId[t], sock |-> sock[t]]}]
    /\ Done(t)
    /\ UNCHANGED <<btOn, serverIncrease, serverMap, sockOpen, sockOwner, sock, readId, io, calls>>

\* SppServerClose: close the socket the id finds and erase the id
SppServerClose(t, serverId) ==
    /\ Idle(t)
    /\ IF serverId \in DOMAIN serverMap
       THEN Close(serverMap[serverId]) /\ serverMap' = Erase(serverMap, serverId)
       ELSE UNCHANGED <<sockOpen, serverMap>>
    /\ Forget(t, "server", serverId)
    /\ UNCHANGED <<btOn, serverIncrease, clientIncrease, clientMap, sockOwner, pc, sock,
                   readId, io>>

\* mutant: the erase names the server map
SppDisconnect_eraseServer(t, clientId) ==
    /\ Idle(t)
    /\ IF clientId \in DOMAIN clientMap
       THEN Close(clientMap[clientId]) /\ serverMap' = Erase(serverMap, clientId)
       ELSE UNCHANGED <<sockOpen, serverMap>>
    /\ Forget(t, "client", clientId)
    /\ UNCHANGED <<btOn, serverIncrease, clientIncrease, clientMap, sockOwner, pc, sock,
                   readId, io>>

\* SppDisconnect: close the socket the id finds and erase the id
SppDisconnect(t, clientId) ==
    /\ Idle(t)
    /\ IF clientId \in DOMAIN clientMap
       THEN Close(clientMap[clientId]) /\ clientMap' = Erase(clientMap, clientId)
       ELSE UNCHANGED <<sockOpen, clientMap>>
    /\ Forget(t, "client", clientId)
    /\ UNCHANGED <<btOn, serverIncrease, clientIncrease, serverMap, sockOwner, pc, sock,
                   readId, io>>

\* mutant: the client id is looked up in the server map
SppClientIo_serverMap(t, clientId) ==
    /\ Idle(t)
    /\ io' = [io EXCEPT ![t] = IF clientId \in DOMAIN serverMap THEN serverMap[clientId] ELSE 0]
    /\ UNCHANGED <<btOn, serverIncrease, clientIncrease, serverMap, clientMap, sockOpen,
                   sockOwner, pc, sock, readId, held>>

\* SppRead, SppWrite, IsSppConnected, SppGetRemoteAddr: look the id up and
\* use the socket it finds; a missing id fails
SppClientIo(t, clientId) ==
    /\ Idle(t)
    /\ io' = [io EXCEPT ![t] = IF clientId \in DOMAIN clientMap THEN clientMap[clientId] ELSE 0]
    /\ UNCHANGED <<btOn, serverIncrease, clientIncrease, serverMap, clientMap, sockOpen,
                   sockOwner, pc, sock, readId, held>>

-----------------------------------------------------------------------------
Init ==
    /\ btOn \in BOOLEAN
    /\ serverIncrease = 1 /\ clientIncrease = 1
    /\ serverMap = <<>> /\ clientMap = <<>>
    /\ sockOpen = <<>> /\ sockOwner = <<>>
    /\ pc = [t \in Threads |-> "idle"]
    /\ sock = [t \in Threads |-> 0]
    /\ readId = [t \in Threads |-> 0]
    /\ held = [t \in Threads |-> {}]
    /\ io = [t \in Threads |-> 0]
    /\ calls = 0

\* an application passes the ids it was given, or BT_SPP_INVALID_ID
Next ==
    \/ ToggleBt
    \/ \E t \in Threads :
          \/ \E v \in BOOLEAN : SppServerCreate(t, v) \/ AcceptReturns(t, v) \/ SppConnect(t, v)
          \/ ServerIdWrite(t) \/ ClientIdWrite(t)
          \/ \E id \in HeldIds(t, "server") \cup {INVALID} :
                SppServerAccept(t, id) \/ SppServerClose(t, id)
          \/ \E id \in HeldIds(t, "client") \cup {INVALID} :
                SppDisconnect(t, id) \/ SppClientIo(t, id)

\* a call that has begun completes: Accept returns (a peer or a failure)
Spec == Init /\ [][Next]_vars /\ \A t \in Threads : WF_vars(ServerIdWrite(t) \/ ClientIdWrite(t))

-----------------------------------------------------------------------------
TypeOK ==
    /\ btOn \in BOOLEAN
    /\ \A id \in DOMAIN serverMap : 0 < id /\ id < serverIncrease
    /\ \A id \in DOMAIN clientMap : 0 < id /\ id < clientIncrease
    /\ pc \in [Threads -> {"idle", "serverId", "accepting", "clientId"}]
    /\ \A t \in Threads : held[t] \subseteq [kind : {"server", "client"}, id : Nat, sock : Sockets]
    /\ \A t \in Threads : io[t] \in Sockets \cup {0}
    /\ calls \in 0..MaxCalls

(* Every id the adapter has returned to a caller, and the caller has not   *)
(* closed, still finds in its map the socket that call created:            *)
(* SppServerCreate, SppServerAccept and SppConnect hand out ids no other   *)
(* socket shares, and a close erases only its own id from its own map.     *)
IdsAddressOwnSocket ==
    \A t \in Threads : \A h \in held[t] :
        LET m == IF h.kind = "server" THEN serverMap ELSE clientMap
        IN h.id \in DOMAIN m /\ m[h.id] = h.sock

\* the handles the application holds, as SppHandles sees them
Handles == INSTANCE SppHandles
               WITH handles <- held, io <- io, Ids <- 1..MaxCalls, SocketIds <- 1..MaxCalls

(* Used from one thread, the adapter behaves as a handle table: every id  *)
(* it returns is fresh among the open ids of its kind and bound to the new *)
(* socket, a close gives back only that handle, and a read or write on an  *)
(* id reaches the socket the id was handed out for.                        *)
ImplementsHandles == Handles!Spec

(* A thread's SppRead / SppWrite reaches only a socket its own calls made: *)
(* no two threads are handed the same client id.                           *)
NoCrossTalk ==
    \A t \in Threads : io[t] # 0 => sockOwner[io[t]] = t

====
