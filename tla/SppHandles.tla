------------------------------ MODULE SppHandles ------------------------------
(***************************************************************************)
(* What the SPP C adapter promises an application, without counters, maps  *)
(* or steps: each successful SppServerCreate, SppServerAccept or SppConnect *)
(* hands its caller a handle, an id of its kind (server or client) that no *)
(* open handle of that kind has, bound to the new socket; a close gives    *)
(* the handle back; SppRead / SppWrite on a client handle reach the socket *)
(* it is bound to, and on anything else reach nothing.  SppRegistry        *)
(* implements this specification under the mapping SppRegistry!Handles.   *)
(***************************************************************************)
CONSTANTS
    Threads,
    Ids,        \* the ids the adapter can hand out
    SocketIds   \* the sockets it can create

VARIABLES
    handles,    \* handles[t]: the [kind, id, sock] the adapter handed t, still open
    io          \* io[t]: the socket t's last read or write reached (0: none)

handleVars == <<handles, io>>

Kinds == {"server", "client"}

AllHandles == UNION {handles[t] : t \in Threads}

\* an id no open handle of kind k carries, and a socket no handle is bound to
FreshId(k, id) == \A h \in AllHandles : h.kind = k => h.id # id
FreshSocket(s) == \A h \in AllHandles : h.sock # s

Init ==
    /\ handles = [t \in Threads |-> {}]
    /\ io = [t \in Threads |-> 0]

Open(t, k, id, s) ==
    /\ FreshId(k, id) /\ FreshSocket(s)
    /\ handles' = [handles EXCEPT ![t] = @ \cup {[kind |-> k, id |-> id, sock |-> s]}]
    /\ UNCHANGED io

Close(t, h) ==
    /\ h \in handles[t]
    /\ handles' = [handles EXCEPT ![t] = @ \ {h}]
    /\ UNCHANGED io

ReachHandle(t, h) ==
    /\ h \in handles[t] /\ h.kind = "client"
    /\ io' = [io EXCEPT ![t] = h.sock]
    /\ UNCHANGED handles

ReachNothing(t) ==
    /\ io' = [io EXCEPT ![t] = 0]
    /\ UNCHANGED handles

Next ==
    \E t \in Threads :
        \/ \E k \in Kinds, id \in Ids, s \in SocketIds : Open(t, k, id, s)
        \/ \E h \in handles[t] : Close(t, h) \/ ReachHandle(t, h)
        \/ ReachNothing(t)

Spec == Init /\ [][Next]_handleVars

====
