---------------------------- MODULE A2dpSourceProxy ----------------------------
(***************************************************************************)
(* The client-side A2dpSource (framework/src/bluetooth_a2dp_src.cpp): its  *)
(* pimpl->proxy_ to the A2DP source service, the death recipient that      *)
(* clears it on a binder thread, and the caller threads whose every method *)
(* tests "proxy_ != nullptr && IS_BT_ENABLED()" and then reads proxy_      *)
(* again to call through it.  The service can stop and start again; the    *)
(* proxy_ is fetched once, by the constructor of the static singleton.     *)
(*                                                                         *)
(* Above it sits the NAPI A2dpSource (kits/napi/src/napi_bluetooth_a2dp_   *)
(* src.cpp): JS "on" stores a callback in callbackInfos_ and, the first    *)
(* time, registers the static NAPI observer_ in A2dpSource's observers_;   *)
(* "off" clears the callback.  The constructor registers observerImp_ with *)
(* the service it found; the service's reports arrive on a binder thread   *)
(* and observerImp_ forwards them to every observer in observers_.  The    *)
(* NAPI observer (napi_bluetooth_a2dp_src_observer.h) overrides only      *)
(* OnConnectionStateChanged.  The service, its list of remote observers,   *)
(* BluetoothObserverList and the body of the NAPI observer are not in the  *)
(* repository: the service reports to the observers registered with its    *)
(* own incarnation, the list ignores an observer already in it, and the    *)
(* NAPI observer hands a report to the JS callback of its type, if any.    *)
(***************************************************************************)
EXTENDS Naturals, Sequences

CONSTANTS
    Callers,            \* application threads calling A2dpSource methods
    MaxRestarts,        \* bound on service restarts
    NULL,
    RET_NO_ERROR, RET_BAD_PARAM, RET_BAD_STATUS,
    DEAD_OBJECT,        \* what a proxy call on a dead remote returns
    JsCallbacks,        \* JS functions an app passes to "on"
    MaxEvents           \* bound on state changes the service reports

\* the methods by what they return
BoolMethods == {"Connect", "Disconnect", "SetConnectStrategy"}
StatusMethods == {"GetDeviceState", "GetPlayingState", "GetConnectStrategy",
                  "SetCodecPreference", "StartPlaying", "SuspendPlaying", "StopPlaying",
                  "SetActiveSinkDevice", "GetOptionalCodecsSupportState"}
VoidMethods == {"SwitchOptionalCodecs", "SetAudioConfigure", "GetCodecStatus",
                "GetActiveSinkDevice", "GetDevicesByStates", "GetRenderPosition"}
\* the methods that check the device (or states) before the proxy test
DeviceMethods == (BoolMethods \cup StatusMethods \cup VoidMethods)
                     \ {"GetActiveSinkDevice", "GetRenderPosition"}
Methods == BoolMethods \cup StatusMethods \cup VoidMethods \cup {"WriteFrame"}

\* what the service itself may answer
ServiceResults == {RET_NO_ERROR, RET_BAD_STATUS}

\* the return value of the input check, of the proxy-or-BT-off branch, and
\* of a call that went through, per method; a bool is 1 or 0 and the
\* "return false" of an int method is 0
BadParamResult(m) ==
    IF m \in BoolMethods THEN 0
    ELSE IF m \in {"GetDeviceState", "GetPlayingState"} THEN RET_BAD_STATUS
    ELSE RET_BAD_PARAM
ProxyOffResult(m) ==
    IF m \in BoolMethods \/ m = "SetActiveSinkDevice" THEN 0 ELSE RET_BAD_STATUS
\* mutant: a bool method returns the service's code unconverted
ReturnOf_raw(m, r) ==
    IF m = "GetOptionalCodecsSupportState" THEN RET_NO_ERROR ELSE r
ReturnOf(m, r) ==
    IF m \in BoolMethods THEN (IF r = RET_NO_ERROR THEN 1 ELSE 0)
    ELSE IF m = "GetOptionalCodecsSupportState" THEN RET_NO_ERROR
    ELSE r

\* the reports of IBluetoothA2dpSrcObserver
Reports == {"OnConnectionStateChanged", "OnPlayingStatusChanged", "OnConfigurationChanged"}

\* NapiA2dpSourceObserver overrides OnConnectionStateChanged only, for the
\* JS type STR_BT_A2DP_SOURCE_CONNECTION_STATE_CHANGE
NapiTypeOf == [OnConnectionStateChanged |-> "connectionStateChange"]
EventTypes == {"connectionStateChange"}

VARIABLES
    proxy,          \* pimpl->proxy_: NULL or the service incarnation it points to
    deathLinked,    \* deathRecipient_ is linked to proxy_'s remote object
    deathPending,   \* binder has queued OnRemoteDied
    svcUp,          \* the A2DP source service is running
    epoch,          \* the incarnation of the running (or last) service
    btOn,           \* IS_BT_ENABLED()
    pc,             \* pc[c]: "idle", "tested" (passed the test) or "crashed"
    meth,           \* meth[c]: the method caller c is in
    last,           \* last[c]: [m, ret, reached] of c's last return
    obsImp,         \* the incarnation observerImp_ is registered with, or NULL
    observers,      \* pimpl->observers_: "napi" (NapiA2dpSource::observer_), "native"
    callbackInfos,  \* NapiA2dpSourceObserver::callbackInfos_: type -> callback or NULL
    isRegistered,   \* NapiA2dpSource::isRegistered_
    log,            \* every report of the service: [kind, epoch] (history)
    wire,           \* reports sent to observerImp_, not yet run on the binder thread
    owed            \* reports made while JS had a callback of their type, not yet
                    \* handed to one and not cancelled by "off" (history)

evVars == <<obsImp, observers, callbackInfos, isRegistered, log, wire, owed>>
vars == <<proxy, deathLinked, deathPending, svcUp, epoch, btOn, pc, meth, last, evVars>>

\* A2dpSource::impl::impl(): GetProxy() succeeds only when the service is
\* there; then the death recipient is linked and observerImp_ registered
\* with that service
Init ==
    /\ svcUp \in BOOLEAN
    /\ epoch = 0
    /\ proxy = IF svcUp THEN 0 ELSE NULL
    /\ deathLinked = svcUp
    /\ deathPending = FALSE
    /\ btOn \in BOOLEAN
    /\ pc = [c \in Callers |-> "idle"]
    /\ meth = [c \in Callers |-> "none"]
    /\ last = [c \in Callers |-> [m |-> "none", ret |-> RET_NO_ERROR, reached |-> FALSE]]
    /\ obsImp = proxy
    /\ observers = {}
    /\ callbackInfos = [t \in EventTypes |-> NULL]
    /\ isRegistered = FALSE
    /\ log = <<>> /\ wire = <<>> /\ owed = {}

-----------------------------------------------------------------------------
(* The environment: the service and the host.                              *)

\* the service dies; binder queues the death notice of a linked recipient
ServiceDies ==
    /\ svcUp
    /\ svcUp' = FALSE
    /\ deathPending' = (deathPending \/ (deathLinked /\ proxy = epoch))
    /\ UNCHANGED <<proxy, deathLinked, epoch, btOn, pc, meth, last, evVars>>

ServiceStarts ==
    /\ ~svcUp
    /\ epoch < MaxRestarts
    /\ svcUp' = TRUE
    /\ epoch' = epoch + 1
    /\ UNCHANGED <<proxy, deathLinked, deathPending, btOn, pc, meth, last, evVars>>

ToggleBt ==
    /\ btOn' = ~btOn
    /\ UNCHANGED <<proxy, deathLinked, deathPending, svcUp, epoch, pc, meth, last, evVars>>

-----------------------------------------------------------------------------
(* A2dpSource.                                                             *)

\* mutant: the handler unlinks the recipient but leaves proxy_ set
OnRemoteDied_keepProxy ==
    /\ deathPending
    /\ deathPending' = FALSE
    /\ deathLinked' = FALSE
    /\ UNCHANGED <<proxy, svcUp, epoch, btOn, pc, meth, last, evVars>>

\* BluetoothA2dpSourceDeathRecipient::OnRemoteDied: unlink, clear proxy_
OnRemoteDied ==
    /\ deathPending
    /\ deathPending' = FALSE
    /\ deathLinked' = FALSE
    /\ proxy' = NULL
    /\ UNCHANGED <<svcUp, epoch, btOn, pc, meth, last, evVars>>

\* the entry of a method: the input check, then the proxy-and-BT test
Return(c, m, v, reached) ==
    /\ last' = [last EXCEPT ![c] = [m |-> m, ret |-> v, reached |-> reached]]
    /\ meth' = [meth EXCEPT ![c] = "none"]
    /\ pc' = [pc EXCEPT ![c] = "idle"]

BeginCall(c, m, validInput) ==
    /\ pc[c] = "idle"
    /\ CASE m \in DeviceMethods /\ ~validInput -> Return(c, m, BadParamResult(m), FALSE)
         [] proxy # NULL /\ btOn ->
              /\ pc' = [pc EXCEPT ![c] = "tested"]
              /\ meth' = [meth EXCEPT ![c] = m]
              /\ UNCHANGED last
         [] OTHER -> Return(c, m, ProxyOffResult(m), FALSE)
    /\ UNCHANGED <<proxy, deathLinked, deathPending, svcUp, epoch, btOn, evVars>>

\* pimpl->proxy_->Method(...): proxy_ is read again; a call on the remote of
\* a stopped or replaced service returns DEAD_OBJECT
InvokeProxy(c) ==
    /\ pc[c] = "tested"
    /\ IF proxy = NULL
       THEN /\ pc' = [pc EXCEPT ![c] = "crashed"]
            /\ UNCHANGED <<meth, last>>
       ELSE LET reached == svcUp /\ proxy = epoch
            IN \E r \in IF reached THEN ServiceResults ELSE {DEAD_OBJECT} :
                  Return(c, meth[c], ReturnOf(meth[c], r), reached)
    /\ UNCHANGED <<proxy, deathLinked, deathPending, svcUp, epoch, btOn, evVars>>

-----------------------------------------------------------------------------
(* The observer chain.                                                     *)

\* the JS callback a report of kind r is for, if any
JsCallbackFor(r) ==
    IF r \in DOMAIN NapiTypeOf THEN callbackInfos[NapiTypeOf[r]] ELSE NULL

\* the service sends report r to the remote observers registered with its
\* own incarnation (environment)
ServiceReports(r) ==
    LET n == Len(log) + 1
    IN /\ svcUp
       /\ n <= MaxEvents
       /\ log' = Append(log, [kind |-> r, epoch |-> epoch])
       /\ wire' = IF obsImp = epoch THEN Append(wire, n) ELSE wire
       /\ owed' = IF JsCallbackFor(r) # NULL THEN owed \cup {n} ELSE owed
       /\ UNCHANGED <<proxy, deathLinked, deathPending, svcUp, epoch, btOn, pc, meth, last,
                      obsImp, observers, callbackInfos, isRegistered>>

\* BluetoothA2dpSourceObserverImp::OnConnectionStateChanged (and the other
\* two reports) on a binder thread: observers_.ForEach hands the report to
\* every observer, and the NAPI observer to the JS callback of its type
BinderDeliver ==
    /\ wire # <<>>
    /\ LET n == Head(wire)
           heard == "napi" \in observers /\ JsCallbackFor(log[n].kind) # NULL
       IN owed' = IF heard THEN owed \ {n} ELSE owed
    /\ wire' = Tail(wire)
    /\ UNCHANGED <<proxy, deathLinked, deathPending, svcUp, epoch, btOn, pc, meth, last,
                   obsImp, observers, callbackInfos, isRegistered, log>>

\* A2dpSource::RegisterObserver / DeregisterObserver, from a native client
RegisterObserver(o) ==
    /\ observers' = observers \cup {o}
    /\ UNCHANGED <<proxy, deathLinked, deathPending, svcUp, epoch, btOn, pc, meth, last,
                   obsImp, callbackInfos, isRegistered, log, wire, owed>>

DeregisterObserver(o) ==
    /\ observers' = observers \ {o}
    /\ UNCHANGED <<proxy, deathLinked, deathPending, svcUp, epoch, btOn, pc, meth, last,
                   obsImp, callbackInfos, isRegistered, log, wire, owed>>

\* NapiA2dpSource::On(type, f) with two arguments, a string and a function
\* (every other call returns early and changes nothing): f replaces
\* callbackInfos_[type]; the first such call registers observer_
On(ty, f) ==
    /\ callbackInfos' = [callbackInfos EXCEPT ![ty] = f]
    /\ IF isRegistered THEN UNCHANGED <<observers, isRegistered>>
       ELSE observers' = observers \cup {"napi"} /\ isRegistered' = TRUE
    /\ UNCHANGED <<proxy, deathLinked, deathPending, svcUp, epoch, btOn, pc, meth, last,
                   obsImp, log, wire, owed>>

\* mutant: "off" also deregisters observer_, leaving isRegistered_ set
Off_deregister(ty) ==
    /\ callbackInfos' = [callbackInfos EXCEPT ![ty] = NULL]
    /\ observers' = observers \ {"napi"}
    /\ owed' = {n \in owed : NapiTypeOf[log[n].kind] # ty}
    /\ UNCHANGED <<proxy, deathLinked, deathPending, svcUp, epoch, btOn, pc, meth, last,
                   obsImp, isRegistered, log, wire>>

\* NapiA2dpSource::Off(type): callbackInfos_[type] = nullptr
Off(ty) ==
    /\ callbackInfos' = [callbackInfos EXCEPT ![ty] = NULL]
    /\ owed' = {n \in owed : NapiTypeOf[log[n].kind] # ty}
    /\ UNCHANGED <<proxy, deathLinked, deathPending, svcUp, epoch, btOn, pc, meth, last,
                   obsImp, observers, isRegistered, log, wire>>

\* the A2dpSource method each NAPI method calls once its argument parses;
\* getConnectionDevices passes the valid state list {CONNECTED}
NapiMethod == [connect |-> "Connect", disconnect |-> "Disconnect",
               getDeviceState |-> "GetDeviceState", getPlayingState |-> "GetPlayingState",
               getConnectionDevices |-> "GetDevicesByStates"]

NapiCall(c, m, validDevice) ==
    BeginCall(c, NapiMethod[m], validDevice \/ m = "getConnectionDevices")

Next ==
    \/ ServiceDies \/ ServiceStarts \/ ToggleBt
    \/ OnRemoteDied
    \/ \E c \in Callers, m \in Methods, v \in BOOLEAN : BeginCall(c, m, v)
    \/ \E c \in Callers, m \in DOMAIN NapiMethod, v \in BOOLEAN : NapiCall(c, m, v)
    \/ \E c \in Callers : InvokeProxy(c)
    \/ \E r \in Reports : ServiceReports(r)
    \/ \E ty \in EventTypes : Off(ty)
    \/ \E ty \in EventTypes, f \in JsCallbacks : On(ty, f)
    \/ BinderDeliver
    \/ RegisterObserver("native") \/ DeregisterObserver("native")

\* binder delivers death notices and runs queued reports; a caller
\* completes a call it has begun
Spec == Init /\ [][Next]_vars /\ WF_vars(OnRemoteDied) /\ WF_vars(BinderDeliver)
            /\ \A c \in Callers : WF_vars(InvokeProxy(c))

-----------------------------------------------------------------------------
TypeOK ==
    /\ proxy \in (0..MaxRestarts) \cup {NULL}
    /\ deathLinked \in BOOLEAN /\ deathPending \in BOOLEAN
    /\ svcUp \in BOOLEAN /\ epoch \in 0..MaxRestarts /\ btOn \in BOOLEAN
    /\ pc \in [Callers -> {"idle", "tested", "crashed"}]
    /\ meth \in [Callers -> Methods \cup {"none"}]
    /\ \A c \in Callers :
          /\ last[c].m \in Methods \cup {"none"}
          /\ last[c].reached \in BOOLEAN
          /\ last[c].m \in BoolMethods => last[c].ret \in {0, 1}
    /\ obsImp \in (0..MaxRestarts) \cup {NULL}
    /\ observers \subseteq {"napi", "native"}
    /\ callbackInfos \in [EventTypes -> JsCallbacks \cup {NULL}]
    /\ isRegistered \in BOOLEAN
    /\ Len(log) <= MaxEvents /\ owed \subseteq 1..Len(log)
    /\ \A i \in 1..Len(wire) : log[wire[i]].epoch = obsImp

(* A proxy_ left pointing at a service that has stopped or been replaced  *)
(* always has its death notice queued: the constructor links the death     *)
(* recipient and OnRemoteDied clears proxy_ when it runs.                  *)
StaleProxyHasPendingDeath ==
    (proxy # NULL /\ ~(svcUp /\ proxy = epoch)) => deathPending

(* No method calls through a null proxy_: the test and the call read       *)
(* proxy_ separately and OnRemoteDied may clear it between them.           *)
NoNullProxyCall == \A c \in Callers : pc[c] # "crashed"

(* A method that returns its success value reached the running service:   *)
(* no failure path returns RET_NO_ERROR (or true).                         *)
SuccessOnlyFromService ==
    \A c \in Callers :
        LET l == last[c]
        IN (l.m \in Methods \ VoidMethods /\ l.ret = IF l.m \in BoolMethods THEN 1 ELSE RET_NO_ERROR)
               => l.reached

(* While the service runs and no death notice is pending, A2dpSource holds *)
(* a proxy to that service: it recovers from a service restart.            *)
ProxyFollowsService ==
    (svcUp /\ ~deathPending) => proxy = epoch

(* A change reported by the service observerImp_ was registered with,     *)
(* while the JS app had a callback of its type, reaches a JS callback     *)
(* unless the app turns that type off first: "on" registers observer_     *)
(* with A2dpSource once and for good, and observerImp_ forwards every      *)
(* report to all of observers_.                                            *)
JsHearsReports ==
    \A n \in 1..MaxEvents :
        (n \in owed /\ log[n].epoch = obsImp) ~> (n \notin owed)

(* Every change the service reports while the JS app has a callback of    *)
(* its type reaches a JS callback: observerImp_ is registered only by the *)
(* constructor, with the service it found then, so a service that starts  *)
(* later or restarts never reports to this process.                        *)
JsHearsEveryReport ==
    \A n \in 1..MaxEvents : (n \in owed) ~> (n \notin owed)

====
