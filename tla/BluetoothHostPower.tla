-------------------------- MODULE BluetoothHostPower --------------------------
(***************************************************************************)
(* Turning Bluetooth on and off through the two client layers that observe *)
(* the same host:                                                          *)
(*  - the C GAP adapter (c_adapter/ohos_bt_gap.cpp): EnableBle, DisableBle,*)
(*    EnableBt, DisableBt, the lazily set g_BluetoothHost, and the         *)
(*    observer wrapper that forwards state changes to g_GapCallback;       *)
(*  - the NAPI host observer (napi_bluetooth_host_observer.cpp): the JS    *)
(*    app's enable turns BLE on and, when BLE reports on, DealStateChange  *)
(*    turns BR on; its disable turns BR off and, when BR reports off,      *)
(*    turns BLE off.  currentAppOperate marks an app operation whose       *)
(*    second stage is still due.  Each JS callback is queued with          *)
(*    uv_queue_work and runs later on the JS loop.                         *)
(*                                                                         *)
(* The host's adapter state machine, and the JS enableBluetooth and        *)
(* disableBluetooth that set currentAppOperate, are not in the repository; *)
(* they are the environment here.  The host changes state on its adapter   *)
(* thread and posts each change, in order, to its observers, which run on  *)
(* its callback thread.                                                    *)
(***************************************************************************)
EXTENDS Naturals, Sequences

CONSTANTS
    MaxCalls,           \* bound on client calls (C client and JS app together)
    ConfirmTypes,       \* the PAIR_CONFIRM_TYPE_s the host may ask about
    MaxHostEvents       \* bound on pairing and discovery events the host raises

\* BTStateID of one transport
HostStates == {"TURN_OFF", "TURNING_ON", "TURN_ON", "TURNING_OFF"}
\* BluetoothState as the JS callback receives it
JsStates == {"STATE_OFF", "STATE_TURNING_ON", "STATE_ON", "STATE_TURNING_OFF",
             "STATE_BLE_TURNING_ON", "STATE_BLE_ON", "STATE_BLE_TURNING_OFF"}

VARIABLES
    ble, br,        \* the host's state of each transport
    events,         \* state changes posted to the host's observers, in order
    appOperate,     \* NapiBluetoothHostObserver currentAppOperate
    jsCallback,     \* the JS app has registered "stateChange"
    jsQueue,        \* BluetoothStates queued with uv_queue_work, not yet run
    gapRegistered,  \* GapRegisterCallbacks ran: g_GapCallback set, g_HostObserver registered
    calls,          \* client calls made so far
    bleOffWanted,   \* the last BLE request of any client was to turn it off
    appWaiting,     \* an app enable from off that no client has countermanded:
                    \* "none", "quiet" (nothing was queued for the observers
                    \* when it started) or "queued"
    appOffWaiting,  \* an app disable from BR/EDR on, started with nothing queued
                    \* for the observers, that no client has countermanded
    pairQ,          \* pairing and discovery events posted to the observers, in order
    pairs,          \* such events raised so far
    cAsked,         \* pairing events handed to the C client, not yet answered
    jsPin,          \* the JS app has registered "pinRequired"
    jsFind,         \* the JS app has registered "deviceFind"
    jsWork,         \* [cb, id]: JS callbacks queued with uv_queue_work, not yet run
    jsHeard,        \* events a JS callback has received
    jsAsked,        \* pairing confirmations the JS callback received, unanswered
    replies         \* the answers the host received: [id, by, accept]

pairVars == <<pairQ, pairs, cAsked, jsPin, jsFind, jsWork, jsHeard, jsAsked, replies>>
vars == <<ble, br, events, appOperate, jsCallback, jsQueue,
          gapRegistered, calls, bleOffWanted, appWaiting, appOffWaiting, pairVars>>

-----------------------------------------------------------------------------
(* The host (environment).                                                 *)

Host == [ble |-> ble, br |-> br, q |-> events]

Post(h, t, s) == [h EXCEPT !.q = Append(@, [t |-> t, s |-> s])]

\* a request to the host service; it starts a transition or ignores the call
HostCall(op, h) ==
    CASE op = "EnableBle" /\ h.ble = "TURN_OFF" ->
             Post([h EXCEPT !.ble = "TURNING_ON"], "BLE", "TURNING_ON")
      [] op = "DisableBle" /\ h.ble = "TURN_ON" /\ h.br = "TURN_OFF" ->
             Post([h EXCEPT !.ble = "TURNING_OFF"], "BLE", "TURNING_OFF")
      [] op = "EnableBt" /\ h.ble = "TURN_ON" /\ h.br = "TURN_OFF" ->
             Post([h EXCEPT !.br = "TURNING_ON"], "BREDR", "TURNING_ON")
      [] op = "DisableBt" /\ h.br = "TURN_ON" ->
             Post([h EXCEPT !.br = "TURNING_OFF"], "BREDR", "TURNING_OFF")
      [] OTHER -> h

SetHost(h) == ble' = h.ble /\ br' = h.br /\ events' = h.q

\* IsBleEnabled()
IsBleEnabled == ble = "TURN_ON"

Settled(s) == IF s = "TURNING_ON" THEN "TURN_ON" ELSE "TURN_OFF"

\* the adapter thread finishes a transition of transport t
HostComplete(t) ==
    LET s == IF t = "BLE" THEN ble ELSE br
    IN /\ s \in {"TURNING_ON", "TURNING_OFF"}
       /\ IF t = "BLE" THEN ble' = Settled(s) /\ br' = br
                       ELSE br' = Settled(s) /\ ble' = ble
       /\ events' = Append(events, [t |-> t, s |-> Settled(s)])
       /\ UNCHANGED <<pairVars, appOperate, jsCallback, jsQueue, gapRegistered,
                      calls, bleOffWanted, appWaiting, appOffWaiting>>

-----------------------------------------------------------------------------
(* The JS app (environment): enableBluetooth and disableBluetooth mark the *)
(* operation in currentAppOperate and start its first stage.               *)

AppEnable ==
    /\ calls < MaxCalls
    /\ calls' = calls + 1
    /\ appOperate' = TRUE
    /\ SetHost(HostCall("EnableBle", Host))
    /\ bleOffWanted' = FALSE
    /\ appWaiting' = CASE appWaiting # "none" -> appWaiting
                       [] ble = "TURN_OFF" /\ br = "TURN_OFF" ->
                            IF events = <<>> THEN "quiet" ELSE "queued"
                       [] OTHER -> "none"
    /\ appOffWaiting' = FALSE
    /\ UNCHANGED <<pairVars, jsCallback, jsQueue, gapRegistered>>

AppDisable ==
    /\ calls < MaxCalls
    /\ calls' = calls + 1
    /\ IF br = "TURN_ON"
       THEN appOperate' = TRUE /\ SetHost(HostCall("DisableBt", Host))
       ELSE UNCHANGED appOperate /\ SetHost(HostCall("DisableBle", Host))
    /\ bleOffWanted' = TRUE
    /\ appWaiting' = "none"
    /\ appOffWaiting' = (appOffWaiting \/ (br = "TURN_ON" /\ events = <<>>))
    /\ UNCHANGED <<pairVars, jsCallback, jsQueue, gapRegistered>>

JsRegister ==
    /\ jsCallback' = ~jsCallback
    /\ UNCHANGED <<pairVars, ble, br, events, appOperate, jsQueue, gapRegistered,
                   calls, bleOffWanted, appWaiting, appOffWaiting>>

-----------------------------------------------------------------------------
(* The C GAP adapter.                                                      *)

\* the early returns of EnableBle/DisableBle/EnableBt/DisableBt, read
\* through IsBleEnabled and GetBtState before the host is called
Skips(op) ==
    CASE op = "EnableBle"  -> IsBleEnabled
      [] op = "DisableBle" -> ~IsBleEnabled
      [] op = "EnableBt"   -> br \in {"TURNING_ON", "TURN_ON"}
      [] op = "DisableBt"  -> br \in {"TURNING_OFF", "TURN_OFF"}

\* every entry point sets g_BluetoothHost first if it is NULL; no property
\* here reads g_BluetoothHost, so it is not kept
CPower(op) ==
    /\ calls < MaxCalls
    /\ calls' = calls + 1
    /\ IF Skips(op) THEN UNCHANGED <<ble, br, events>> ELSE SetHost(HostCall(op, Host))
    /\ bleOffWanted' = CASE op = "EnableBle" -> FALSE
                         [] op = "DisableBle" -> TRUE
                         [] OTHER -> bleOffWanted
    /\ appWaiting' = IF op \in {"EnableBle", "EnableBt"} THEN appWaiting ELSE "none"
    /\ appOffWaiting' = IF op \in {"EnableBle", "EnableBt"} THEN FALSE ELSE appOffWaiting
    /\ UNCHANGED <<pairVars, appOperate, jsCallback, jsQueue, gapRegistered>>

\* sets g_BluetoothHost if NULL, g_GapCallback, and registers g_HostObserver
GapRegisterCallbacks ==
    /\ ~gapRegistered
    /\ gapRegistered' = TRUE
    /\ UNCHANGED <<pairVars, ble, br, events, appOperate, jsCallback, jsQueue,
                   calls, bleOffWanted, appWaiting, appOffWaiting>>

-----------------------------------------------------------------------------
(* The NAPI host observer.                                                 *)

\* DealStateChange, split by what it decides: the BluetoothState passed to
\* JS, whether JS is called (BR TURN_OFF sets isCallback = false), and the
\* second stage of an app operation it starts
JsStateOf(t, s) ==
    IF t = "BREDR"
    THEN [TURNING_ON |-> "STATE_TURNING_ON", TURN_ON |-> "STATE_ON",
          TURNING_OFF |-> "STATE_TURNING_OFF", TURN_OFF |-> "STATE_OFF"][s]
    ELSE [TURNING_ON |-> "STATE_BLE_TURNING_ON", TURN_ON |-> "STATE_BLE_ON",
          TURNING_OFF |-> "STATE_BLE_TURNING_OFF", TURN_OFF |-> "STATE_OFF"][s]

IsCallback(t, s) == ~(t = "BREDR" /\ s = "TURN_OFF")

\* mutant: BLE on no longer starts the BR stage of an app enable
SecondStage_noEnableBt(t, s) ==
    IF t = "BREDR" /\ s = "TURN_OFF" /\ IsBleEnabled /\ appOperate THEN "DisableBle" ELSE "none"

\* mutant: BR off no longer starts the BLE stage of an app disable
SecondStage_noDisableBle(t, s) ==
    IF t = "BLE" /\ s = "TURN_ON" /\ appOperate THEN "EnableBt" ELSE "none"

\* BR off with BLE on finishes an app disable; BLE on continues an app enable
SecondStage(t, s) ==
    CASE t = "BREDR" /\ s = "TURN_OFF" /\ IsBleEnabled /\ appOperate -> "DisableBle"
      [] t = "BLE" /\ s = "TURN_ON" /\ appOperate -> "EnableBt"
      [] OTHER -> "none"

\* NapiBluetoothHostObserver::EnableBt / DisableBle: call the host, then
\* SetCurrentAppOperate(false)
RunSecondStage(op, h) == SetHost(HostCall(op, h)) /\ appOperate' = FALSE

\* mutant: the JS callback is handed the host's BTStateID unconverted
OnStateChanged_rawState ==
    /\ events # <<>>
    /\ SetHost([Host EXCEPT !.q = Tail(events)])
    /\ jsQueue' = IF jsCallback THEN Append(jsQueue, Head(events).s) ELSE jsQueue
    /\ UNCHANGED <<pairVars, appOperate, jsCallback, gapRegistered, calls,
                   bleOffWanted, appWaiting, appOffWaiting>>

\* the host's callback thread delivers the next change to its observers:
\* NapiBluetoothHostObserver::OnStateChanged (EnableBt / DisableBle call the
\* host and clear currentAppOperate; the JS callback is queued if
\* registered), then BluetoothHostObserverWapper::OnStateChanged, which
\* calls the C stateChangeCallback if GapRegisterCallbacks registered it
\* (what the C client receives is not kept: no property reads it)
OnStateChanged ==
    /\ events # <<>>
    /\ LET e == Head(events)
           op == SecondStage(e.t, e.s)
           h == [Host EXCEPT !.q = Tail(events)]
       IN /\ IF op = "none"
             THEN SetHost(h) /\ UNCHANGED appOperate
             ELSE RunSecondStage(op, h)
          /\ jsQueue' = IF IsCallback(e.t, e.s) /\ jsCallback
                        THEN Append(jsQueue, JsStateOf(e.t, e.s)) ELSE jsQueue
    /\ UNCHANGED <<pairVars, jsCallback, gapRegistered, calls, bleOffWanted, appWaiting, appOffWaiting>>

\* AfterWorkCallback runs a queued UvQueueWorkOnStateChanged on the JS loop;
\* uv_queue_work completes its works in any order.  The state the JS
\* callback receives is not kept: no property reads it
UvQueueWorkOnStateChanged ==
    /\ jsQueue # <<>>
    /\ \E i \in 1..Len(jsQueue) :
          /\ jsQueue' = SubSeq(jsQueue, 1, i - 1) \o SubSeq(jsQueue, i + 1, Len(jsQueue))
    /\ UNCHANGED <<pairVars, ble, br, events, appOperate, jsCallback, gapRegistered,
                   calls, bleOffWanted, appWaiting, appOffWaiting>>

-----------------------------------------------------------------------------
(* Pairing and discovery.  The host raises OnPairRequested,               *)
(* OnPairConfirmed and OnDiscoveryResult for a remote device on a          *)
(* transport that is on (environment); both observers receive each on the *)
(* callback thread.                                                        *)

Transports == {"BREDR", "BLE"}
HostEvents ==
    [id : 1..MaxHostEvents, what : {"request", "found"}, tr : Transports]
    \cup [id : 1..MaxHostEvents, what : {"confirm"}, tr : Transports, req : ConfirmTypes]

TransportOn(tr) == IF tr = "BREDR" THEN br = "TURN_ON" ELSE ble = "TURN_ON"

HostRaisesEvent(e) ==
    /\ e.id = pairs + 1
    /\ TransportOn(e.tr)
    /\ pairs' = pairs + 1
    /\ pairQ' = Append(pairQ, e)
    /\ UNCHANGED <<cAsked, jsPin, jsFind, jsWork, jsHeard, jsAsked, replies>>

\* the confirmations each layer passes on: DealBredrPairComfirmed and
\* DealBlePairComfirmed in the NAPI observer, the transport test of
\* BluetoothHostObserverWapper::OnPairConfirmed in the C adapter
AskedType(tr, req) ==
    IF tr = "BREDR" THEN req \in {"NUMERIC", "CONSENT"} ELSE req = "NUMERIC"

\* NapiBluetoothHostObserver::OnPairRequested: PairRequestReply(true) on the
\* remote device of the event's transport, whoever else is asked
NapiPairReply(e) ==
    IF e.what = "request" THEN {[id |-> e.id, by |-> "napi", accept |-> TRUE]} ELSE {}

\* OnDiscoveryResult queues UvQueueWorkOnDiscoveryResult if "deviceFind" is
\* registered; OnPairConfirmedCallBack queues UvQueueWorkOnPairConfirmedCallBack
\* if "pinRequired" is; each work holds the callback_ read at that moment
DiscoveryQueued(e) == e.what = "found" /\ jsFind
PinQueued(e) == e.what = "confirm" /\ AskedType(e.tr, e.req) /\ jsPin
JsWorkFor(e) ==
    IF DiscoveryQueued(e) THEN <<[cb |-> "deviceFind", id |-> e.id]>>
    ELSE IF PinQueued(e) THEN <<[cb |-> "pinRequired", id |-> e.id]>>
    ELSE <<>>

\* the callback thread runs the NAPI observer and then the C wrapper for the
\* next event; the wrapper calls pairRequestedCallback, or
\* pairConfiremedCallback for an asked type, once GapRegisterCallbacks has
\* set g_GapCallback; its OnDiscoveryResult is empty
OnRemoteDeviceEvent ==
    /\ pairQ # <<>>
    /\ LET e == Head(pairQ)
       IN /\ replies' = replies \cup NapiPairReply(e)
          /\ jsWork' = jsWork \o JsWorkFor(e)
          /\ cAsked' = IF gapRegistered /\ (e.what = "request"
                                            \/ (e.what = "confirm" /\ AskedType(e.tr, e.req)))
                       THEN cAsked \cup {e} ELSE cAsked
    /\ pairQ' = Tail(pairQ)
    /\ UNCHANGED <<pairs, jsPin, jsFind, jsHeard, jsAsked>>

\* PairRequestReply / SetDevicePairingConfirmation from the C client, in
\* answer to a callback: g_BluetoothHost->GetRemoteDevice for the transport
\* it was given, then the reply.  Neither sets g_BluetoothHost if it is
\* NULL; a callback comes only after GapRegisterCallbacks, which set it
CPairReply(e, accept) ==
    /\ e \in cAsked
    /\ cAsked' = cAsked \ {e}
    /\ replies' = replies \cup {[id |-> e.id, by |-> "c", accept |-> accept]}
    /\ UNCHANGED <<pairQ, pairs, jsPin, jsFind, jsWork, jsHeard, jsAsked>>

\* the JS loop runs the queued work at i (uv_queue_work completes works in
\* any order) with the callback it captured, registered or not by now
RunJsWork(i) ==
    /\ jsHeard' = jsHeard \cup {jsWork[i].id}
    /\ jsWork' = SubSeq(jsWork, 1, i - 1) \o SubSeq(jsWork, i + 1, Len(jsWork))

\* AfterWorkCallback runs UvQueueWorkOnPairConfirmedCallBack: the JS
\* "pinRequired" callback receives deviceId and pinCode
UvQueueWorkOnPairConfirmedCallBack ==
    /\ \E i \in 1..Len(jsWork) :
          /\ jsWork[i].cb = "pinRequired"
          /\ RunJsWork(i)
          /\ jsAsked' = jsAsked \cup {jsWork[i].id}
    /\ UNCHANGED <<pairQ, pairs, cAsked, jsPin, jsFind, replies>>

\* AfterWorkCallback runs UvQueueWorkOnDiscoveryResult: the JS "deviceFind"
\* callback receives the device address
UvQueueWorkOnDiscoveryResult ==
    /\ \E i \in 1..Len(jsWork) : jsWork[i].cb = "deviceFind" /\ RunJsWork(i)
    /\ UNCHANGED <<pairQ, pairs, cAsked, jsPin, jsFind, jsAsked, replies>>

\* the app's setPairingConfirmation and its "on"/"off" of "pinRequired" and
\* "deviceFind" (napi_bluetooth_host.cpp, not in the repository)
JsPairReply(id, accept) ==
    /\ id \in jsAsked
    /\ jsAsked' = jsAsked \ {id}
    /\ replies' = replies \cup {[id |-> id, by |-> "js", accept |-> accept]}
    /\ UNCHANGED <<pairQ, pairs, cAsked, jsPin, jsFind, jsWork, jsHeard>>

JsRegisterPin ==
    /\ jsPin' = ~jsPin
    /\ UNCHANGED <<pairQ, pairs, cAsked, jsFind, jsWork, jsHeard, jsAsked, replies>>

JsRegisterFind ==
    /\ jsFind' = ~jsFind
    /\ UNCHANGED <<pairQ, pairs, cAsked, jsPin, jsWork, jsHeard, jsAsked, replies>>

\* the pairing and discovery steps leave the power state alone
PowerUnchanged ==
    UNCHANGED <<ble, br, events, appOperate, jsCallback, jsQueue,
                gapRegistered, calls, bleOffWanted, appWaiting, appOffWaiting>>

RemoteDeviceSteps ==
    /\ \/ \E e \in HostEvents : HostRaisesEvent(e)
       \/ OnRemoteDeviceEvent
       \/ \E e \in cAsked, a \in BOOLEAN : CPairReply(e, a)
       \/ UvQueueWorkOnPairConfirmedCallBack
       \/ UvQueueWorkOnDiscoveryResult
       \/ \E id \in jsAsked, a \in BOOLEAN : JsPairReply(id, a)
       \/ JsRegisterPin \/ JsRegisterFind
    /\ PowerUnchanged

-----------------------------------------------------------------------------
Init ==
    /\ ble = "TURN_OFF" /\ br = "TURN_OFF"
    /\ events = <<>>
    /\ appOperate = FALSE
    /\ jsCallback = FALSE /\ jsQueue = <<>>
    /\ gapRegistered = FALSE
    /\ calls = 0
    /\ bleOffWanted = FALSE
    /\ appWaiting = "none"
    /\ pairQ = <<>> /\ pairs = 0 /\ cAsked = {}
    /\ jsPin = FALSE /\ jsFind = FALSE /\ jsWork = <<>> /\ jsHeard = {} /\ jsAsked = {}
    /\ appOffWaiting = FALSE
    /\ replies = {}

Next ==
    \/ \E t \in {"BLE", "BREDR"} : HostComplete(t)
    \/ AppEnable \/ AppDisable \/ JsRegister
    \/ \E op \in {"EnableBle", "DisableBle", "EnableBt", "DisableBt"} : CPower(op)
    \/ GapRegisterCallbacks
    \/ OnStateChanged
    \/ UvQueueWorkOnStateChanged
    \/ RemoteDeviceSteps

\* the adapter thread finishes what it started, the callback thread and the
\* JS loop run what is queued; clients call when they like
Spec == Init /\ [][Next]_vars
        /\ \A t \in {"BLE", "BREDR"} : WF_vars(HostComplete(t))
        /\ WF_vars(OnStateChanged) /\ WF_vars(UvQueueWorkOnStateChanged)

-----------------------------------------------------------------------------
TypeOK ==
    /\ ble \in HostStates /\ br \in HostStates
    /\ \A i \in 1..Len(events) : events[i].t \in {"BLE", "BREDR"} /\ events[i].s \in HostStates
    /\ appOperate \in BOOLEAN /\ jsCallback \in BOOLEAN
    /\ \A i \in 1..Len(jsQueue) : jsQueue[i] \in JsStates
    /\ gapRegistered \in BOOLEAN
    /\ calls \in 0..MaxCalls
    /\ bleOffWanted \in BOOLEAN /\ appWaiting \in {"none", "quiet", "queued"}
    /\ \A i \in 1..Len(pairQ) : pairQ[i] \in HostEvents
    /\ pairs \in 0..MaxHostEvents /\ cAsked \subseteq HostEvents
    /\ jsPin \in BOOLEAN /\ jsFind \in BOOLEAN
    /\ \A i \in 1..Len(jsWork) : jsWork[i] \in [cb : {"pinRequired", "deviceFind"}, id : 1..MaxHostEvents]
    /\ jsHeard \subseteq 1..MaxHostEvents /\ jsAsked \subseteq 1..MaxHostEvents
    /\ replies \subseteq [id : 1..MaxHostEvents, by : {"napi", "c", "js"}, accept : BOOLEAN]
    /\ appOffWaiting \in BOOLEAN

(* When the JS app enables Bluetooth from off with no state change still  *)
(* queued for the observers, and no client asks to disable it afterwards,  *)
(* BR/EDR eventually comes on: the BLE-on callback sees currentAppOperate  *)
(* and DealStateChange calls EnableBt.                                     *)
AppEnableTurnsBrOn ==
    (appWaiting = "quiet") ~> (br = "TURN_ON" \/ appWaiting = "none")

(* The same for an app enable that starts while earlier state changes are  *)
(* still queued: a stale BLE TURN_ON delivered during the new TURNING_ON   *)
(* must not use up currentAppOperate.                                      *)
AppEnableAfterQueuedTurnsBrOn ==
    (appWaiting # "none") ~> (br = "TURN_ON" \/ appWaiting = "none")

(* BLE is never turned off unless the last BLE request of a client was to  *)
(* turn it off: DealStateChange's DisableBle on BR off must act only for   *)
(* an app disable, not for a currentAppOperate left over from an enable.   *)
NoUnrequestedBleDisable ==
    [][(ble = "TURN_ON" /\ ble' = "TURNING_OFF") => bleOffWanted']_vars

(* When the JS app disables Bluetooth while BR/EDR is on and nothing is    *)
(* queued for the observers, and no client asks to enable it afterwards,   *)
(* BLE eventually goes off too: the BR TURN_OFF callback still finds       *)
(* currentAppOperate set and BLE on, and DealStateChange calls DisableBle. *)
AppDisableTurnsBleOff ==
    appOffWaiting ~> (ble = "TURN_OFF" \/ ~appOffWaiting)

(* The answers the host receives for one pairing agree: no client's        *)
(* rejection meets another observer's acceptance of the same request.     *)
ConsistentPairingAnswers ==
    \A r1, r2 \in replies : r1.id = r2.id => r1.accept = r2.accept

(* The app receives a "deviceFind" or "pinRequired" callback only while it *)
(* has that callback registered.                                           *)
NoCallbackAfterOff ==
    [][\A i \in 1..Len(jsWork) :
         jsWork[i].id \in jsHeard' \ jsHeard =>
             IF jsWork[i].cb = "deviceFind" THEN jsFind ELSE jsPin]_vars

====
