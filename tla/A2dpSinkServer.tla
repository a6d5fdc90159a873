---------------------------- MODULE A2dpSinkServer ----------------------------
(***************************************************************************)
(* The A2DP sink IPC server (bluetooth_a2dp_sink_server.cpp) against the   *)
(* adapter's system state notifications and the sink profile service.     *)
(*                                                                         *)
(* The server caches the profile service in a2dpSnkService_: set by the   *)
(* constructor and on BTSystemState::ON, cleared on OFF.  The IPC methods *)
(* call through it without testing it.  observerImp_ is registered with   *)
(* the profile service on every bind and deregistered only by the          *)
(* destructor, and only if the cache is then non-null.                     *)
(***************************************************************************)
EXTENDS Naturals, FiniteSets

CONSTANTS
    IpcThreads,         \* binder threads serving IPC calls
    RemoteObservers,    \* IBluetoothA2dpSinkObserver clients
    NULL                \* a null pointer

\* IPC methods, split by whether they check the caller's permission first
CheckedMethods == {"GetDeviceState", "GetDevicesByStates", "GetPlayingState"}
ConnectMethods == {"Connect", "Disconnect"}
StrategyMethods == {"SetConnectStrategy", "GetConnectStrategy"}
UncheckedMethods == ConnectMethods \cup StrategyMethods

\* the sink profile service object the profile manager hands out
Svc == "a2dpSnkService"

VARIABLES
    sys,            \* the adapter's system state: "ON" or "OFF"
    pending,        \* a state change not yet delivered to the server's observer
    server,         \* "none", "alive" or "destroyed"
    a2dpSnkService, \* pimpl->a2dpSnkService_
    sysObserver,    \* the SystemStateObserver is registered with the adapter manager
    impRegistered,  \* the profile service holds pimpl->observerImp_
    observers,      \* pimpl->observers_ (RemoteObserverList)
    ipc,            \* ipc[t]: "idle" or "crashed" (called through a null pointer)
    uaf             \* a profile callback ran on a destroyed server's observerImp_

vars == <<sys, pending, server, a2dpSnkService, sysObserver, impRegistered,
          observers, ipc, uaf>>

\* IProfileManager::GetProfileService(PROFILE_NAME_A2DP_SINK): the service
\* is there while the system is ON; what it returns otherwise is not in src/
GetProfileService == IF sys = "ON" THEN {Svc} ELSE {Svc, NULL}

Init ==
    /\ sys \in {"ON", "OFF"}
    /\ pending = FALSE
    /\ server = "none"
    /\ a2dpSnkService = NULL
    /\ sysObserver = FALSE
    /\ impRegistered = FALSE
    /\ observers = {}
    /\ ipc = [t \in IpcThreads |-> "idle"]
    /\ uaf = FALSE

-----------------------------------------------------------------------------
(* The adapter.                                                            *)

\* the adapter changes state, then notifies its system state observers
SystemStateChange ==
    /\ ~pending
    /\ sys' = IF sys = "ON" THEN "OFF" ELSE "ON"
    /\ pending' = sysObserver
    /\ UNCHANGED <<server, a2dpSnkService, sysObserver, impRegistered, observers, ipc, uaf>>

\* the profile service reports a connection state change to its observers:
\* A2dpSinkObserver::OnConnectionStateChanged forwards it to observers_
ConnectionStateChanged ==
    /\ sys = "ON"
    /\ impRegistered
    /\ uaf' = (uaf \/ server = "destroyed")
    /\ UNCHANGED <<sys, pending, server, a2dpSnkService, sysObserver, impRegistered,
                   observers, ipc>>

-----------------------------------------------------------------------------
(* The server.                                                             *)

\* mutant: the constructor caches the service but does not register observerImp_
BluetoothA2dpSinkServer_noRegister ==
    /\ server = "none"
    /\ server' = "alive"
    /\ sysObserver' = TRUE
    /\ \E s \in GetProfileService : a2dpSnkService' = s
    /\ UNCHANGED <<sys, pending, impRegistered, observers, ipc, uaf>>

\* BluetoothA2dpSinkServer(): register the system state observer, then bind
BluetoothA2dpSinkServer ==
    /\ server = "none"
    /\ server' = "alive"
    /\ sysObserver' = TRUE
    /\ \E s \in GetProfileService :
          /\ a2dpSnkService' = s
          /\ impRegistered' = (impRegistered \/ s # NULL)
    /\ UNCHANGED <<sys, pending, observers, ipc, uaf>>

OnSystemStateChange ==
    /\ pending
    /\ pending' = FALSE
    /\ IF sys = "ON"
       THEN \E s \in GetProfileService :
               /\ a2dpSnkService' = s
               /\ impRegistered' = (impRegistered \/ s # NULL)
       ELSE /\ a2dpSnkService' = NULL
            /\ UNCHANGED impRegistered
    /\ UNCHANGED <<sys, server, sysObserver, observers, ipc, uaf>>

\* ~BluetoothA2dpSinkServer(): deregister from the adapter, and from the
\* profile service only if the cached pointer is non-null
DestroyServer ==
    /\ server = "alive"
    /\ server' = "destroyed"
    /\ sysObserver' = FALSE
    /\ pending' = FALSE
    /\ impRegistered' = (impRegistered /\ a2dpSnkService = NULL)
    /\ UNCHANGED <<sys, a2dpSnkService, observers, ipc, uaf>>

\* mutant: the observer == nullptr early return is dropped
RegisterObserver_noNullCheck(o) ==
    /\ server = "alive"
    /\ observers' = observers \cup {o}
    /\ UNCHANGED <<sys, pending, server, a2dpSnkService, sysObserver, impRegistered, ipc, uaf>>

\* RegisterObserver / DeregisterObserver ignore a null observer
RegisterObserver(o) ==
    /\ server = "alive"
    /\ o # NULL
    /\ observers' = observers \cup {o}
    /\ UNCHANGED <<sys, pending, server, a2dpSnkService, sysObserver, impRegistered, ipc, uaf>>

DeregisterObserver(o) ==
    /\ server = "alive"
    /\ o # NULL
    /\ observers' = observers \ {o}
    /\ UNCHANGED <<sys, pending, server, a2dpSnkService, sysObserver, impRegistered, ipc, uaf>>

\* an IPC method: the checked ones return BT_FAILURE when permission is
\* denied; every other path calls pimpl->a2dpSnkService_ untested
IpcCall(t, m, permitted) ==
    /\ server = "alive"
    /\ ipc[t] = "idle"
    /\ IF m \in CheckedMethods /\ ~permitted
       THEN UNCHANGED ipc
       ELSE ipc' = [ipc EXCEPT ![t] = IF a2dpSnkService = NULL THEN "crashed" ELSE "idle"]
    /\ UNCHANGED <<sys, pending, server, a2dpSnkService, sysObserver, impRegistered,
                   observers, uaf>>

Next ==
    \/ SystemStateChange
    \/ ConnectionStateChanged
    \/ BluetoothA2dpSinkServer
    \/ OnSystemStateChange
    \/ DestroyServer
    \/ \E o \in RemoteObservers \cup {NULL} : RegisterObserver(o) \/ DeregisterObserver(o)
    \/ \E t \in IpcThreads, m \in CheckedMethods \cup UncheckedMethods, p \in BOOLEAN :
          IpcCall(t, m, p)

\* the adapter manager's notification thread delivers what it has queued
Spec == Init /\ [][Next]_vars /\ WF_vars(OnSystemStateChange)

-----------------------------------------------------------------------------
TypeOK ==
    /\ sys \in {"ON", "OFF"}
    /\ pending \in BOOLEAN
    /\ server \in {"none", "alive", "destroyed"}
    /\ a2dpSnkService \in {Svc, NULL}
    /\ sysObserver \in BOOLEAN
    /\ impRegistered \in BOOLEAN
    /\ observers \subseteq RemoteObservers
    /\ ipc \in [IpcThreads -> {"idle", "crashed"}]
    /\ uaf \in BOOLEAN

ObserverImpHeldWhileBound ==
    (server = "alive" /\ a2dpSnkService # NULL) => impRegistered

(* No IPC method ever calls through a null a2dpSnkService_: a Connect or   *)
(* GetConnectStrategy that arrives while the system is OFF.                *)
NoNullServiceCall == \A t \in IpcThreads : ipc[t] # "crashed"

(* The profile service never calls back into the observerImp_ of a server *)
(* that has been destroyed: the destructor deregisters it.                 *)
NoCallbackIntoDestroyedServer == ~uaf

====
