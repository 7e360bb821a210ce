------------------------------ MODULE Bootstrap ------------------------------
(***************************************************************************)
(* Server.run (askap/iceutils/server.py): create the main adapter, resolve *)
(* the configuration (local file named by --config= or the FCM service),   *)
(* optionally activate the monitoring adapter, run the subclass hook       *)
(* initialize_services, bind every registered service into the main        *)
(* adapter and activate it, then wait for shutdown.  Every remote lookup   *)
(* goes through one invocation of wait_for_service, the module Connector,  *)
(* with its own count; the FCM, the registry and the adapters' locator     *)
(* are all reached through the one IceGrid registry, whose reachability    *)
(* is `up`.                                                                *)
(***************************************************************************)
EXTENDS Integers, Sequences

CONSTANTS
    Retries,       \* Server._retries (constructor argument, default -1)
    Errors,        \* exceptions a remote call raises while the registry is down
    MaxCount,      \* model bound on wait_for_service's count
    Names,         \* identities the application may pass to add_service
    MaxServices,   \* model bound on the length of Server._services
    ConfigArgs,    \* what sys.argv may hold about --config=
    BackgroundAdd  \* whether a thread started by the hook may call add_service

\* sys.argv as get_config sees it (lines 95-102): no --config= argument, one
\* naming a readable parameter file, one naming a file that cannot be opened
\* or parsed, or one naming a readable parameter file whose path contains
\* "=", so that arg.split("=") yields more than two parts.
ArgKinds == {"none", "readable", "unreadable", "eqInPath"}

ASSUME RetriesAssumption == Retries \in Int
ASSUME MaxCountAssumption == MaxCount \in Nat
ASSUME MaxServicesAssumption == MaxServices \in Nat
ASSUME ConfigArgsAssumption == ConfigArgs \subseteq ArgKinds /\ ConfigArgs # {}
ASSUME BackgroundAddAssumption == BackgroundAdd \in BOOLEAN

VARIABLES
    pc,            \* where the main thread is in run()
    monitoring,    \* Server.monitoring, set by the subclass before run()
    configurable,  \* Server.configurable, set by the subclass before run()
    configArg,     \* the --config= argument of sys.argv
    params,        \* Server.parameters: "unset" (None) or where it came from
    services,      \* Server._services, the names in add_service order
    bound,         \* identities added to the main adapter
    bindIdx,       \* position of the for loop of lines 182-184 in _services
    mainAdapter,   \* Server._adapter: "none", "created" or "active"
    monAdapter,    \* Server._mon_adapter: "none", "created" or "active"
    count,         \* wait_for_service's count, of the call in progress
    wstatus,       \* wait_for_service's outcome, of the call in progress
    up,            \* whether the IceGrid registry is reachable
    attempts       \* history: callback invocations of the call in progress

vars == <<pc, monitoring, configurable, configArg, params, services, bound,
          bindIdx, mainAdapter, monAdapter, count, wstatus, up, attempts>>

W == INSTANCE Connector WITH status <- wstatus

Stages == {"constructed", "config", "fcm_wait", "fcm_get", "mon_create",
           "mon_wait", "hook", "bind", "main_wait", "running", "shutdown",
           "failed"}

AdapterStates == {"none", "created", "active"}

\* Where add_service can be called from: the subclass's constructor before
\* run(), the hook, and, when the hook leaves a thread behind that holds
\* the server, that thread for as long as the process runs.
AddStages ==
    {"constructed", "hook"}
        \cup (IF BackgroundAdd THEN {"bind", "main_wait", "running"} ELSE {})

\* Set of the elements of a sequence.
Elems(s) == {s[i] : i \in DOMAIN s}

\* The step after get_config returns (lines 169-171).
AfterConfig == IF monitoring THEN "mon_create" ELSE "hook"

\* A fresh invocation of wait_for_service: count = 0 (lines 135-138).
StartWait ==
    /\ count' = 0
    /\ wstatus' = "calling"
    /\ attempts' = 0

WaitVars == <<count, wstatus, attempts>>

-----------------------------------------------------------------------------
Init ==
    /\ pc = "constructed"
    /\ monitoring \in BOOLEAN
    /\ configurable \in BOOLEAN
    /\ configArg \in ConfigArgs
    /\ params = "unset"
    /\ services = <<>>
    /\ bound = {}
    /\ bindIdx = 1
    /\ mainAdapter = "none"
    /\ monAdapter = "none"
    /\ count = 0
    /\ wstatus = "calling"
    /\ up \in BOOLEAN
    /\ attempts = 0

\* add_service(name, value): append to _services, nothing else (line 208).
AddService(n) ==
    /\ pc \in AddStages
    /\ Len(services) < MaxServices
    /\ services' = Append(services, n)
    /\ UNCHANGED <<pc, monitoring, configurable, configArg, params, bound,
                   bindIdx, mainAdapter, monAdapter, count, wstatus, up,
                   attempts>>

\* run() -> setup_services(): createObjectAdapter(<Class>Adapter)
\* (lines 166-167), then into get_config.
CreateAdapter ==
    /\ pc = "constructed"
    /\ mainAdapter' = "created"
    /\ pc' = "config"
    /\ UNCHANGED <<monitoring, configurable, configArg, params, services,
                   bound, bindIdx, monAdapter, count, wstatus, up, attempts>>

\* Mutation of lines 93-94: the configurable test dropped, so get_config
\* always returns early.
ConfigSkipAlways ==
    /\ pc = "config"
    /\ pc' = AfterConfig
    /\ UNCHANGED <<monitoring, configurable, configArg, params, services,
                   bound, bindIdx, mainAdapter, monAdapter, count, wstatus,
                   up, attempts>>

\* get_config with configurable False returns at once, leaving
\* parameters None (lines 93-94).
ConfigSkip ==
    /\ pc = "config"
    /\ ~configurable
    /\ pc' = AfterConfig
    /\ UNCHANGED <<monitoring, configurable, configArg, params, services,
                   bound, bindIdx, mainAdapter, monAdapter, count, wstatus,
                   up, attempts>>

\* A --config=<file> argument: the file is expanded, read and parsed into
\* parameters (lines 96-102).
ConfigFromFile ==
    /\ pc = "config"
    /\ configurable
    /\ configArg = "readable"
    /\ params' = "file"
    /\ pc' = AfterConfig
    /\ UNCHANGED <<monitoring, configurable, configArg, services, bound,
                   bindIdx, mainAdapter, monAdapter, count, wstatus, up,
                   attempts>>

\* The same lines when the argument cannot be used: "k, v = arg.split('=')"
\* raises ValueError for a path with "=", open() raises IOError, or
\* parset_to_dict rejects the text; the exception leaves run().
ConfigFileFails ==
    /\ pc = "config"
    /\ configurable
    /\ configArg \in {"unreadable", "eqInPath"}
    /\ pc' = "failed"
    /\ UNCHANGED <<monitoring, configurable, configArg, params, services,
                   bound, bindIdx, mainAdapter, monAdapter, count, wstatus,
                   up, attempts>>

\* No --config= argument: _config_from_fcm makes the literal proxy
\* FCMService@FCMAdapter (never None for this string) and waits for the FCM
\* with wait_for_service (lines 103, 106-111).
ConfigFromFcm ==
    /\ pc = "config"
    /\ configurable
    /\ configArg = "none"
    /\ pc' = "fcm_wait"
    /\ StartWait
    /\ UNCHANGED <<monitoring, configurable, configArg, params, services,
                   bound, bindIdx, mainAdapter, monAdapter, up>>

\* Mutation of lines 139-142: `registry = True` missing, so the caller
\* never gets past a successful lookup.
AfterWaitNoExit(stage, next) ==
    CASE wstatus' = "calling" -> stage
      [] wstatus' = "connected" -> stage
      [] OTHER                  -> "failed"

\* Where a wait_for_service step leaves the main thread: still in the loop,
\* past it, or out of run() with TimeoutError or the propagated exception.
AfterWait(stage, next) ==
    CASE wstatus' = "connected" -> next
      [] wstatus' = "calling"   -> stage
      [] OTHER                  -> "failed"

\* One iteration of wait_for_service("FCM", checkedCast, prxy) (line 109).
FcmWait ==
    /\ pc = "fcm_wait"
    /\ W!Call
    /\ pc' = AfterWait("fcm_wait", "fcm_get")
    /\ UNCHANGED <<monitoring, configurable, configArg, params, services,
                   bound, bindIdx, mainAdapter, monAdapter>>

\* fcm.get(-1, service_key) (line 112) is a remote call outside any retry:
\* it answers while the registry is up, and raises a connectivity exception,
\* which nothing catches, when the registry went away after checkedCast.
FcmGet ==
    /\ pc = "fcm_get"
    /\ up
    /\ params' = "fcm"
    /\ pc' = AfterConfig
    /\ UNCHANGED <<monitoring, configurable, configArg, services, bound,
                   bindIdx, mainAdapter, monAdapter, count, wstatus, up,
                   attempts>>

FcmGetFails ==
    /\ pc = "fcm_get"
    /\ ~up
    /\ pc' = "failed"
    /\ UNCHANGED <<monitoring, configurable, configArg, params, services,
                   bound, bindIdx, mainAdapter, monAdapter, count, wstatus,
                   up, attempts>>

\* monitoring: create <Class>MonitoringAdapter and add the
\* MonitoringProviderImpl as MonitoringService (lines 171-176).
MonCreate ==
    /\ pc = "mon_create"
    /\ monAdapter' = "created"
    /\ pc' = "mon_wait"
    /\ StartWait
    /\ UNCHANGED <<monitoring, configurable, configArg, params, services,
                   bound, bindIdx, mainAdapter, up>>

\* One iteration of wait_for_service("registry", _mon_adapter.activate)
\* (line 177); the adapter is active once activate returns.
MonWait ==
    /\ pc = "mon_wait"
    /\ W!Call
    /\ pc' = AfterWait("mon_wait", "hook")
    /\ monAdapter' = IF wstatus' = "connected" THEN "active" ELSE monAdapter
    /\ UNCHANGED <<monitoring, configurable, configArg, params, services,
                   bound, bindIdx, mainAdapter>>

\* initialize_services() returns (line 180); the for loop starts.
HookReturns ==
    /\ pc = "hook"
    /\ pc' = "bind"
    /\ bindIdx' = 1
    /\ UNCHANGED <<monitoring, configurable, configArg, params, services,
                   bound, mainAdapter, monAdapter, count, wstatus, up,
                   attempts>>

\* initialize_services() raises; the exception leaves run().
HookRaises ==
    /\ pc = "hook"
    /\ pc' = "failed"
    /\ UNCHANGED <<monitoring, configurable, configArg, params, services,
                   bound, bindIdx, mainAdapter, monAdapter, count, wstatus,
                   up, attempts>>

\* One iteration of "for service in self._services": _adapter.add of the
\* next entry (lines 182-184).  The loop reads the list as it is at that
\* iteration, so entries appended meanwhile are still visited.
BindNext ==
    /\ pc = "bind"
    /\ bindIdx <= Len(services)
    /\ services[bindIdx] \notin bound
    /\ bound' = bound \cup {services[bindIdx]}
    /\ bindIdx' = bindIdx + 1
    /\ UNCHANGED <<pc, monitoring, configurable, configArg, params, services,
                   mainAdapter, monAdapter, count, wstatus, up, attempts>>

\* _adapter.add of an identity already in the adapter raises
\* AlreadyRegisteredException: add_service does not deduplicate.
BindDuplicate ==
    /\ pc = "bind"
    /\ bindIdx <= Len(services)
    /\ services[bindIdx] \in bound
    /\ pc' = "failed"
    /\ UNCHANGED <<monitoring, configurable, configArg, params, services,
                   bound, bindIdx, mainAdapter, monAdapter, count, wstatus,
                   up, attempts>>

\* The for loop ends when it has passed the last entry; then
\* wait_for_service("registry", _adapter.activate) begins (line 186).
BindDone ==
    /\ pc = "bind"
    /\ bindIdx > Len(services)
    /\ pc' = "main_wait"
    /\ StartWait
    /\ UNCHANGED <<monitoring, configurable, configArg, params, services,
                   bound, bindIdx, mainAdapter, monAdapter, up>>

\* One iteration of the wait on the main adapter's activate (line 186);
\* setup_services returns and run() calls wait() once it is active.
MainWait ==
    /\ pc = "main_wait"
    /\ W!Call
    /\ pc' = AfterWait("main_wait", "running")
    /\ mainAdapter' = IF wstatus' = "connected" THEN "active" ELSE mainAdapter
    /\ UNCHANGED <<monitoring, configurable, configArg, params, services,
                   bound, bindIdx, monAdapter>>

\* communicator.waitForShutdown() returns: the communicator was shut down
\* from outside (lines 193, 197).
Shutdown ==
    /\ pc = "running"
    /\ pc' = "shutdown"
    /\ UNCHANGED <<monitoring, configurable, configArg, params, services,
                   bound, bindIdx, mainAdapter, monAdapter, count, wstatus,
                   up, attempts>>

\* The registry comes up or goes away.
Registry ==
    /\ W!Environment
    /\ UNCHANGED <<pc, monitoring, configurable, configArg, params, services,
                   bound, bindIdx, mainAdapter, monAdapter>>

\* The steps of the main thread, from run() to the shutdown wait.
Startup ==
    \/ CreateAdapter
    \/ ConfigSkip \/ ConfigFromFile \/ ConfigFileFails \/ ConfigFromFcm
    \/ FcmWait \/ FcmGet \/ FcmGetFails
    \/ MonCreate \/ MonWait
    \/ HookReturns \/ HookRaises
    \/ BindNext \/ BindDuplicate \/ BindDone
    \/ MainWait

Next ==
    \/ Startup
    \/ \E n \in Names : AddService(n)
    \/ Shutdown
    \/ Registry

\* run() is called and its thread is never descheduled for good (weak
\* fairness of Startup); the hook is assumed to return or raise.  The
\* shutdown signal and the registry are outside the process: no fairness.
Spec == Init /\ [][Next]_vars /\ WF_vars(Startup)

-----------------------------------------------------------------------------
TypeOK ==
    /\ pc \in Stages
    /\ monitoring \in BOOLEAN
    /\ configurable \in BOOLEAN
    /\ configArg \in ArgKinds
    /\ params \in {"unset", "file", "fcm"}
    /\ services \in Seq(Names)
    /\ bound \subseteq Names
    /\ bindIdx \in 1..(Len(services) + 1)
    /\ mainAdapter \in AdapterStates
    /\ monAdapter \in AdapterStates
    /\ W!TypeOK

\* Spec section 3: no adapter is activated before the configuration has
\* been resolved (unless the service opted out of configuration), since a
\* service's initialisation may read it.  Lines 166-177: the adapter is
\* created before get_config, the monitoring adapter activated after it.
ConfiguredBeforeActive ==
    (mainAdapter = "active" \/ monAdapter = "active")
        => (params # "unset" \/ ~configurable)

\* Spec sections 4.3 and 8: once the process is serving, every service that
\* was registered with add_service is bound into the main adapter; none is
\* silently dropped.  The bind loop of lines 182-184 against add_service.
ServedWhenRunning ==
    pc \in {"running", "shutdown"} => Elems(services) \subseteq bound

\* Spec sections 4.2 and 6: a --config=<path> naming a readable parameter
\* file is loaded; start-up never fails in get_config for such a path,
\* whatever characters the path holds (line 98 splits the argument on "=").
ReadableConfigLoaded ==
    (configurable /\ configArg \in {"readable", "eqInPath"} /\ pc = "failed")
        => params = "file"

\* Every run ends serving, shut down or failed once the registry stays up:
\* no stage of setup_services can stall while the registry is reachable.
StartupCompletes ==
    (<>[]up) => <>(pc \in {"running", "shutdown", "failed"})
=============================================================================
