---------------------------- MODULE IngestManager ----------------------------
(***************************************************************************)
(* IngestManager (askap/ingest/server.py) run through Server.run: the      *)
(* bootstrap of module Bootstrap with the constructor's settings (lines    *)
(* 13-17) and the hook initialize_services (lines 19-56) in place of the   *)
(* abstract HookReturns / HookRaises.  The hook builds CPObsServiceImp     *)
(* from self.fcm (an attribute no code in src/ sets), registers it, starts *)
(* the IngestMonitor thread, waits for the IceStorm topic manager with a   *)
(* second invocation of wait_for_service (the Connector instance T), gets  *)
(* or creates the topic "sbstatechange" and subscribes to it.  Every hook  *)
(* step leaves the variables of Bootstrap alone except add_service, so the *)
(* composition is checked to implement Bootstrap's safety specification.  *)
(***************************************************************************)
EXTENDS Bootstrap

CONSTANTS
    Launchers,      \* whether a launcher (outside src/) may set manager.fcm before run()
    MonitorDaemon   \* whether IngestMonitor (not in src/) is a daemon thread

\* The identity under which the hook registers CPObsServiceImp (line 23).
CPService == "CentralProcessorService"

ASSUME IngestConstantsAssumption ==
    /\ Launchers \subseteq BOOLEAN /\ Launchers # {}
    /\ MonitorDaemon \in BOOLEAN
    /\ CPService \in Names
    /\ MaxServices >= 1

VARIABLES
    fcm,         \* whether the manager has an attribute fcm when run() starts
    hpc,         \* the statement of initialize_services about to run
    monitor,     \* the IngestMonitor thread: "none", "running" or "stopped"
    exists,      \* IceStorm: whether topic "sbstatechange" exists
    subscribed,  \* IceStorm: whether this process's subscriber is registered
    exc,         \* the exception that left the hook, "none" while there is none
    tcount,      \* wait_for_service("IceStorm", ...)'s count
    tstatus,     \* its outcome
    tattempts    \* history: its callback invocations

\* The hook's variables but its position.
hookData == <<fcm, monitor, exists, subscribed, exc, tcount, tstatus, tattempts>>

hookVars == <<hpc, hookData>>

ingestVars == <<vars, hookVars>>

\* The topic-manager wait of lines 34-36: one more invocation of
\* wait_for_service, with its own count, against the same registry.
T == INSTANCE Connector WITH count <- tcount, status <- tstatus,
                             attempts <- tattempts

HookSteps == {"obs", "monitor", "tm_wait", "retrieve", "create", "retrieve2",
              "adapter", "subscribe", "finished"}

Exceptions == {"none", "AttributeError", "TimeoutError", "Connectivity",
               "RuntimeError"}

\* An exception leaves run() (pc becomes "failed"): the interpreter then
\* exits, which ends the IngestMonitor thread if it is a daemon thread; a
\* non-daemon thread keeps the process alive.
ProcessExit ==
    monitor' = IF pc' = "failed" /\ monitor = "running" /\ MonitorDaemon
                  THEN "stopped"
                  ELSE monitor

\* The hook raises e: run() is left by the exception (Bootstrap's
\* HookRaises).
HookFails(e) ==
    /\ HookRaises
    /\ exc' = e
    /\ ProcessExit
    /\ UNCHANGED <<fcm, hpc, exists, subscribed, tcount, tstatus, tattempts>>

\* A step inside the hook that leaves Bootstrap's variables alone.
HookStep(from, to) ==
    /\ pc = "hook"
    /\ hpc = from
    /\ hpc' = to
    /\ UNCHANGED vars

-----------------------------------------------------------------------------
\* IngestManager.__init__: Server.__init__ (configurable True, line 78 of
\* iceutils/server.py), then monitoring = True (line 17).  The topic may
\* already exist, created by an earlier run or another manager.
IngestInit ==
    /\ Init
    /\ monitoring = TRUE
    /\ configurable = TRUE
    /\ fcm \in Launchers
    /\ hpc = "obs"
    /\ monitor = "none"
    /\ exists \in BOOLEAN
    /\ subscribed = FALSE
    /\ exc = "none"
    /\ tcount = 0
    /\ tstatus = "calling"
    /\ tattempts = 0

\* Mutation of line 23: add_service forgotten.
ObsCreateNoAdd ==
    /\ HookStep("obs", "monitor")
    /\ fcm
    /\ UNCHANGED hookData

\* cp_obsServer = CPObsServiceImp(self.fcm) and
\* add_service("CentralProcessorService", cp_obsServer) (lines 22-23).
ObsCreate ==
    /\ pc = "hook"
    /\ hpc = "obs"
    /\ fcm
    /\ AddService(CPService)
    /\ hpc' = "monitor"
    /\ UNCHANGED hookData

\* Neither IngestManager nor Server assigns self.fcm: reading it raises
\* AttributeError (line 22).
ObsCreateFails ==
    /\ pc = "hook"
    /\ hpc = "obs"
    /\ ~fcm
    /\ HookFails("AttributeError")

\* IngestMonitor(...).start() (lines 25-26); stringToProxy is local
\* (lines 29-30); then wait_for_service starts with count = 0.
StartMonitor ==
    /\ HookStep("monitor", "tm_wait")
    /\ monitor' = "running"
    /\ tcount' = 0
    /\ tstatus' = "calling"
    /\ tattempts' = 0
    /\ UNCHANGED <<fcm, exists, subscribed, exc>>

\* One iteration of wait_for_service("IceStorm", checkedCast, prx).
TopicManagerWait ==
    /\ pc = "hook"
    /\ hpc = "tm_wait"
    /\ T!Call
    /\ hpc' = IF tstatus' = "connected" THEN "retrieve" ELSE "tm_wait"
    /\ UNCHANGED <<vars, fcm, monitor, exists, subscribed, exc>>

\* It ended in TimeoutError or in a non-retryable exception, which leaves
\* the hook as it is.
TopicManagerLost ==
    /\ pc = "hook"
    /\ hpc = "tm_wait"
    /\ tstatus \in {"timedout", "failed"}
    /\ HookFails(IF tstatus = "timedout" THEN "TimeoutError" ELSE "Connectivity")

\* topic = manager.retrieve(topicname) (line 39), or NoSuchTopic, caught at
\* line 40.
Retrieve ==
    /\ HookStep("retrieve", IF exists THEN "adapter" ELSE "create")
    /\ up
    /\ UNCHANGED hookData

\* topic = manager.create(topicname) (line 42), or TopicExists, caught at
\* line 43, when another manager created it since the retrieve.
Create ==
    /\ HookStep("create", IF exists THEN "retrieve2" ELSE "adapter")
    /\ up
    /\ exists' = TRUE
    /\ UNCHANGED <<fcm, monitor, subscribed, exc, tcount, tstatus, tattempts>>

\* topic = manager.retrieve(topicname) after TopicExists (line 44).
RetrieveAgain ==
    /\ HookStep("retrieve2", "adapter")
    /\ up
    /\ UNCHANGED hookData

\* Lines 39-44 are outside any try that converts: a remote call made while
\* IceStorm is unreachable raises its connectivity exception out of the hook.
TopicCallFails ==
    /\ pc = "hook"
    /\ hpc \in {"retrieve", "create", "retrieve2"}
    /\ ~up
    /\ HookFails("Connectivity")

\* The subscriber adapter is created with endpoints "tcp", the
\* JIRAStateChangeMonitor added with a UUID and the adapter activated
\* (lines 47-49): local, no locator involved.
ActivateSubscriber ==
    /\ HookStep("adapter", "subscribe")
    /\ UNCHANGED hookData

\* topic.subscribeAndGetPublisher({}, subscriber) (line 50).
Subscribe ==
    /\ HookStep("subscribe", "finished")
    /\ up
    /\ subscribed' = TRUE
    /\ UNCHANGED <<fcm, monitor, exists, exc, tcount, tstatus, tattempts>>

\* Mutation of lines 52-53: the bare except swallows the failure and the
\* hook carries on.
SubscribeFailsSwallowed ==
    /\ HookStep("subscribe", "finished")
    /\ ~up
    /\ UNCHANGED hookData

\* The subscription fails while IceStorm is unreachable: the bare except
\* raises RuntimeError("ICE adapter initialisation failed") (lines 52-53).
SubscribeFails ==
    /\ pc = "hook"
    /\ hpc = "subscribe"
    /\ ~up
    /\ HookFails("RuntimeError")

\* initialize_services returns (line 56): Bootstrap's HookReturns.
HookDone ==
    /\ hpc = "finished"
    /\ HookReturns
    /\ UNCHANGED hookVars

\* The main thread: Bootstrap's steps outside the hook, a failure among them
\* ending the process as the hook's do, and the hook's steps.
IngestStartup ==
    \/ /\ Startup /\ pc # "hook"
       /\ ProcessExit
       /\ UNCHANGED <<fcm, hpc, exists, subscribed, exc, tcount, tstatus,
                      tattempts>>
    \/ ObsCreate \/ ObsCreateFails \/ StartMonitor
    \/ TopicManagerWait \/ TopicManagerLost
    \/ Retrieve \/ Create \/ RetrieveAgain \/ TopicCallFails
    \/ ActivateSubscriber \/ Subscribe \/ SubscribeFails \/ HookDone

\* Another manager creates the topic.
OtherCreates ==
    /\ ~exists
    /\ exists' = TRUE
    /\ UNCHANGED <<vars, fcm, hpc, monitor, subscribed, exc, tcount, tstatus, tattempts>>

IngestNext ==
    \/ IngestStartup
    \/ (Shutdown /\ UNCHANGED hookVars)
    \/ (Registry /\ UNCHANGED hookVars)
    \/ OtherCreates

\* As for Bootstrap: the main thread is never descheduled for good; the
\* registry, IceStorm, the other managers and the shutdown are outside.
IngestSpec == IngestInit /\ [][IngestNext]_ingestVars /\ WF_ingestVars(IngestStartup)

-----------------------------------------------------------------------------
IngestTypeOK ==
    /\ TypeOK
    /\ hpc \in HookSteps
    /\ monitor \in {"none", "running", "stopped"}
    /\ exists \in BOOLEAN
    /\ subscribed \in BOOLEAN
    /\ fcm \in BOOLEAN
    /\ exc \in Exceptions
    /\ T!TypeOK

\* The composition seen as Bootstrap: every step of the hook is a stutter
\* of Bootstrap or one of its steps (add_service, the hook returning or
\* raising), which carries Bootstrap's step lemmas over to IngestManager.
ImplementsBootstrap == Init /\ [][Next]_vars

\* Spec sections 4.5 and 4.6: a manager that is serving has registered
\* CentralProcessorService, bound it, and subscribed to sbstatechange; the
\* hook's failures never let run() go on to activation.
RunningMeansSubscribed ==
    pc \in {"running", "shutdown"} => (subscribed /\ CPService \in bound)

\* Spec sections 4.6 and 8: with the registry and IceStorm reachable
\* throughout and a usable configuration, start-up reaches RUNNING, the
\* main adapter active with the service its hook registers
\* (CentralProcessorService, line 23) bound.
ServedWhenReachable ==
    ([]up /\ configArg \in {"none", "readable"})
        => <>(mainAdapter = "active" /\ CPService \in bound)

\* The same for a manager whose launcher has set fcm: then the hook
\* registers, subscribes and returns, and the service is served.
ServedIfAlwaysUp ==
    ([]up /\ fcm /\ configArg \in {"none", "readable"})
        => <>(mainAdapter = "active" /\ CPService \in bound)

\* Spec section 7: no partial success; a start-up that failed leaves no
\* thread of the manager running (the IngestMonitor of line 26).
NoPartialSuccess ==
    pc = "failed" => monitor # "running"

=============================================================================
