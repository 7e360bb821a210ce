----------------------------- MODULE IngestProofs -----------------------------
(***************************************************************************)
(* Proofs about IngestManager run through Server.run, for every budget,    *)
(* every set of exceptions and service identities, every bound, every      *)
(* launcher and either kind of IngestMonitor thread.                       *)
(***************************************************************************)
EXTENDS IngestManager, BootstrapProofs, TLAPS

\* The stages of run() before initialize_services is called.
PreHook == {"constructed", "config", "fcm_wait", "fcm_get", "mon_create",
            "mon_wait"}

\* CentralProcessorService is an entry of Server._services.
CPIndexed == \E k \in 1..Len(services) : services[k] = CPService

\* Inductive form of RunningMeansSubscribed.  The hook has not started
\* before its stage; once past line 23 the service is registered; once
\* past line 50 the subscription is made; the bind loop, which visits the
\* registered entries in order, has bound every entry it has passed, and
\* past the loop every registered entry, the service among them, is bound.
SubInv ==
    /\ pc \in PreHook => hpc = "obs"
    /\ pc = "hook" /\ hpc # "obs" => CPIndexed
    /\ pc = "hook" /\ hpc = "finished" => subscribed
    /\ pc = "bind" => /\ CPIndexed
                      /\ subscribed
                      /\ \A k \in 1..(bindIdx - 1) : services[k] \in bound
    /\ pc \in {"main_wait", "running", "shutdown"}
          => subscribed /\ CPIndexed /\ Elems(services) \subseteq bound

-----------------------------------------------------------------------------
\* Every step of the composition is a step of Server.run or leaves its
\* variables alone: the hook's statements other than add_service, its
\* return and its exceptions touch nothing of Bootstrap.
LEMMA StepRefines == [IngestNext]_ingestVars => [Next]_vars
<1> SUFFICES ASSUME [IngestNext]_ingestVars PROVE [Next]_vars
  OBVIOUS
<1>1. CASE Startup
  BY <1>1 DEF Next
<1>2. CASE ObsCreate
  BY <1>2, IngestConstantsAssumption DEF ObsCreate, Next
<1>3. CASE ObsCreateFails \/ TopicManagerLost \/ TopicCallFails
           \/ SubscribeFails
  BY <1>3 DEF ObsCreateFails, TopicManagerLost, TopicCallFails,
              SubscribeFails, HookFails, Next, Startup
<1>4. CASE StartMonitor \/ Retrieve \/ Create \/ RetrieveAgain
           \/ ActivateSubscriber \/ Subscribe
  BY <1>4 DEF StartMonitor, Retrieve, Create, RetrieveAgain,
              ActivateSubscriber, Subscribe, HookStep
<1>5. CASE TopicManagerWait \/ OtherCreates
  BY <1>5 DEF TopicManagerWait, OtherCreates
<1>6. CASE HookDone
  BY <1>6 DEF HookDone, Next, Startup
<1>7. CASE Shutdown /\ UNCHANGED hookVars
  BY <1>7 DEF Next
<1>8. CASE Registry /\ UNCHANGED hookVars
  BY <1>8 DEF Next
<1>9. CASE UNCHANGED ingestVars
  BY <1>9 DEF ingestVars
<1>10. QED
  BY <1>1, <1>2, <1>3, <1>4, <1>5, <1>6, <1>7, <1>8, <1>9
  DEF IngestNext, IngestStartup

\* Every behaviour of the composition is one of Bootstrap's:
\* IngestManager's constructor is one of Server.__init__'s settings, and
\* the hook initialize_services only ever registers a service, returns or
\* raises, as Bootstrap's abstract hook may.  It carries Bootstrap's step
\* lemmas over to IngestManager.
LEMMA RefinesBootstrap == IngestSpec => ImplementsBootstrap
<1>1. IngestInit => Init
  BY DEF IngestInit
<1>2. QED BY <1>1, StepRefines, PTL DEF IngestSpec, ImplementsBootstrap

\* Every state of IngestManager's start-up has Bootstrap's variables typed.
LEMMA IngestTypeCorrect == IngestSpec => []TypeOK
<1>1. Init => TypeOK
  BY MaxCountAssumption, ConfigArgsAssumption
     DEF Init, TypeOK, Stages, AdapterStates, W!TypeOK, W!Status
<1>2. QED BY <1>1, TypeStep, StepRefines, RefinesBootstrap, PTL
  DEF IngestSpec, ImplementsBootstrap

\* Appending to Server._services keeps every entry where it was.
LEMMA AppendKeeps ==
    ASSUME NEW S, NEW s \in Seq(S), NEW e \in S
    PROVE  /\ Len(Append(s, e)) = Len(s) + 1
           /\ \A k \in 1..Len(s) : Append(s, e)[k] = s[k]
           /\ Append(s, e)[Len(s) + 1] = e
OBVIOUS

\* SubInv is preserved by every step of the composition.
LEMMA SubInvInductive ==
    TypeOK /\ TypeOK' /\ SubInv /\ [IngestNext]_ingestVars => SubInv'
<1> SUFFICES ASSUME TypeOK, TypeOK', SubInv, [IngestNext]_ingestVars
             PROVE  SubInv'
  OBVIOUS
<1>0. services \in Seq(Names) /\ bindIdx \in 1..(Len(services) + 1)
  BY DEF TypeOK
<1>1. CASE /\ Startup /\ pc # "hook"
           /\ UNCHANGED <<hpc, subscribed>>
  <2> USE <1>1
  <2>1. CASE CreateAdapter \/ ConfigSkip \/ ConfigFromFile
             \/ ConfigFileFails \/ ConfigFromFcm \/ FcmGet \/ FcmGetFails
             \/ MonCreate
    BY <2>1 DEF CreateAdapter, ConfigSkip, ConfigFromFile, ConfigFileFails,
                ConfigFromFcm, FcmGet, FcmGetFails, MonCreate, AfterConfig,
                SubInv, PreHook
  <2>2. CASE FcmWait \/ MonWait
    BY <2>2, AfterWaitValues DEF FcmWait, MonWait, SubInv, PreHook
  <2>3. CASE HookReturns \/ HookRaises
    BY <2>3 DEF HookReturns, HookRaises
  <2>4. CASE BindNext
    BY <2>4, <1>0 DEF BindNext, SubInv, PreHook, CPIndexed
  <2>5. CASE BindDuplicate
    BY <2>5 DEF BindDuplicate, SubInv, PreHook
  <2>6. CASE BindDone
    BY <2>6, <1>0 DEF BindDone, SubInv, PreHook, CPIndexed, Elems
  <2>7. CASE MainWait
    BY <2>7, AfterWaitValues DEF MainWait, SubInv, PreHook, CPIndexed
  <2>8. QED BY <2>1, <2>2, <2>3, <2>4, <2>5, <2>6, <2>7 DEF Startup
<1>2. CASE ObsCreate
  <2>1. services' = Append(services, CPService) /\ pc' = "hook"
        /\ hpc' = "monitor"
    BY <1>2 DEF ObsCreate, AddService
  <2>2. CPIndexed'
    BY <2>1, <1>0, AppendKeeps, IngestConstantsAssumption DEF CPIndexed
  <2>3. QED BY <2>1, <2>2 DEF SubInv, PreHook
<1>3. CASE ObsCreateFails \/ TopicManagerLost \/ TopicCallFails
           \/ SubscribeFails
  BY <1>3 DEF ObsCreateFails, TopicManagerLost, TopicCallFails,
              SubscribeFails, HookFails, HookRaises, SubInv, PreHook
<1>4. CASE StartMonitor \/ Retrieve \/ Create \/ RetrieveAgain
           \/ ActivateSubscriber
  BY <1>4 DEF StartMonitor, Retrieve, Create, RetrieveAgain,
              ActivateSubscriber, HookStep, vars, SubInv, PreHook, CPIndexed
<1>5. CASE TopicManagerWait
  BY <1>5 DEF TopicManagerWait, vars, SubInv, PreHook, CPIndexed
<1>6. CASE Subscribe
  BY <1>6 DEF Subscribe, HookStep, vars, SubInv, PreHook, CPIndexed
<1>7. CASE HookDone
  BY <1>7 DEF HookDone, HookReturns, hookVars, hookData, SubInv, PreHook,
              CPIndexed
<1>8. CASE Shutdown /\ UNCHANGED hookVars
  BY <1>8 DEF Shutdown, hookVars, hookData, SubInv, PreHook, CPIndexed
<1>9. CASE Registry /\ UNCHANGED hookVars
  BY <1>9 DEF Registry, hookVars, hookData, SubInv, PreHook, CPIndexed
<1>10. CASE OtherCreates
  BY <1>10 DEF OtherCreates, vars, SubInv, PreHook, CPIndexed
<1>11. CASE UNCHANGED ingestVars
  BY <1>11 DEF ingestVars, vars, hookVars, hookData, SubInv, PreHook,
               CPIndexed
<1>12. QED
  BY <1>1, <1>2, <1>3, <1>4, <1>5, <1>6, <1>7, <1>8, <1>9, <1>10, <1>11
  DEF IngestNext, IngestStartup

\* SubInv holds in every state of the composition.
LEMMA SubInvInvariant == IngestSpec => []SubInv
<1>1. IngestInit => SubInv
  BY DEF IngestInit, Init, SubInv, PreHook
<1>2. QED BY <1>1, SubInvInductive, IngestTypeCorrect, PTL DEF IngestSpec

\* Bootstrap's ConfigInv holds in every state of the composition, through
\* the refinement.
LEMMA ConfigInvInvariant == IngestSpec => []ConfigInv
<1>1. Init => ConfigInv
  BY DEF Init, ConfigInv, PostConfig
<1>2. QED BY <1>1, ConfigStep, RefinesBootstrap, PTL DEF ImplementsBootstrap

\* Spec sections 4.5 and 4.6, for every value of the constants: a manager
\* whose run() reached waitForShutdown has registered and bound
\* CentralProcessorService and subscribed to sbstatechange, whatever the
\* launcher, the registry and IceStorm did (initialize_services, lines
\* 19-56, and Server.run's bind loop, lines 180-186).
THEOREM SubscribedTheorem == IngestSpec => []RunningMeansSubscribed
<1>1. SubInv => RunningMeansSubscribed
  BY DEF SubInv, RunningMeansSubscribed, CPIndexed, Elems
<1>2. QED BY <1>1, SubInvInvariant, PTL

\* Spec section 3 for IngestManager: no adapter is activated before the
\* configuration is loaded.  Bootstrap's argument carries over through the
\* refinement, since every step of the composition is a step of Bootstrap.
THEOREM IngestConfiguredTheorem == IngestSpec => []ConfiguredBeforeActive
<1>1. ConfigInv => ConfiguredBeforeActive
  BY DEF ConfigInv, ConfiguredBeforeActive
<1>2. QED BY <1>1, ConfigInvInvariant, PTL

=============================================================================
