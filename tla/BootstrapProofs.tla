--------------------------- MODULE BootstrapProofs ---------------------------
(***************************************************************************)
(* Proofs about Server.run, for every budget, every set of exceptions,     *)
(* every set of service identities and every bound.                        *)
(***************************************************************************)
EXTENDS Bootstrap, TLAPS

\* The steps of a wait_for_service invocation keep its variables typed and
\* change nothing but them.
LEMMA WaitCallTyped ==
    ASSUME W!TypeOK, W!Call
    PROVE  /\ W!TypeOK'
           /\ up' = up
<1>1. CASE W!TryOk
  BY <1>1 DEF W!TryOk, W!TypeOK, W!Status
<1>2. CASE W!TryRetry
  BY <1>2, MaxCountAssumption DEF W!TryRetry, W!TypeOK, W!Status
<1>3. CASE W!TryTimeout
  BY <1>3 DEF W!TryTimeout, W!TypeOK, W!Status
<1>4. CASE W!TryFatal
  BY <1>4 DEF W!TryFatal, W!TypeOK, W!Status
<1>5. QED BY <1>1, <1>2, <1>3, <1>4 DEF W!Call

\* Starting a wait, with the registry left alone, leaves its variables
\* typed.
LEMMA StartWaitTyped ==
    ASSUME W!TypeOK, StartWait, up' = up PROVE W!TypeOK'
BY MaxCountAssumption DEF StartWait, W!TypeOK, W!Status

\* One step of Server.run, or a stutter, keeps every variable typed.
LEMMA TypeStep == TypeOK /\ [Next]_vars => TypeOK'
<1> SUFFICES ASSUME TypeOK, [Next]_vars PROVE TypeOK'
  OBVIOUS
<1> USE DEF W!TypeOK, W!Status
<1>0. W!TypeOK /\ services \in Seq(Names)
  BY DEF TypeOK
<1>a. AfterConfig \in Stages
  BY DEF AfterConfig, Stages
<1>1. ASSUME NEW n \in Names, AddService(n) PROVE TypeOK'
  BY <1>1, <1>0 DEF AddService, TypeOK
<1>2. CASE CreateAdapter
  BY <1>2 DEF CreateAdapter, TypeOK, Stages, AdapterStates
<1>3. CASE ConfigSkip
  BY <1>3, <1>a DEF ConfigSkip, TypeOK
<1>4. CASE ConfigFromFile
  BY <1>4, <1>a DEF ConfigFromFile, TypeOK
<1>5. CASE ConfigFileFails
  BY <1>5 DEF ConfigFileFails, TypeOK, Stages
<1>6. CASE ConfigFromFcm
  BY <1>6, StartWaitTyped DEF ConfigFromFcm, TypeOK, Stages
<1>7. CASE FcmWait
  BY <1>7, <1>0, WaitCallTyped DEF FcmWait, AfterWait, TypeOK, Stages
<1>8. CASE FcmGet
  BY <1>8, <1>a DEF FcmGet, TypeOK
<1>9. CASE FcmGetFails
  BY <1>9 DEF FcmGetFails, TypeOK, Stages
<1>10. CASE MonCreate
  BY <1>10, StartWaitTyped DEF MonCreate, TypeOK, Stages, AdapterStates
<1>11. CASE MonWait
  BY <1>11, <1>0, WaitCallTyped
     DEF MonWait, AfterWait, TypeOK, Stages, AdapterStates
<1>12. CASE HookReturns
  BY <1>12, <1>0 DEF HookReturns, TypeOK, Stages
<1>13. CASE HookRaises
  BY <1>13 DEF HookRaises, TypeOK, Stages
<1>14. CASE BindNext
  BY <1>14, <1>0 DEF BindNext, TypeOK
<1>15. CASE BindDuplicate
  BY <1>15 DEF BindDuplicate, TypeOK, Stages
<1>16. CASE BindDone
  BY <1>16, StartWaitTyped DEF BindDone, TypeOK, Stages
<1>17. CASE MainWait
  BY <1>17, <1>0, WaitCallTyped
     DEF MainWait, AfterWait, TypeOK, Stages, AdapterStates
<1>18. CASE Shutdown
  BY <1>18 DEF Shutdown, TypeOK, Stages
<1>19. CASE Registry
  BY <1>19, <1>0 DEF Registry, W!Environment, W!RemoteUp, W!RemoteDown,
                    TypeOK, W!TypeOK
<1>20. CASE UNCHANGED vars
  BY <1>20 DEF vars, TypeOK, W!TypeOK
<1>21. QED
  BY <1>1, <1>2, <1>3, <1>4, <1>5, <1>6, <1>7, <1>8, <1>9, <1>10, <1>11,
     <1>12, <1>13, <1>14, <1>15, <1>16, <1>17, <1>18, <1>19, <1>20
  DEF Next, Startup

\* Every state of Server.run is well typed.
THEOREM TypeCorrect == Spec => []TypeOK
<1>1. Init => TypeOK
  BY MaxCountAssumption, ConfigArgsAssumption
     DEF Init, TypeOK, Stages, AdapterStates, W!TypeOK, W!Status
<1>2. TypeOK /\ [Next]_vars => TypeOK'
  BY TypeStep
<1>3. QED BY <1>1, <1>2, PTL DEF Spec

-----------------------------------------------------------------------------
\* The stages that come after get_config has returned.
PostConfig == {"mon_create", "mon_wait", "hook", "bind", "main_wait",
               "running", "shutdown"}

\* Inductive form of ConfiguredBeforeActive: once the main thread is past
\* get_config, and in particular whenever an adapter is active, the
\* parameters are loaded or the service is not configurable.
ConfigInv ==
    (mainAdapter = "active" \/ monAdapter = "active" \/ pc \in PostConfig)
        => (params # "unset" \/ ~configurable)

\* A step of wait_for_service only moves the main thread within its stage,
\* to the given next stage, or to "failed".
LEMMA AfterWaitValues ==
    ASSUME NEW stage, NEW next
    PROVE  AfterWait(stage, next) \in {stage, next, "failed"}
BY DEF AfterWait

\* One step of Server.run, or a stutter, preserves ConfigInv.
LEMMA ConfigStep == ConfigInv /\ [Next]_vars => ConfigInv'
<1> SUFFICES ASSUME ConfigInv, [Next]_vars PROVE ConfigInv'
  OBVIOUS
<1>a. AfterConfig \in PostConfig
  BY DEF AfterConfig, PostConfig
<1>1. ASSUME NEW n \in Names, AddService(n) PROVE ConfigInv'
  BY <1>1 DEF AddService, ConfigInv
<1>2. CASE CreateAdapter
  BY <1>2 DEF CreateAdapter, ConfigInv, PostConfig
<1>3. CASE ConfigSkip
  BY <1>3 DEF ConfigSkip, ConfigInv
<1>4. CASE ConfigFromFile
  BY <1>4 DEF ConfigFromFile, ConfigInv
<1>5. CASE ConfigFileFails
  BY <1>5 DEF ConfigFileFails, ConfigInv, PostConfig
<1>6. CASE ConfigFromFcm
  BY <1>6 DEF ConfigFromFcm, ConfigInv, PostConfig
<1>7. CASE FcmWait
  BY <1>7, AfterWaitValues DEF FcmWait, ConfigInv, PostConfig
<1>8. CASE FcmGet
  BY <1>8 DEF FcmGet, ConfigInv
<1>9. CASE FcmGetFails
  BY <1>9 DEF FcmGetFails, ConfigInv, PostConfig
<1>10. CASE MonCreate
  BY <1>10 DEF MonCreate, ConfigInv, PostConfig
<1>11. CASE MonWait
  BY <1>11 DEF MonWait, ConfigInv, PostConfig
<1>12. CASE HookReturns
  BY <1>12 DEF HookReturns, ConfigInv, PostConfig
<1>13. CASE HookRaises
  BY <1>13 DEF HookRaises, ConfigInv, PostConfig
<1>14. CASE BindNext
  BY <1>14 DEF BindNext, ConfigInv
<1>15. CASE BindDuplicate
  BY <1>15 DEF BindDuplicate, ConfigInv, PostConfig
<1>16. CASE BindDone
  BY <1>16 DEF BindDone, ConfigInv, PostConfig
<1>17. CASE MainWait
  BY <1>17 DEF MainWait, ConfigInv, PostConfig
<1>18. CASE Shutdown
  BY <1>18 DEF Shutdown, ConfigInv, PostConfig
<1>19. CASE Registry
  BY <1>19 DEF Registry, ConfigInv
<1>20. CASE UNCHANGED vars
  BY <1>20 DEF vars, ConfigInv
<1>21. QED
  BY <1>1, <1>2, <1>3, <1>4, <1>5, <1>6, <1>7, <1>8, <1>9, <1>10, <1>11,
     <1>12, <1>13, <1>14, <1>15, <1>16, <1>17, <1>18, <1>19, <1>20
  DEF Next, Startup

\* Spec section 3, for every configuration: no adapter of Server.run is
\* active before its configuration is loaded, unless configurable is off.
THEOREM ConfiguredTheorem == Spec => []ConfiguredBeforeActive
<1>1. Init => ConfigInv
  BY DEF Init, ConfigInv, PostConfig
<1>2. ConfigInv /\ [Next]_vars => ConfigInv'
  BY ConfigStep
<1>3. ConfigInv => ConfiguredBeforeActive
  BY DEF ConfigInv, ConfiguredBeforeActive
<1>4. QED BY <1>1, <1>2, <1>3, PTL DEF Spec

-----------------------------------------------------------------------------
\* Inductive form of ServedWhenRunning: inside the bind loop every entry it
\* has passed is bound; past the loop every entry is.
BindInv ==
    /\ pc = "bind" => \A i \in 1..(bindIdx - 1) : services[i] \in bound
    /\ pc \in {"main_wait", "running", "shutdown"}
          => Elems(services) \subseteq bound

\* Spec sections 4.3 and 8, for every configuration in which add_service is
\* only called before run() and from the hook (no thread left behind by
\* the hook calls it): a serving process has bound every registered service.
THEOREM ServedTheorem ==
    ASSUME ~BackgroundAdd PROVE Spec => []ServedWhenRunning
<1>1. Init => BindInv
  BY DEF Init, BindInv
<1>2. TypeOK /\ BindInv /\ [Next]_vars => BindInv'
  <2> SUFFICES ASSUME TypeOK, BindInv, [Next]_vars PROVE BindInv'
    OBVIOUS
  <2>0. services \in Seq(Names) /\ bindIdx \in 1..(Len(services) + 1)
    BY DEF TypeOK
  <2>1. ASSUME NEW n \in Names, AddService(n) PROVE BindInv'
    <3>1. pc \in {"constructed", "hook"}
      BY <2>1 DEF AddService, AddStages
    <3>2. QED BY <2>1, <3>1 DEF AddService, BindInv
  <2>2. CASE BindNext
    BY <2>2, <2>0 DEF BindNext, BindInv
  <2>3. CASE BindDone
    BY <2>3, <2>0 DEF BindDone, BindInv, Elems
  <2>4. CASE HookReturns
    BY <2>4 DEF HookReturns, BindInv
  <2>5. CASE MainWait
    BY <2>5, AfterWaitValues DEF MainWait, BindInv
  <2>6. CASE Shutdown
    BY <2>6 DEF Shutdown, BindInv
  <2>7. CASE FcmWait \/ MonWait
    BY <2>7, AfterWaitValues DEF FcmWait, MonWait, BindInv
  <2>8. CASE CreateAdapter \/ ConfigSkip \/ ConfigFromFile \/ ConfigFileFails
             \/ ConfigFromFcm
    BY <2>8 DEF CreateAdapter, ConfigSkip, ConfigFromFile, ConfigFileFails,
                ConfigFromFcm, AfterConfig, BindInv
  <2>9. CASE FcmGet \/ FcmGetFails \/ MonCreate \/ HookRaises
             \/ BindDuplicate
    BY <2>9 DEF FcmGet, FcmGetFails, MonCreate, HookRaises, BindDuplicate,
                AfterConfig, BindInv
  <2>10. CASE Registry \/ UNCHANGED vars
    BY <2>10 DEF Registry, vars, BindInv
  <2>11. QED
    BY <2>1, <2>2, <2>3, <2>4, <2>5, <2>6, <2>7, <2>8, <2>9, <2>10
    DEF Next, Startup
<1>3. BindInv => ServedWhenRunning
  BY DEF BindInv, ServedWhenRunning
<1>4. QED BY <1>1, <1>2, <1>3, TypeCorrect, PTL DEF Spec

-----------------------------------------------------------------------------
\* Inductive form of ReadableConfigLoaded: once get_config is over, a
\* readable --config= argument has been loaded, and only a run without the
\* argument reaches the FCM stages (the one other place that sets
\* parameters).  The argument itself never changes.
ReadInv ==
    /\ configArg \in ConfigArgs
    /\ (configurable /\ configArg = "readable"
          /\ pc \notin {"constructed", "config"}) => params = "file"
    /\ pc \in {"fcm_wait", "fcm_get"} => configArg = "none"

\* One step of Server.run, or a stutter, preserves ReadInv.
LEMMA ReadStep == ReadInv /\ [Next]_vars => ReadInv'
<1> SUFFICES ASSUME ReadInv, [Next]_vars PROVE ReadInv'
  OBVIOUS
<1>a. AfterConfig \in {"mon_create", "hook"}
  BY DEF AfterConfig
<1>1. ASSUME NEW n \in Names, AddService(n) PROVE ReadInv'
  BY <1>1 DEF AddService, ReadInv
<1>2. CASE CreateAdapter
  BY <1>2 DEF CreateAdapter, ReadInv
<1>3. CASE ConfigSkip
  BY <1>3, <1>a DEF ConfigSkip, ReadInv
<1>4. CASE ConfigFromFile
  BY <1>4, <1>a DEF ConfigFromFile, ReadInv
<1>5. CASE ConfigFileFails
  BY <1>5 DEF ConfigFileFails, ReadInv
<1>6. CASE ConfigFromFcm
  BY <1>6 DEF ConfigFromFcm, ReadInv
<1>7. CASE FcmWait
  BY <1>7, AfterWaitValues DEF FcmWait, ReadInv
<1>8. CASE FcmGet
  BY <1>8, <1>a DEF FcmGet, ReadInv
<1>9. CASE FcmGetFails \/ MonCreate \/ MonWait \/ HookReturns \/ HookRaises
           \/ BindNext \/ BindDuplicate \/ BindDone \/ MainWait
  BY <1>9, AfterWaitValues
     DEF FcmGetFails, MonCreate, MonWait, HookReturns, HookRaises, BindNext,
         BindDuplicate, BindDone, MainWait, ReadInv
<1>10. CASE Shutdown \/ Registry \/ UNCHANGED vars
  BY <1>10 DEF Shutdown, Registry, vars, ReadInv
<1>11. QED
  BY <1>1, <1>2, <1>3, <1>4, <1>5, <1>6, <1>7, <1>8, <1>9, <1>10
  DEF Next, Startup

\* Spec sections 4.2 and 6 for every command line whose --config= path has
\* no "=": a readable parameter file is loaded, and a start-up that fails
\* later never fails for want of it.  With an "=" in the path the run
\* config_eq_path shows the contrary (line 98 splits the argument on "=").
THEOREM ReadableConfigTheorem ==
    ASSUME "eqInPath" \notin ConfigArgs PROVE Spec => []ReadableConfigLoaded
<1>1. Init => ReadInv
  BY DEF Init, ReadInv
<1>2. ReadInv => ReadableConfigLoaded
  BY DEF ReadInv, ReadableConfigLoaded
<1>3. QED BY <1>1, <1>2, ReadStep, PTL DEF Spec
=============================================================================
