--------------------------- MODULE ConnectorProofs ---------------------------
(***************************************************************************)
(* Proofs about one invocation of wait_for_service, for every budget       *)
(* Retries, every set of exceptions Errors and every bound MaxCount.       *)
(***************************************************************************)
EXTENDS MC_Connector, TLAPS

\* The loop keeps its variables within their types.
LEMMA TypeCorrect == Spec => []TypeOK
<1>1. Init => TypeOK
  BY MaxCountAssumption DEF Init, TypeOK, Status
<1>2. TypeOK /\ [Next]_vars => TypeOK'
  <2> SUFFICES ASSUME TypeOK, [Next]_vars PROVE TypeOK'
    OBVIOUS
  <2>1. CASE TryOk      BY <2>1 DEF TryOk, TypeOK, Status
  <2>2. CASE TryRetry   BY <2>2, MaxCountAssumption DEF TryRetry, TypeOK, Status, Exhausted
  <2>3. CASE TryTimeout BY <2>3 DEF TryTimeout, TypeOK, Status
  <2>4. CASE TryFatal   BY <2>4 DEF TryFatal, TypeOK, Status
  <2>5. CASE RemoteUp   BY <2>5 DEF RemoteUp, TypeOK
  <2>6. CASE RemoteDown BY <2>6 DEF RemoteDown, TypeOK
  <2>7. CASE UNCHANGED vars BY <2>7 DEF vars, TypeOK
  <2>8. QED BY <2>1, <2>2, <2>3, <2>4, <2>5, <2>6, <2>7
                DEF Next, Call, Environment
<1>3. QED BY <1>1, <1>2, PTL DEF Spec

\* IInv holds initially and is preserved by every step of the loop and of
\* the remote end.
LEMMA IInvInductive == Spec => []IInv
<1>1. Init => IInv
  BY MaxCountAssumption, RetriesAssumption DEF Init, IInv, TypeOK, Status, Exhausted
<1>2. IInv /\ [Next]_vars => IInv'
  <2> SUFFICES ASSUME IInv, [Next]_vars PROVE IInv'
    OBVIOUS
  <2>1. CASE TryOk
    BY <2>1, RetriesAssumption DEF TryOk, IInv, TypeOK, Status, Exhausted
  <2>2. CASE TryRetry
    BY <2>2, RetriesAssumption, MaxCountAssumption DEF TryRetry, IInv, TypeOK, Status, Exhausted
  <2>3. CASE TryTimeout
    BY <2>3, RetriesAssumption DEF TryTimeout, IInv, TypeOK, Status, Exhausted
  <2>4. CASE TryFatal
    BY <2>4, RetriesAssumption DEF TryFatal, IInv, TypeOK, Status, Exhausted
  <2>5. CASE RemoteUp
    BY <2>5 DEF RemoteUp, IInv, TypeOK, Exhausted
  <2>6. CASE RemoteDown
    BY <2>6 DEF RemoteDown, IInv, TypeOK, Exhausted
  <2>7. CASE UNCHANGED vars
    BY <2>7 DEF vars, IInv, TypeOK, Exhausted
  <2>8. QED BY <2>1, <2>2, <2>3, <2>4, <2>5, <2>6, <2>7
                DEF Next, Call, Environment
<1>3. QED BY <1>1, <1>2, PTL DEF Spec

\* Spec section 8, for every budget: TimeoutError only after exactly
\* Retries+1 failed calls, and never more than Retries+1 calls.
THEOREM BudgetTheorem == Spec => []BudgetRespected
<1>1. IInv => BudgetRespected
  BY RetriesAssumption DEF IInv, TypeOK, BudgetRespected, Exhausted
<1>2. QED BY <1>1, IInvInductive, PTL

-----------------------------------------------------------------------------
\* Every step of the loop, or of the remote end, is a step of the caller's
\* contract or leaves the caller's view (pending or how the call ended,
\* and whether the remote end is up) unchanged.
LEMMA ContractStep ==
    TypeOK /\ [Next]_vars => [Contract!Next]_<<ContractStatus, up>>
<1> SUFFICES ASSUME TypeOK, [Next]_vars
             PROVE  [Contract!Next]_<<ContractStatus, up>>
  OBVIOUS
<1>1. CASE TryOk
  BY <1>1 DEF TryOk, ContractStatus, Contract!Next, Contract!Connect
<1>2. CASE TryRetry
  BY <1>2 DEF TryRetry, ContractStatus
<1>3. CASE TryTimeout
  BY <1>3 DEF TryTimeout, Exhausted, ContractStatus, Contract!Next,
              Contract!GiveUp
<1>4. CASE TryFatal
  BY <1>4 DEF TryFatal, ContractStatus, Contract!Next, Contract!Fail
<1>5. CASE RemoteUp \/ RemoteDown
  BY <1>5 DEF RemoteUp, RemoteDown, TypeOK, ContractStatus, Contract!Next,
              Contract!Flip
<1>6. CASE UNCHANGED vars
  BY <1>6 DEF vars, ContractStatus
<1>7. QED BY <1>1, <1>2, <1>3, <1>4, <1>5, <1>6 DEF Next, Call, Environment

\* Spec section 4.1, for every budget and set of exceptions: however
\* wait_for_service loops, its caller sees a pending call that returns a
\* handle only while the remote end is reachable, raises TimeoutError only
\* under a bounded budget (line 148), or propagates another error.
THEOREM ContractTheorem == Spec => ImplementsContract
<1>1. Init => Contract!Init
  BY DEF Init, Contract!Init, ContractStatus
<1>2. QED BY <1>1, ContractStep, TypeCorrect, PTL
  DEF Spec, ImplementsContract, Contract!Spec
=============================================================================
