---------------------------- MODULE TopicProofs ----------------------------
(***************************************************************************)
(* Proofs about the subscription sequence of IngestManager, for every set *)
(* of processes, every budget and every bound on restarts.                *)
(***************************************************************************)
EXTENDS TopicSubscription, TLAPS

\* The strengthening of Converged that is inductive: IceStorm's topic
\* exists exactly when it has been created, it is created at most once,
\* and every process past the get-or-create holds it.
TopicInv ==
    /\ TypeOK
    /\ gen \in {0, 1}
    /\ exists <=> gen = 1
    /\ \A p \in Procs : HasTopic(p) => (held[p] = gen /\ exists)

\* Every process step, restart and IceStorm step keeps TopicInv; the
\* create race is the case that matters: only a Create that finds no
\* topic makes one, and then gen goes from 0 to 1.
LEMMA TopicInvInductive == TopicInv /\ [Next]_vars => TopicInv'
<1> SUFFICES ASSUME TopicInv, [Next]_vars PROVE TopicInv'
  OBVIOUS
<1> USE DEF TopicInv, TypeOK, HasTopic, Steps
<1>1. ASSUME NEW p \in Procs, NEW step \in Steps, CallFails(p, step)
      PROVE TopicInv'
  BY <1>1 DEF CallFails
<1>2. ASSUME NEW p \in Procs, LookupOk(p) PROVE TopicInv'
  BY <1>2 DEF LookupOk
<1>3. ASSUME NEW p \in Procs, LookupFails(p) PROVE TopicInv'
  BY <1>3 DEF LookupFails
<1>4. ASSUME NEW p \in Procs, Retrieve(p) PROVE TopicInv'
  BY <1>4 DEF Retrieve
<1>5. ASSUME NEW p \in Procs, Create(p) PROVE TopicInv'
  <2>1. CASE exists
    BY <1>5, <2>1 DEF Create
  <2>2. CASE ~exists
    BY <1>5, <2>2 DEF Create
  <2>3. QED BY <2>1, <2>2
<1>6. ASSUME NEW p \in Procs, RetrieveAgain(p) PROVE TopicInv'
  BY <1>6 DEF RetrieveAgain
<1>7. ASSUME NEW p \in Procs, ActivateSubscriber(p) PROVE TopicInv'
  BY <1>7 DEF ActivateSubscriber
<1>8. ASSUME NEW p \in Procs, Subscribe(p) PROVE TopicInv'
  BY <1>8 DEF Subscribe
<1>9. ASSUME NEW p \in Procs, Restart(p) PROVE TopicInv'
  BY <1>9 DEF Restart
<1>10. CASE IceStormUp
  BY <1>10 DEF IceStormUp
<1>11. CASE IceStormDown
  BY <1>11 DEF IceStormDown
<1>12. CASE UNCHANGED vars
  BY <1>12 DEF vars
<1>13. QED
  BY <1>1, <1>2, <1>3, <1>4, <1>5, <1>6, <1>7, <1>8, <1>9, <1>10, <1>11,
     <1>12
  DEF Next, Proc

\* Spec section 8, for any number of concurrent starters and restarts:
\* every process past the get-or-create of lines 38-44 holds the one
\* topic IceStorm has, created exactly once.
THEOREM ConvergedTheorem == Spec => []Converged
<1>1. Init => TopicInv
  <2> SUFFICES ASSUME Init PROVE TopicInv
    OBVIOUS
  <2>1. TypeOK
    <3>1. pc \in [Procs -> Steps]
      BY DEF Init, Steps
    <3>2. held \in [Procs -> 0..gen] /\ inc \in [Procs -> 0..restarts]
      BY DEF Init
    <3>3. QED
      BY <3>1, <3>2 DEF Init, TypeOK
  <2>2. \A p \in Procs : ~HasTopic(p)
    BY DEF Init, HasTopic
  <2>3. QED
    BY <2>1, <2>2 DEF Init, TopicInv
<1>2. TopicInv => Converged
  BY DEF TopicInv, Converged
<1>3. QED
  BY <1>1, <1>2, TopicInvInductive, PTL DEF Spec
=============================================================================
