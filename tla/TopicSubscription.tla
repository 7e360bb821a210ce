-------------------------- MODULE TopicSubscription --------------------------
(***************************************************************************)
(* The subscription sequence of IngestManager.initialize_services          *)
(* (askap/ingest/server.py, lines 28-53), run by several manager processes *)
(* that start at the same time against one IceStorm: wait for the topic    *)
(* manager, get-or-create the topic "sbstatechange" (retrieve, on          *)
(* NoSuchTopic create, on TopicExists retrieve again), create and activate *)
(* a subscriber adapter, subscribe.  The wait is wait_for_service, taken   *)
(* through its contract (ConnectorContract), which Connector implements.   *)
(* A process may die at any point and be started again by its supervisor; *)
(* IceStorm keeps its topics and subscribers across that.                  *)
(***************************************************************************)
EXTENDS Integers, FiniteSets

CONSTANTS
    Procs,        \* the manager processes
    Retries,      \* Server._retries of each process
    Errors,       \* exceptions raised while IceStorm is unreachable
    MaxRestarts   \* model bound on process restarts, all processes together

\* The except clause of wait_for_service (askap/iceutils/server.py).
RetryableErrors == {"ConnectionRefusedException", "NoEndpointException",
                    "NotRegisteredException", "ConnectFailedException",
                    "DNSException"}

ASSUME ProcsAssumption == Procs # {}
ASSUME RetriesAssumption == Retries \in Int
ASSUME MaxRestartsAssumption == MaxRestarts \in Nat

VARIABLES
    pc,           \* pc[p]: the statement process p is about to run
    held,         \* held[p]: the topic p's local `topic` refers to (0: none)
    inc,          \* inc[p]: incarnation of p (one per start of the process)
    exists,       \* IceStorm: whether topic "sbstatechange" exists
    gen,          \* IceStorm: how many times it was created (its identity)
    subscribers,  \* IceStorm: subscribers of the topic, as <<p, incarnation>>
    up,           \* whether IceStorm is reachable
    restarts      \* restarts so far

vars == <<pc, held, inc, exists, gen, subscribers, up, restarts>>

Steps == {"lookup", "retrieve", "create", "retrieve2", "adapter",
          "subscribe", "done", "failed"}

\* The local `topic` is set: the get-or-create part is over.
HasTopic(p) == pc[p] \in {"adapter", "subscribe", "done"}

-----------------------------------------------------------------------------
Init ==
    /\ pc = [p \in Procs |-> "lookup"]
    /\ held = [p \in Procs |-> 0]
    /\ inc = [p \in Procs |-> 0]
    /\ exists = FALSE
    /\ gen = 0
    /\ subscribers = {}
    /\ up \in BOOLEAN
    /\ restarts = 0

\* A remote call of p made while IceStorm is unreachable raises a
\* connectivity exception that no handler of lines 38-53 expects (the
\* except clauses name NoSuchTopic and TopicExists; the bare except turns
\* it into RuntimeError): the process leaves initialize_services.
CallFails(p, step) ==
    /\ pc[p] = step
    /\ ~up
    /\ pc' = [pc EXCEPT ![p] = "failed"]
    /\ UNCHANGED <<held, inc, exists, gen, subscribers, up, restarts>>

\* wait_for_service("IceStorm", TopicManagerPrx.checkedCast, prx) returns
\* the manager (lines 29-36).
LookupOk(p) ==
    /\ pc[p] = "lookup"
    /\ up
    /\ pc' = [pc EXCEPT ![p] = "retrieve"]
    /\ UNCHANGED <<held, inc, exists, gen, subscribers, up, restarts>>

\* It raises TimeoutError (a bounded budget) or a non-connectivity error.
LookupFails(p) ==
    /\ pc[p] = "lookup"
    /\ ~up
    /\ \/ Retries > -1
       \/ \E e \in Errors : e \notin RetryableErrors
    /\ pc' = [pc EXCEPT ![p] = "failed"]
    /\ UNCHANGED <<held, inc, exists, gen, subscribers, up, restarts>>

\* topic = manager.retrieve(topicname) (line 39), or NoSuchTopic (line 40).
Retrieve(p) ==
    /\ pc[p] = "retrieve"
    /\ up
    /\ IF exists
          THEN /\ held' = [held EXCEPT ![p] = gen]
               /\ pc' = [pc EXCEPT ![p] = "adapter"]
          ELSE /\ pc' = [pc EXCEPT ![p] = "create"]
               /\ UNCHANGED held
    /\ UNCHANGED <<inc, exists, gen, subscribers, up, restarts>>

\* Mutation of line 43: TopicExists answered by creating again.
CreateRetry(p) ==
    /\ pc[p] = "create"
    /\ up
    /\ IF exists
          THEN UNCHANGED <<pc, held, exists, gen>>
          ELSE /\ exists' = TRUE
               /\ gen' = gen + 1
               /\ held' = [held EXCEPT ![p] = gen + 1]
               /\ pc' = [pc EXCEPT ![p] = "adapter"]
    /\ UNCHANGED <<inc, subscribers, up, restarts>>

\* topic = manager.create(topicname) (line 42), or TopicExists (line 43)
\* when another process created it since this one's retrieve.
Create(p) ==
    /\ pc[p] = "create"
    /\ up
    /\ IF exists
          THEN /\ pc' = [pc EXCEPT ![p] = "retrieve2"]
               /\ UNCHANGED <<held, exists, gen>>
          ELSE /\ exists' = TRUE
               /\ gen' = gen + 1
               /\ held' = [held EXCEPT ![p] = gen + 1]
               /\ pc' = [pc EXCEPT ![p] = "adapter"]
    /\ UNCHANGED <<inc, subscribers, up, restarts>>

\* Mutation of line 44: TopicExists taken as success, the retrieve skipped.
RetrieveAgainSkipped(p) ==
    /\ pc[p] = "retrieve2"
    /\ up
    /\ pc' = [pc EXCEPT ![p] = "adapter"]
    /\ UNCHANGED <<held, inc, exists, gen, subscribers, up, restarts>>

\* topic = manager.retrieve(topicname) after TopicExists (line 44); a
\* NoSuchTopic here is not caught.
RetrieveAgain(p) ==
    /\ pc[p] = "retrieve2"
    /\ up
    /\ IF exists
          THEN /\ held' = [held EXCEPT ![p] = gen]
               /\ pc' = [pc EXCEPT ![p] = "adapter"]
          ELSE /\ pc' = [pc EXCEPT ![p] = "failed"]
               /\ UNCHANGED held
    /\ UNCHANGED <<inc, exists, gen, subscribers, up, restarts>>

\* createObjectAdapterWithEndpoints("SBStateMonitorAdapter", "tcp"),
\* addWithUUID(...).ice_oneway() and activate() (lines 47-49): local, with
\* no locator involved.
ActivateSubscriber(p) ==
    /\ pc[p] = "adapter"
    /\ pc' = [pc EXCEPT ![p] = "subscribe"]
    /\ UNCHANGED <<held, inc, exists, gen, subscribers, up, restarts>>

\* topic.subscribeAndGetPublisher({}, subscriber) (line 50).
Subscribe(p) ==
    /\ pc[p] = "subscribe"
    /\ up
    /\ subscribers' = subscribers \cup {<<p, inc[p]>>}
    /\ pc' = [pc EXCEPT ![p] = "done"]
    /\ UNCHANGED <<held, inc, exists, gen, up, restarts>>

\* Process p dies (a crash, or exit after a failed start) and is started
\* again: its local state is new, IceStorm's is not, and the subscriber of
\* the dead incarnation stays registered.
Restart(p) ==
    /\ restarts < MaxRestarts
    /\ pc' = [pc EXCEPT ![p] = "lookup"]
    /\ held' = [held EXCEPT ![p] = 0]
    /\ inc' = [inc EXCEPT ![p] = inc[p] + 1]
    /\ restarts' = restarts + 1
    /\ UNCHANGED <<exists, gen, subscribers, up>>

\* IceStorm comes up or goes away.
IceStormUp ==
    /\ ~up
    /\ up' = TRUE
    /\ UNCHANGED <<pc, held, inc, exists, gen, subscribers, restarts>>

IceStormDown ==
    /\ up
    /\ up' = FALSE
    /\ UNCHANGED <<pc, held, inc, exists, gen, subscribers, restarts>>

\* The steps of process p's main thread.
Proc(p) ==
    \/ LookupOk(p) \/ LookupFails(p) \/ CallFails(p, "retrieve")
    \/ Retrieve(p) \/ Create(p) \/ CallFails(p, "create")
    \/ RetrieveAgain(p) \/ CallFails(p, "retrieve2")
    \/ ActivateSubscriber(p) \/ Subscribe(p) \/ CallFails(p, "subscribe")

Next ==
    \/ \E p \in Procs : Proc(p) \/ Restart(p)
    \/ IceStormUp \/ IceStormDown

\* Each process's main thread runs on (weak fairness per process); restarts
\* and IceStorm are outside the processes.
Spec == Init /\ [][Next]_vars /\ \A p \in Procs : WF_vars(Proc(p))

-----------------------------------------------------------------------------
TypeOK ==
    /\ pc \in [Procs -> Steps]
    /\ held \in [Procs -> 0..gen]
    /\ inc \in [Procs -> 0..restarts]
    /\ exists \in BOOLEAN
    /\ gen \in Nat
    /\ subscribers \subseteq Procs \X Nat
    /\ up \in BOOLEAN
    /\ restarts \in Nat

\* Spec section 8: concurrent starters converge on the identical topic.
\* Every process past the get-or-create holds the one topic that IceStorm
\* has, which was created once, whichever process won the create race and
\* whoever restarted meanwhile (lines 38-44).
Converged ==
    \A p \in Procs : HasTopic(p) => (held[p] = gen /\ gen = 1 /\ exists)

\* Spec section 8: no starter is stuck in the get-or-create dance: once
\* IceStorm stays reachable, every process ends subscribed or failed.
DanceTerminates ==
    (<>[]up) => <>(\A p \in Procs : pc[p] \in {"done", "failed"})
=============================================================================
