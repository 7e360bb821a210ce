------------------------------ MODULE Connector ------------------------------
(***************************************************************************)
(* Server.wait_for_service (askap/iceutils/server.py): the loop that calls *)
(* a remote lookup (checkedCast of a proxy, or adapter.activate against    *)
(* the registry) until it succeeds, propagating any exception that is not  *)
(* one of five Ice connectivity exceptions, and raising TimeoutError once  *)
(* the retry budget `_retries` is used up (-1, or any negative value, is   *)
(* unbounded).  One invocation of the loop is modelled; its RetryState is  *)
(* the local `count`.  The remote end is either reachable (`up`) or not;   *)
(* when it is not, the callback raises one of the exceptions in Errors.    *)
(***************************************************************************)
EXTENDS Integers

CONSTANTS
    Retries,   \* Server._retries, the constructor argument `retries`
    Errors,    \* exception classes the callback raises when the remote is down
    MaxCount   \* model bound on `count` (the loop itself has none)

\* The except clause of wait_for_service, lines 143-147.
RetryableErrors == {"ConnectionRefusedException", "NoEndpointException",
                    "NotRegisteredException", "ConnectFailedException",
                    "DNSException"}

ASSUME RetriesAssumption == Retries \in Int
ASSUME MaxCountAssumption == MaxCount \in Nat
ASSUME ErrorsAssumption == Errors # {}

VARIABLES
    count,     \* the local `count` of wait_for_service
    status,    \* "calling" while in the loop, then how the call ended
    up,        \* whether the remote service / registry is reachable
    attempts   \* history: how many times the callback has been invoked

vars == <<count, status, up, attempts>>

Status == {"calling", "connected", "timedout", "failed"}

\* Mutations of line 148: the budget compared one iteration late, and the
\* test written `count >= self._retries` without the -1 case.
ExhaustedLate(c) == Retries > -1 /\ Retries + 1 = c

ExhaustedNoUnbounded(c) == c >= Retries

\* `self._retries > -1 and self._retries == count`, line 148.
Exhausted(c) == Retries > -1 /\ Retries = c

-----------------------------------------------------------------------------
Init ==
    /\ count = 0
    /\ status = "calling"
    /\ up \in BOOLEAN
    /\ attempts = 0

\* callback(*args) returns: registry = True, the loop ends (lines 141-142,
\* 160-163).
TryOk ==
    /\ status = "calling"
    /\ up
    /\ status' = "connected"
    /\ attempts' = attempts + 1
    /\ UNCHANGED <<count, up>>

\* callback raises a retryable exception and the budget is not used up:
\* count += 1 and sleep (lines 152-159).
TryRetry ==
    /\ status = "calling"
    /\ ~up
    /\ \E e \in Errors : e \in RetryableErrors
    /\ ~Exhausted(count)
    /\ count < MaxCount
    /\ count' = count + 1
    /\ attempts' = attempts + 1
    /\ UNCHANGED <<status, up>>

\* callback raises a retryable exception with the budget used up:
\* TimeoutError is raised (lines 148-151).
TryTimeout ==
    /\ status = "calling"
    /\ ~up
    /\ \E e \in Errors : e \in RetryableErrors
    /\ Exhausted(count)
    /\ status' = "timedout"
    /\ attempts' = attempts + 1
    /\ UNCHANGED <<count, up>>

\* callback raises an exception outside the except clause: it propagates
\* out of wait_for_service unchanged.
TryFatal ==
    /\ status = "calling"
    /\ ~up
    /\ \E e \in Errors : e \notin RetryableErrors
    /\ status' = "failed"
    /\ attempts' = attempts + 1
    /\ UNCHANGED <<count, up>>

\* The remote end comes up or goes away (registry restart, node boot).
RemoteUp ==
    /\ ~up
    /\ up' = TRUE
    /\ UNCHANGED <<count, status, attempts>>

RemoteDown ==
    /\ up
    /\ up' = FALSE
    /\ UNCHANGED <<count, status, attempts>>

Call == TryOk \/ TryRetry \/ TryTimeout \/ TryFatal

Environment == RemoteUp \/ RemoteDown

Next == Call \/ Environment

\* The loop runs on the caller's thread and is never descheduled for good:
\* weak fairness of its steps.  Nothing is assumed of the remote end.
Spec == Init /\ [][Next]_vars /\ WF_vars(Call)

-----------------------------------------------------------------------------
TypeOK ==
    /\ count \in 0..MaxCount
    /\ status \in Status
    /\ up \in BOOLEAN
    /\ attempts \in Nat

\* Spec section 8, bounded budget N >= 0: TimeoutError is raised after
\* exactly N+1 failed calls of the callback, and however the call ends it
\* has invoked the callback at most N+1 times.
BudgetRespected ==
    /\ status = "timedout" => Retries > -1 /\ attempts = Retries + 1
    /\ Retries > -1 => attempts <= Retries + 1

\* Spec section 8: with an unbounded budget and only connectivity errors,
\* wait_for_service returns once the remote end stays up, however long it
\* was down first.
EventuallyConnected ==
    (Retries < 0 /\ Errors \subseteq RetryableErrors /\ <>[]up)
        => <>(status = "connected")

\* Spec section 8, as it is written: with max_attempts = -1 the call
\* eventually returns once the remote end starts answering, whatever the
\* remote end raised while it was unreachable (ConnectTimeoutException
\* included, which the except clause of lines 143-147 does not name).
UnboundedReturns ==
    (Retries < 0 /\ <>[]up) => <>(status = "connected")

\* The strengthening of BudgetRespected that is inductive: `count` is the
\* number of failed calls so far, and stays within the budget.
IInv ==
    /\ TypeOK
    /\ attempts = count + (IF status = "calling" THEN 0 ELSE 1)
    /\ Retries > -1 => count <= Retries
    /\ status = "timedout" => Exhausted(count)
=============================================================================
