-------------------------- MODULE ConnectorContract --------------------------
(***************************************************************************)
(* What a caller of wait_for_service is promised (spec section 4.1): the   *)
(* call is pending until it returns a handle, which it only does while the *)
(* remote end is reachable, raises TimeoutError, which it only does when   *)
(* the budget is bounded, or propagates a non-connectivity error.  How     *)
(* often it retried is not part of the promise.                            *)
(***************************************************************************)
EXTENDS Integers

CONSTANT Retries

VARIABLES status, up

Init ==
    /\ status = "pending"
    /\ up \in BOOLEAN

Connect ==
    /\ status = "pending"
    /\ up
    /\ status' = "connected"
    /\ UNCHANGED up

GiveUp ==
    /\ status = "pending"
    /\ Retries > -1
    /\ status' = "timedout"
    /\ UNCHANGED up

Fail ==
    /\ status = "pending"
    /\ status' = "failed"
    /\ UNCHANGED up

Flip ==
    /\ up' = ~up
    /\ UNCHANGED status

Next == Connect \/ GiveUp \/ Fail \/ Flip

Spec == Init /\ [][Next]_<<status, up>>
=============================================================================
