---------------------------- MODULE MC_Connector ----------------------------
(* Instances of Connector for TLC, and the refinement mapping onto the     *)
(* caller's contract.                                                       *)
EXTENDS Connector

\* A host that refuses connections while the registry is down.
MCRefusedOnly == {"ConnectionRefusedException"}

\* A host that is unreachable: the connect may also time out, which Ice
\* reports as ConnectTimeoutException, a TimeoutException.
MCRefusedOrTimeout == {"ConnectionRefusedException", "ConnectTimeoutException"}

\* The code's default budget, retries=-1: wait forever.
MCUnbounded == -1

\* The loop's status seen through the contract: "calling" is "pending".
ContractStatus == IF status = "calling" THEN "pending" ELSE status

Contract == INSTANCE ConnectorContract WITH status <- ContractStatus

\* wait_for_service implements its contract: every step of the loop is a
\* step of the contract or leaves the caller's view unchanged.
ImplementsContract == Contract!Spec
=============================================================================
