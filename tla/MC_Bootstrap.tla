---------------------------- MODULE MC_Bootstrap ----------------------------
(* Instances of Bootstrap for TLC.                                          *)
EXTENDS Bootstrap

CONSTANTS n1, n2   \* two service identities, as model values

MCNames == {n1, n2}

\* The default budget of Server.__init__, retries=-1.
MCUnbounded == -1

MCRefusedOnly == {"ConnectionRefusedException"}

MCRefusedOrTimeout == {"ConnectionRefusedException", "ConnectTimeoutException"}

\* Every shape of sys.argv that get_config distinguishes.
MCAllArgs == ArgKinds

=============================================================================
