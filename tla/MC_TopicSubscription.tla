------------------------ MODULE MC_TopicSubscription ------------------------
(* Instances of TopicSubscription for TLC.                                  *)
EXTENDS TopicSubscription

CONSTANTS m1, m2   \* two manager processes, as model values

MCProcs == {m1, m2}

MCUnbounded == -1

MCRefusedOnly == {"ConnectionRefusedException"}

MCRefusedOrTimeout == {"ConnectionRefusedException", "ConnectTimeoutException"}
=============================================================================
