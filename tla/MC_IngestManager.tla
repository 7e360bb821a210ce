-------------------------- MODULE MC_IngestManager --------------------------
(* Instances of IngestManager for TLC.                                      *)
EXTENDS IngestManager

\* The one identity IngestManager registers.
MCIngestNames == {"CentralProcessorService"}

\* The default budget of Server.__init__, retries=-1.
MCUnbounded == -1

MCRefusedOnly == {"ConnectionRefusedException"}

MCRefusedOrTimeout == {"ConnectionRefusedException", "ConnectTimeoutException"}

MCAllArgs == ArgKinds

\* As in src/: no code sets manager.fcm.
MCShipped == {FALSE}

\* A launcher that may or may not set manager.fcm.
MCAnyLauncher == BOOLEAN
=============================================================================
