--------------------------- MODULE MCOfflineQueue ---------------------------
(* Instances of OfflineQueue small enough for TLC.                          *)
EXTENDS OfflineQueue
=============================================================================
