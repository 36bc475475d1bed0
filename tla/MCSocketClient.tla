--------------------------- MODULE MCSocketClient ---------------------------
(* SocketClient for TLC: the configurations give the bounds.                *)
EXTENDS SocketClient
=============================================================================
