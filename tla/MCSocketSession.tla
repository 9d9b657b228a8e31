--------------------------- MODULE MCSocketSession ---------------------------
(* Instances of SocketSession for TLC. *)
EXTENDS SocketSession
=============================================================================
