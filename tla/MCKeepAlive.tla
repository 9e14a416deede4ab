---------------------------- MODULE MCKeepAlive ----------------------------
(* The instance of KeepAlive for TLC. *)
EXTENDS KeepAlive
=============================================================================
