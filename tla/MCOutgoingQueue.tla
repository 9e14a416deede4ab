--------------------------- MODULE MCOutgoingQueue ---------------------------
(* OutgoingQueue for TLC: the constants are model values, given in the cfg. *)
EXTENDS OutgoingQueue
=============================================================================
