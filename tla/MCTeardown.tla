----------------------------- MODULE MCTeardown -----------------------------
(* Teardown for TLC: both threads may call DeRegisterHandlers. *)
EXTENDS Teardown

AnyThread == Threads
=============================================================================
