------------------------------ MODULE MCRoster ------------------------------
(* Instances of Roster for TLC. *)
EXTENDS Roster, TLC

CONSTANTS p1, p2, c1
Symmetric == Permutations({p1, p2})
=============================================================================
