---------------------------- MODULE MCStateFiles ----------------------------
(* Small instances of StateFiles. *)
EXTENDS StateFiles, TLC

CONSTANTS p1, p2

Symmetry == Permutations({p1, p2})
=============================================================================
