---------------------------- MODULE MCJobLifecycle ----------------------------
(* Small instances of JobLifecycle for TLC. *)
EXTENDS JobLifecycle, TLC

CONSTANTS j1, j2, u1, u2, a1

Symmetry == Permutations(Jobs)
===============================================================================
