------------------------------- MODULE MCCapacity -------------------------------
(***************************************************************************)
(* Instances of Capacity for TLC.                                          *)
(***************************************************************************)
EXTENDS Capacity, TLC

CONSTANTS j1, j2, j3

\* Every step treats jobs alike.
JobSymmetry == Permutations(Jobs)
================================================================================
