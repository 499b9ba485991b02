--------------------------- MODULE MCAdministration ---------------------------
(***************************************************************************)
(* Instances of Administration for TLC.                                    *)
(***************************************************************************)
EXTENDS Administration, TLC

\* The assignments that access checks can tell apart.
ModeChanges == [key : {"access_mode"}, value : Modes]

\* Every step treats calls alike, and the capacities alike.
CallSymmetry == Permutations(Calls) \cup Permutations(Capacities)
================================================================================
