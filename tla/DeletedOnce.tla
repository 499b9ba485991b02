------------------------------ MODULE DeletedOnce ------------------------------
(***************************************************************************)
(* What the bot promises about the deletion of an artifact, whoever wants  *)
(* it gone: it is available from its publication until one actor begins to *)
(* delete it; only that actor ends the deletion; and a deletion given up   *)
(* (the file could not be removed, or the process died) is resumed by      *)
(* nobody.  ArtifactStore implements this specification.                   *)
(***************************************************************************)
CONSTANTS
  Artifacts,
  Deleters,
  Nobody

VARIABLES
  phase,   \* "none", "available", "pending" or "deleted"
  owner    \* who is deleting the artifact

vars == <<phase, owner>>

Init == /\ phase = [a \in Artifacts |-> "none"]
        /\ owner = [a \in Artifacts |-> Nobody]

Record(a) ==
  /\ phase[a] = "none"
  /\ phase' = [phase EXCEPT ![a] = "available"]
  /\ UNCHANGED owner

Begin(a, d) ==
  /\ phase[a] = "available"
  /\ phase' = [phase EXCEPT ![a] = "pending"]
  /\ owner' = [owner EXCEPT ![a] = d]

Finish(a) ==
  /\ phase[a] = "pending"
  /\ owner[a] # Nobody
  /\ phase' = [phase EXCEPT ![a] = "deleted"]
  /\ owner' = [owner EXCEPT ![a] = Nobody]

\* Some or, after a crash, all of the deletions under way are given up.
GiveUp(lost) ==
  /\ owner' = [a \in Artifacts |-> IF a \in lost THEN Nobody ELSE owner[a]]
  /\ UNCHANGED phase

Next == \/ \E a \in Artifacts : Record(a) \/ Finish(a)
        \/ \E a \in Artifacts, d \in Deleters : Begin(a, d)
        \/ \E lost \in SUBSET Artifacts : GiveUp(lost)

Spec == Init /\ [][Next]_vars
================================================================================
