---------------------------- MODULE MCArtifactStore ----------------------------
(* Instances of ArtifactStore for TLC. *)
EXTENDS ArtifactStore, TLC

CONSTANTS a1, cleanup, launch, admin, r1, r2
================================================================================
