------------------------------ MODULE JobStates ------------------------------
(***************************************************************************)
(* The states of a job and of an artifact, the sets the application tests  *)
(* them against, and the pure transition functions of the domain layer     *)
(* (domain/enums.py and domain/state_machine.py).  The repositories never  *)
(* call these functions: they are the design the running system is         *)
(* compared with in JobLifecycle.                                          *)
(***************************************************************************)

ActiveJobStates == {"inspecting", "downloading", "post_processing",
                    "archiving", "delivering", "cancelling"}

TerminalJobStates == {"cancelled", "cancelled_by_restart", "expired", "evicted"}

ArtifactBearingJobStates == {"completed", "completed_with_errors", "failed"}

UserCancellableStates == {"queued", "inspecting", "downloading",
                          "post_processing", "archiving", "delivering"}

JobStates == {"queued"} \cup ActiveJobStates \cup TerminalJobStates
                        \cup ArtifactBearingJobStates

AllowedEdges ==
  LET Working == {"downloading", "post_processing", "archiving", "delivering"}
  IN  {<<"queued", "inspecting">>, <<"queued", "cancelled_by_restart">>,
       <<"inspecting", "downloading">>,
       <<"downloading", "post_processing">>, <<"downloading", "archiving">>,
       <<"downloading", "delivering">>,
       <<"post_processing", "downloading">>, <<"post_processing", "archiving">>,
       <<"post_processing", "delivering">>,
       <<"archiving", "delivering">>,
       <<"delivering", "completed">>, <<"delivering", "completed_with_errors">>,
       <<"cancelling", "cancelled">>}
      \cup ((Working \cup {"queued", "inspecting"}) \X {"cancelling", "failed"})
      \cup (ArtifactBearingJobStates \X {"expired", "evicted"})
      \cup (ActiveJobStates \X {"cancelled_by_restart"})

IsAllowedTransition(from, to) ==
  IF from = to THEN from = "downloading" ELSE <<from, to>> \in AllowedEdges
==============================================================================
