------------------------------ MODULE OncePerJob ------------------------------
(***************************************************************************)
(* What the bot promises about one accepted download, whatever is          *)
(* cancelled, lost or restarted on the way: a job goes forward through     *)
(* submitted, accepted, claimed, running and published, each at most once; *)
(* a cancellation is never taken back; and a job whose cancellation was    *)
(* recorded before it was claimed is never claimed, so it never downloads  *)
(* anything.  JobLifecycle implements this specification.                  *)
(***************************************************************************)
CONSTANT Jobs

VARIABLES
  stage,      \* how far each job got
  cancelled   \* the jobs whose cancellation was recorded

vars == <<stage, cancelled>>

Stages == {"absent", "submitted", "accepted", "claimed", "running", "published"}

TypeOK == /\ stage \in [Jobs -> Stages]
          /\ cancelled \in SUBSET Jobs

Init == /\ stage = [j \in Jobs |-> "absent"]
        /\ cancelled = {}

Advance(j, from, to) ==
  /\ stage[j] = from
  /\ stage' = [stage EXCEPT ![j] = to]
  /\ UNCHANGED cancelled

Submit(j) == Advance(j, "absent", "submitted")

\* The platform message announcing the job was delivered.  A job cancelled
\* before that stays unaccepted for ever.
Accept(j) == j \notin cancelled /\ Advance(j, "submitted", "accepted")

Claim(j) == j \notin cancelled /\ Advance(j, "accepted", "claimed")

Start(j) == Advance(j, "claimed", "running")

Publish(j) == Advance(j, "running", "published")

Cancel(j) ==
  /\ stage[j] # "absent"
  /\ j \notin cancelled
  /\ cancelled' = cancelled \cup {j}
  /\ UNCHANGED stage

Next == \E j \in Jobs : \/ Submit(j) \/ Accept(j) \/ Claim(j)
                        \/ Start(j) \/ Publish(j) \/ Cancel(j)

Spec == Init /\ [][Next]_vars
===============================================================================
