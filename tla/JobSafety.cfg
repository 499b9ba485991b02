\* One job, an owner and an administrator cancelling it, every failure, one crash.
SPECIFICATION FairSpec
CONSTANTS
  j1 = j1
  j2 = j2
  u1 = u1
  u2 = u2
  a1 = a1
  Jobs = {j1}
  NoJob = NoJob
  Users = {u1}
  Admins = {a1}
  Faults = {"ack", "capacity", "disk", "platform", "worker"}
  MaxRestarts = 1
INVARIANTS
  TypeOK
  FinishedJobHasNoUrl
  OutcomeMatchesArtifact
PROPERTIES
  FollowsDesignTable
  OnlyAdminOverwritesOutcome
  QueuedCancelIsFinal
  KeepsPromise
  EverySubmittedJobSettles
CHECK_DEADLOCK FALSE
