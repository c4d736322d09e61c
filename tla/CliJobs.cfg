SPECIFICATION Spec
CONSTANTS
  BaseDelay = 1
  MaxDelay = 4
  JitterPercent = 50
  QuotaDelay = 6
  Executors = {worker, web}
  Deployments = {"one", "two"}
  MaxAttempts = 2
  MaxRuns = 2
  MaxCrashes = 1
INVARIANTS
  TypeOK
  ChildrenAreSupervised
  ChildrenAreEquipped
  WaitingJobsCanRun
  EndedWorkspacesAreRemoved
PROPERTIES
  UserChangesAreKept
  CliExecutionsEnd
CHECK_DEADLOCK FALSE
