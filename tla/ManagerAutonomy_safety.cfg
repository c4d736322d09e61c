\* Four tasks, a limit of two, every autonomy mode, both deployments.
SPECIFICATION FairSpec
CONSTANTS
  MaxTasks = 4
  Limit = 2
  Modes = {"minimal", "partial", "full"}
  Deployments = {"one", "two"}
  MaxActs <- MCMaxActs
INVARIANTS
  TypeOK
  OneManagedTask
  BoundedAutonomy
PROPERTIES
  LaunchesAreAllowed
  EndedTasksAreNoticed
CHECK_DEADLOCK FALSE
