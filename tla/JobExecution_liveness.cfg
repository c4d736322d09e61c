\* One job under fairness, leases honoured, cancelled and deleted at any time,
\* one crash, one process that recovers.
SPECIFICATION FairSpec
CONSTANTS
  Jobs = {"j1"}
  Executors = {"w1", "r1"}
  Operators = {"cli"}
  Processes = {"worker", "web", "shell"}
  WorkerProcesses = {"worker"}
  RunOnceProcesses = {}
  ProcessOf <- MCProcessOf
  WorkerIdOf <- MCWorkerIdOf
  WorkerIds = {"worker-id", "web-run-now"}
  NoWorker = NoWorker
  NoJob = NoJob
  Nobody = Nobody
  Disabled = {}
  MaxAttempts = 2
  Commands = {"cancel", "delete"}
  LeasesMayLapse = FALSE
  MaxClaims = 3
  MaxStops = 1
INVARIANTS
  NoDuplicateExecution
  NoFalseRecovery
  ExecutionOwnsItsRow
PROPERTIES
  ImplementsLifecycle
  EnqueuedJobsSettle
  ExecutionsEnd
  StaleRunsAreRecovered
\* Every job may be settled and every process idle.
CHECK_DEADLOCK FALSE
