\* One job, every operator command, a recovery in each process, leases that lapse.
SPECIFICATION Spec
CONSTANTS
  Jobs = {"j1"}
  Executors = {"w1", "r1"}
  Operators = {"cli"}
  Processes = {"worker", "web", "shell"}
  WorkerProcesses = {"worker"}
  RunOnceProcesses = {"web"}
  ProcessOf <- MCProcessOf
  WorkerIdOf <- MCWorkerIdOf
  WorkerIds = {"worker-id", "web-run-now"}
  NoWorker = NoWorker
  NoJob = NoJob
  Nobody = Nobody
  Disabled = {}
  MaxAttempts = 2
  Commands = {"cancel", "retry", "delete"}
  LeasesMayLapse = TRUE
  MaxClaims = 2
  MaxStops = 1
INVARIANTS
  TypeOK
  ClaimsAreUnique
  WaitingIffScheduled
  LostLeaseRecordsNoResult
  RunningRowsAreLeased
\* Every job may be settled and every process idle.
CHECK_DEADLOCK FALSE
