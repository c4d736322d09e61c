\* One executor and the cancel button: a run that ends in a retry drops the
\* request.
SPECIFICATION Spec
CONSTANTS
  Jobs = {"j1"}
  Executors = {"w1"}
  Operators = {"ui"}
  Processes = {"worker", "web", "shell"}
  WorkerProcesses = {"worker"}
  RunOnceProcesses = {}
  ProcessOf <- MCProcessOf
  WorkerIdOf <- MCWorkerIdOf
  WorkerIds = {"worker-id", "web-run-now"}
  NoWorker = NoWorker
  NoJob = NoJob
  Nobody = Nobody
  Disabled = {}
  MaxAttempts = 2
  Commands = {"cancel"}
  LeasesMayLapse = FALSE
  MaxClaims = 3
  MaxStops = 0
PROPERTIES
  CancelIsHonoured
\* Every job may be settled and every process idle.
CHECK_DEADLOCK FALSE
