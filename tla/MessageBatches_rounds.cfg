\* Two jobs, each claimed twice, and two batch records; a third request for a batch
\* fails.  Nobody but the worker, the clock and the service acts.
SPECIFICATION FairSpec
CONSTANTS
  Jobs = {"j1", "j2"}
  WorkerIds = {"worker-id"}
  Worker = "worker-id"
  NoWorker = NoWorker
  MaxGroup = 2
  ItemTypes = {"succeeded"}
  FinalStatuses = {"expired", "ended"}
  OutcomesRepeat = TRUE
  Commands = {}
  MaxClaims = 2
  MaxBatches = 2
  MaxStops = 0
PROPERTIES
  QueuedJobsSettle
CHECK_DEADLOCK FALSE
