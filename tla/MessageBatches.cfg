\* One job, claimed twice, in two batches, with the operator: outcomes of the older
\* batch come late.  An item may have expired, and a batch may end with a status
\* the code does not know; one crash or shutdown.
SPECIFICATION FairSpec
CONSTANTS
  Jobs = {"j1"}
  WorkerIds = {"worker-id"}
  Worker = "worker-id"
  NoWorker = NoWorker
  MaxGroup = 1
  ItemTypes = {"errored", "expired"}
  FinalStatuses = {"expired", "ended"}
  OutcomesRepeat = TRUE
  Commands = {"cancel", "retry", "delete"}
  MaxClaims = 2
  MaxBatches = 2
  MaxStops = 1
INVARIANTS
  TypeOK
  CompletedJobsWereReported
PROPERTIES
  OutcomesAreFinal
  BatchesClose
CHECK_DEADLOCK FALSE
