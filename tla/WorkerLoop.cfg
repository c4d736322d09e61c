\* Three jobs of two backends behind ten of a backend that is not enabled, the last
\* of which may arrive at any time; two slots.
SPECIFICATION FairSpec
CONSTANTS
  BaseDelay = 1
  MaxDelay = 2
  JitterPercent = 200
  QuotaDelay = 1
  Jobs = {1, 2, 3, 4, 5, 6, 7, 8, 9, 10, 11, 12, 13}
  Backlog = {1, 2, 3, 4, 5, 6, 7, 8, 9}
  Backends = {"off", "api", "cli"}
  BackendOf <- MCBackendOf
  Priority <- MCPriority
  Enabled = {"api", "cli"}
  Limit <- MCLimit
  MaxConcurrency = 2
  Bonus = 2
  AutoResume = {12}
  MaxAttempts = 2
  Failures <- MCFailures
  Headers <- MCHeaders
  MaxExtra = 1
INVARIANTS
  TypeOK
  ConcurrencyIsLimited
  AttemptsAreAccountedFor
PROPERTIES
  RetriesAreTimely
  QueuedJobsAreExecuted
CHECK_DEADLOCK FALSE
