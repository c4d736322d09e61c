SPECIFICATION Spec
CONSTANTS
  BaseDelay = 1
  MaxDelay = 4
  JitterPercent = 50
  QuotaDelay = 6
  Backends = {"messages_api", "agent_sdk", "cli"}
  Threshold = 4
  KeepRecent = 2
  MaxAttempts = 3
  MaxRuns = 6
INVARIANTS
  TypeOK
  CutOffAnswersAreContinued
  FinishedAnswersStand
  RowsFollowTheDialogue
CHECK_DEADLOCK FALSE
