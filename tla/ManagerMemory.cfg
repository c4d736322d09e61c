SPECIFICATION Spec
CONSTANTS
  Processes = {web, worker}
  Deployments = {"one", "two"}
  RetainedEvents = 1
  RetainedFeedback = 1
  RetainedGuidance = 1
  Texts = {t1, t2}
  MaxInputs = 3
INVARIANTS
  TypeOK
  MemoryIsKept
