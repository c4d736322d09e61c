SPECIFICATION Spec
CONSTANTS
  Processes = {web, worker}
  Deployments = {"one"}
  RetainedEvents = 1
  RetainedFeedback = 1
  RetainedGuidance = 1
  Texts = {t1, t2}
  MaxInputs = 4
INVARIANTS
  FeedbackIsCounted
