SPECIFICATION Spec
CONSTANTS
  NumObjects = 1
  MaxHandle = 6
  Kinds = {"generic"}
  Answers = {"ok"}
  GuidAnswers = {"ok"}
  Budget <- Sessions
INVARIANTS DisconnectedWithoutClient
CHECK_DEADLOCK FALSE
