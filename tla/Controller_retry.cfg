SPECIFICATION Spec
CONSTANTS
  NumObjects = 1
  MaxHandle = 8
  Kinds = {"generic"}
  Answers = {"ok"}
  GuidAnswers = {"ok"}
  Budget <- Everything
INVARIANTS DisconnectLeavesNothing ClientOutlivesUse ConnectedIsSubscribed TimerStartsAfresh
CHECK_DEADLOCK FALSE
