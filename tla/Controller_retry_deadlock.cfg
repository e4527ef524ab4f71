SPECIFICATION Spec
CONSTANTS
  NumObjects = 2
  MaxHandle = 8
  Kinds = {"generic"}
  Answers = {"ok"}
  GuidAnswers = {"ok"}
  Budget <- OneTick
INVARIANTS NoTimerDeadlock
CHECK_DEADLOCK FALSE
