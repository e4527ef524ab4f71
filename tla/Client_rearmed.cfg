SPECIFICATION Spec
CONSTANTS
  Modes = {"async"}
  Cuts = {}
  Prompt = TRUE
  Budget <- OneLoss
INVARIANT StopEndsDialing
CHECK_DEADLOCK FALSE
