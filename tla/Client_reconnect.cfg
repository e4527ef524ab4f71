SPECIFICATION FairSpec
CONSTANTS
  Modes = {"async", "sync"}
  Cuts = {"body"}
  Prompt = TRUE
  Budget <- OneLoss
INVARIANTS TypeOK AssertionsHold CallbackOrder StopReturnsQuiet GoneIsQuiet
PROPERTIES CallsReturn LossReported SessionResumes
CHECK_DEADLOCK FALSE
