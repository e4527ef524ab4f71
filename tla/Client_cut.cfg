SPECIFICATION FairSpec
CONSTANTS
  Modes = {"async"}
  Cuts = {"header"}
  Prompt = TRUE
  Budget <- OneLoss
PROPERTY LossReported
CHECK_DEADLOCK FALSE
