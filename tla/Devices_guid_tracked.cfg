SPECIFICATION Spec
CONSTANTS
  ByteSize = 8
  Setups <- GuidSetups
  InitialValue <- MCInitialValue
  Reports <- MCReports
CHECK_DEADLOCK FALSE
INVARIANT ConnectedMeansHeard
