SPECIFICATION Spec
CONSTANTS
  ByteSize = 8
  Setups <- MCSetups
  InitialValue <- MCInitialValue
  Reports <- MCReports
CHECK_DEADLOCK FALSE
INVARIANTS
  TypeOK
  ConnectedMeansHeard
  SetReachesItsObject
  WellFramed
  OneNumberPerObject
  ReadingsAreFaithful
