SPECIFICATION FairSpec
CONSTANTS
  Callers = {c1, c2, c3}
  Workers = {w1, w2}
  None = None
  ReentrantCalls = {"stop"}
INVARIANTS TypeOK NoThreadMisuse NoOrphan
PROPERTIES StopQuiesces StartArms StopTerminates ArmedFires
CHECK_DEADLOCK FALSE
