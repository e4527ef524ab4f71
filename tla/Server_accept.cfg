SPECIFICATION Spec
CONSTANTS
  MaxPeers = 2
  MaxMessages = 1
  MaxCalls = 3
CHECK_DEADLOCK FALSE
INVARIANTS
  TypeOK
  RepliesReachTheirPeer
PROPERTY CallsReturn
