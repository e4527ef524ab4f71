SPECIFICATION FairSpec
CONSTANTS
  NumObjects = 2
  MaxHandle = 8
  Kinds = {"generic", "soundscape"}
  Answers = {"ok", "error"}
  GuidAnswers = {"ok"}
  Budget <- Sessions
INVARIANTS TypeOK ConnectedIsAsked ConnectedIsComplete OutstandingIsWatched SubscriptionsAreAlive
PROPERTIES SessionCompletes DisconnectReturns
CHECK_DEADLOCK FALSE
