SPECIFICATION FairSpec
CONSTANTS
  Threads = {t1, t2}
  Worker = Worker
  Tasks = {k1, k2, k3}
  Stoppers = {t1, t2}
  Destroyers = {t1, t2}
  None = None
INVARIANTS TypeOK NoLostWakeup DestroyedIsQuiet
PROPERTIES ImplementsTaskQueue StopReturns
CHECK_DEADLOCK FALSE
