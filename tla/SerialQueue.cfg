SPECIFICATION FairSpec
CONSTANTS
  Tasks = {t1, t2, t3, t4}
  NoTask = NoTask
  MaxQueue = 3
INVARIANTS
  DrainedIsQuiet
PROPERTIES
  AcceptedSettles
  ImplementsFifoLock
CHECK_DEADLOCK FALSE
