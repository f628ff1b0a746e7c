\* One resident control process that crashes and restarts, three asynchronous calls.
SPECIFICATION LockFairSpec
CONSTANTS
  t1 = t1
  t2 = t2
  t3 = t3
  p1 = p1
  p2 = p2
  None = None
  Callers = {t1, t2, t3}
  Procs = {p1}
  Pids = {7, 8}
  Home <- InOneProcess
  Blocking = FALSE
  MaxRestarts = 2
INVARIANTS NoLostUpdate
PROPERTY WaitersSettle
CHECK_DEADLOCK FALSE
