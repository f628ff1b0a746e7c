\* A command and the resident control process, each updating the same registry.
SPECIFICATION LockSpec
CONSTANTS
  t1 = t1
  t2 = t2
  t3 = t3
  p1 = p1
  p2 = p2
  None = None
  Callers = {t1, t2}
  Procs = {p1, p2}
  Pids = {7, 8}
  Home <- InTwoProcesses
  Blocking = TRUE
  MaxRestarts = 0
INVARIANT NoLostUpdate
CHECK_DEADLOCK FALSE
