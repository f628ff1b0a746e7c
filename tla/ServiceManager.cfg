SPECIFICATION Spec
CONSTANTS
  Clients = {c1, c2}
  Procs = {"p1", "p2", "p3", "p4", "p5"}
  Ids = {i1, i2}
  Hosts = {h1, h2}
  Ports = {n1, n2}
  Profiles = {main, work}
  None = None
  MaxCalls = 4
  MaxFaults = 1
INVARIANTS RecordedApart NothingLeftBehind
PROPERTIES HostsInUseSpared
SYMMETRY Interchangeable
CHECK_DEADLOCK FALSE
