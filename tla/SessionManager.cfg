SPECIFICATION FairSpec
CONSTANTS
  r1 = r1
  r2 = r2
  r3 = r3
  a = a
  b = b
  c = c
  Reqs = {r1, r2, r3}
  Calls <- MixedCalls
  Named = {a, b, c}
  Default = default
  Startup = startup
  None = None
  MaxSessions = 3
  MaxPages = 2
  Sweepers = {s1}
INVARIANTS
  ReservationsAgree
  HeldSessionStays
  TabIsolation
  LeasesOwned
PROPERTIES
  CloseCompletes
CHECK_DEADLOCK FALSE
