SPECIFICATION FairSpec
CONSTANTS
  c1 = c1
  c2 = c2
  c3 = c3
  c4 = c4
  k1 = k1
  k2 = k2
  k3 = k3
  p1 = p1
  p2 = p2
  Calls = {c1, c2, c3, c4}
  Keys = {k1, k2, k3}
  Payloads = {p1, p2}
  None = None
  Asks <- Retries
  MaxEntries = 2
  MaxBytes = 3
  Sizes = {1, 3}
INVARIANTS
  NoDoubleSubmission
  WithinLimits
CHECK_DEADLOCK FALSE
