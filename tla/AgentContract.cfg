SPECIFICATION FairSpec
CONSTANTS
  c1 = c1
  c2 = c2
  c3 = c3
  s1 = s1
  s2 = s2
  t1 = t1
  t2 = t2
  g1 = g1
  g2 = g2
  v1 = v1
  v2 = v2
  Calls = {c1, c2, c3}
  Sessions = {s1, s2}
  Asks <- Conversation
  Segments = {g1, g2}
  Versions = {v1, v2}
  Schemas = {t1, t2}
  Texts <- Conversations
  read = read
  write = write
  guess = guess
  path = path
  body = body
  good = good
  other = other
  wrong = wrong
  huge = huge
  Tools = {read, write}
  Args = {path, body}
  Wrong = {wrong}
  Huge = {huge}
  Null = Null
  Absent = Absent
  Malformed = Malformed
  None = None
  MaxTracked = 1
  ResetFailures = {"kept", "fresh"}
INVARIANTS
  PromptIsGrounded
  RepairKeepsDecision
CHECK_DEADLOCK FALSE
