SPECIFICATION FairSpec
CONSTANTS
  Bodies = {"leaf", "patches"}
  Profiles = {"leaf"}
  None = None
  Chunks = 2
  Failures = {"stream_aborted", "profile_mismatch"}
  Threshold = 1
  Required = 1
  Kinds = {"stream", "contract"}
INVARIANTS
  StreamIsAnswer
  VerdictIsEarned
  TapAnswerIsWhole
PROPERTY
  ReadsSettle
CHECK_DEADLOCK FALSE
