SPECIFICATION TapFairSpec
CONSTANTS
  r1 = r1
  r2 = r2
  Requests = {r1, r2}
  Inputs <- Seen
  Profiles = {"sse"}
  Responses <- MayBe
  Null = Null
  Chunks = 2
  Weight <- Pieces
  MaxBytes = 3
  MaxTurns = 2
PROPERTIES
  MatchIsSound
  ImplementsFeed
  TurnsEnd
CHECK_DEADLOCK FALSE
