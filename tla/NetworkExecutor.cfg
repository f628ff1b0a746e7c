SPECIFICATION FairNetSpec
CONSTANTS
  c1 = c1
  c2 = c2
  c3 = c3
  c4 = c4
  s1 = s1
  s2 = s2
  Calls = {c1, c2, c3, c4}
  Sessions = {s1, s2}
  sessionOf <- InTwoSessions
  FailureThreshold = 2
  Blank = "_"
  Characters = {"a", "b", "_"}
  Updates <- TheUpdates
  Optional = {"thread"}
  Prompt = "messages"
  KeepSystem = TRUE
  MaxTools = 2
  MaxCalls = 2
  Bound = {"tools", "model"}
  Required = {"model"}
  Strategy = "smart"
  asks <- TheRequests
  Replies <- TheReplies
  FollowRedirects = TRUE
  MaxRedirects = 1
  MaxTokens = 1
  None = None
INVARIANTS
  OpenIffThreshold
  ProbeIsInFlight
  ContinuesLastAnswer
  NewestHeaderIsSent
  StreamIsContent
PROPERTY
  OpensAgain
CHECK_DEADLOCK FALSE
