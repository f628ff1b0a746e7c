SPECIFICATION FairSpec
CONSTANTS
  Tools <- TheTools
  Effect <- TheEffect
  Answers <- TheAnswers
  Choice = "auto"
  Parallel = TRUE
  MaxCalls = 2
  Mode = "explore-first"
  Asks = {"change", "json", "go"}
  Requests = {"ask", "results", "stray", "host", "again", "repair", "rewind"}
  Styles = {"history", "bare", "contract"}
  MaxRequests = 3
  MaxResets = 1
  MaxTracked = 2
  MaxHistory = 4
  MaxPrompts = 3
  MaxMishaps = 1
INVARIANTS
  AnswerIsOfPrompt
  SentOnceAndWhole
PROPERTIES
  WorkIsEvidenced
  SettledCallsStaySettled
  ContextKnown
  CallsEnd
CHECK_DEADLOCK FALSE
