SPECIFICATION FairSpec
CONSTANTS
  Searches = {a, b}
  MaxSessions = 2
  RecycleAfter = 2
  BreakerDeaths = 1
  MaxTries = 1
  MaxBegins = 3
  MaxFaults = 1
  MaxCancels = 1
  None = None
CHECK_DEADLOCK FALSE
INVARIANTS  AnswersAreOwn
PROPERTIES SearchesEnd
