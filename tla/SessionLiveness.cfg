SPECIFICATION FairSpec
CONSTANTS
  Streams = {a, b}
  Sessions = {s1, s2}
  Requests = {r1}
  MaxSolves = 1
  RecoveryMaxRuns = 1
  AutoResolve = TRUE
  WritesMayFail = TRUE
  QueueMayFill = TRUE
  MaxBoots = 1
  NoStream = NoStream
  NoSession = NoSession
  NoRequest = NoRequest
  NoDecision = NoDecision
CHECK_DEADLOCK FALSE
PROPERTIES LaunchedRunsEnd
