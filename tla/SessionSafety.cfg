SPECIFICATION Spec
CONSTANTS
  Streams = {a, b, c}
  Sessions = {s1, s2}
  Requests = {r1}
  MaxSolves = 2
  RecoveryMaxRuns = 1
  AutoResolve = TRUE
  WritesMayFail = FALSE
  QueueMayFill = FALSE
  MaxBoots = 2
  NoStream = NoStream
  NoSession = NoSession
  NoRequest = NoRequest
  NoDecision = NoDecision
SYMMETRY Interchangeable
CHECK_DEADLOCK FALSE
INVARIANTS SlotAccounting CompletedIsPersisted RecoverySparesLiveRuns NoStuckLeftovers
PROPERTIES DecisionProtocol
