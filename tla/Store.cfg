SPECIFICATION Spec
CONSTANTS
  Sessions = {s1}
  Foreign = {f1}
  Requests = {r1}
  Solves = {t1}
  Items = {i1}
  Cuts = {"text", "newline"}
  CompactAt = 2
  MaxWrites = 4
  MaxFaults = 1
  None = None
CHECK_DEADLOCK FALSE
INVARIANTS IndexIsReplay UncutClaimsAreOnce AnswersAreKept
PROPERTIES CheckpointsAreCells
