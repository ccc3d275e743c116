SPECIFICATION FairSpec
CONSTANTS
  Callers = {a, b}
  Complete = {proof}
  Sketches = {sketch}
  Wrong = {wrong}
  MaxChecks = 1
  CacheSize = 1
  MaxRepairs = 2
  MaxFaults = 1
  MaxForeign = 1
  MaxCancels = 1
CHECK_DEADLOCK FALSE
INVARIANTS AnswersAreTrue 
PROPERTIES CallsEnd
