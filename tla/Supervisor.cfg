SPECIFICATION FairSpec
CONSTANTS
  Policy = "all_theorems"
  LeanThere = TRUE
  Hitl = TRUE
  Consolidates = TRUE
  Kinds = {"abort"}
  MaxRounds = 2
  RouteCount = 2
  MaxSolves = 2
CHECK_DEADLOCK FALSE
INVARIANTS VerifiedIsKept LearnedOnce
PROPERTIES SolveEnds
