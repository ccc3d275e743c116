SPECIFICATION FairSpec
CONSTANTS
  Claims = {goal, subgoal}
  Tools <- AllTools
  Hitl = TRUE
  ApprovalTools <- LemmaApproval
  MaxSteps = 3
  MaxTools = 2
  MaxRevisions = 1
  MaxRepeats = 2
  MaxInterrupts = 1
  MaxCrashes = 1
  NoId = NoId
INVARIANTS VerifiedIsProved RevisionBound CountersSurvive ToolBudgetHolds InterruptsBounded PauseIsRecoverable
PROPERTIES RunEnds
