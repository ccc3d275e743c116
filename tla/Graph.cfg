SPECIFICATION Spec
CONSTANTS
  problem = problem
  reworded = reworded
  lemma = lemma
  hp = hp
  hl = hl
  Texts <- MCTexts
  Problem <- problem
  Hashes = {hp, hl}
  GoalIdFor <- MCGoalIdFor
  Names = {n}
  MaxChanges = 4
  None = None
INVARIANTS EvidenceIsOfTheGoal InvalidationReaches GoalsAreAcyclic
