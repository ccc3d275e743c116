SPECIFICATION Spec
CONSTANTS
  Solves = {a, b, c}
  Limit = 2
  Amounts = {1, 2}
  MaxTokens = 2
  MaxStarts = 4
  MaxDays = 2
  Exempt = FALSE
  None = None
SYMMETRY Alike
CHECK_DEADLOCK FALSE
INVARIANTS TokensAreCountedOnce 
