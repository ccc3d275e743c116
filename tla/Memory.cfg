CONSTANTS
  Solves = {s1, s2}
  MemoryKinds = {preference}
  Contents = {c1, c2}
  NoMemory = NoMemory
  MaxRecords = 3
  MaxPlans = 2
SYMMETRY Alike
SPECIFICATION MemorySpec
 
PROPERTIES LearnedIsNew
CHECK_DEADLOCK FALSE
