SPECIFICATION Spec
CONSTANTS
  Claims = {lemma, guess}
  Provable = {lemma}
  Jobs = {a, b}
  Cards = {k}
  None = None
  MaxItems = 2
  MaxJobs = 3
  MaxRevs = 2
CHECK_DEADLOCK FALSE
INVARIANTS VerifiedCarriesProof
  
