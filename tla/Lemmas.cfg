SPECIFICATION LemmaSpec
CONSTANTS
  Plans <- MCPlans
  MaxParallel = 2
  MaxRoutes = 2
  MaxRepairs = 2
  MaxSubs = 2
  RescueEnabled = TRUE
  MaxDepth = 2
INVARIANTS  DiagnosticNamesAFailure 
PROPERTIES Ends
