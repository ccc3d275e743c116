--------------------------- MODULE MCTacticSearch ---------------------------
EXTENDS TacticSearch, TLC
Alike == Permutations(Searches)
=============================================================================
