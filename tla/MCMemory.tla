------------------------------ MODULE MCMemory ------------------------------
EXTENDS Memory, TLC

\* Solves and contents are only compared for equality, and no property is a liveness property.
Alike == Permutations(Solves) \cup Permutations(Contents)
=============================================================================
