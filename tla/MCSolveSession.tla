--------------------------- MODULE MCSolveSession ---------------------------
(* Instances of SolveSession for TLC. *)
EXTENDS SolveSession, TLC

Interchangeable == Permutations(Streams) \union Permutations(Sessions)
=============================================================================
