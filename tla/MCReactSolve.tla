---------------------------- MODULE MCReactSolve ----------------------------
(* Instances of ReactSolve for TLC. *)
EXTENDS ReactSolve

AllTools == {"formal", "lemmas", "plot"}
LemmaApproval == {"lemmas"}
=============================================================================
