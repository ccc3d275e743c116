---------------------------- MODULE MCProofGraph ----------------------------
(* An instance of ProofGraph for TLC: a problem, another wording of it, and a lemma. *)
EXTENDS ProofGraph, TLC

CONSTANTS problem, reworded, lemma, hp, hl
MCTexts == {problem, reworded, lemma}
MCGoalIdFor == problem :> hp @@ reworded :> hp @@ lemma :> hl
=============================================================================
