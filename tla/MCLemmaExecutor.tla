--------------------------- MODULE MCLemmaExecutor ---------------------------
(* An instance of LemmaExecutor for TLC. *)
EXTENDS LemmaExecutor

\* Side by side, in a chain, and with an unknown name or a forward dependency.
MCPlans == {<<{}, {}>>, <<{}, {1}>>, <<{2}, {0}>>}
=============================================================================
