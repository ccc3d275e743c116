---------------------------- MODULE MCKnowledge ----------------------------
EXTENDS Knowledge
=============================================================================
