---------------------------- MODULE MCLeanRunner ----------------------------
EXTENDS LeanRunner
=============================================================================
