------------------------------ MODULE MCQuota ------------------------------
(* An instance of Quota for TLC; the user's slots are alike. *)
EXTENDS Quota, TLC

Alike == Permutations(Solves)
=============================================================================
