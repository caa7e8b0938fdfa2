---------------------------- MODULE MCLmManager ----------------------------
(* LmManager for TLC: requests and models are interchangeable.             *)
EXTENDS LmManager, TLC

RequestSymmetry == Permutations(Requests) \cup Permutations(Models)
=============================================================================
