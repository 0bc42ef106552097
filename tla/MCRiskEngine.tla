---------------------------- MODULE MCRiskEngine ----------------------------
(* Values for TLC runs of RiskEngine. *)
EXTENDS RiskEngine, TLC

CONSTANTS a1, a2, k1, k2, k3, w1, w2, c1

Interchangeable == Permutations(Writers) \cup Permutations(Keys) \cup Permutations(Accounts)
=============================================================================
