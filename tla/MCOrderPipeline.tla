-------------------------- MODULE MCOrderPipeline --------------------------
(* Values for TLC runs of OrderPipeline. *)
EXTENDS OrderPipeline, TLC

CONSTANTS d1, d2, k1, k2, c1, c2, r1, r2

OneKeyEach  == d1 :> k1 @@ d2 :> k2
SameKey     == d1 :> k1 @@ d2 :> k1
OneDecision == d1 :> k1
Stakes      == d1 :> 2 @@ d2 :> 1
OneStake    == d1 :> 2

Interchangeable        == Permutations(Callers) \cup Permutations(Reconcilers)
InterchangeableCallers == Permutations(Callers)
=============================================================================
