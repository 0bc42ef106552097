---------------------------- MODULE MCSimulation ----------------------------
(* Small instances of Simulation for TLC.                                  *)
EXTENDS Simulation

CONSTANTS i1, i2

HomeBets == <<[market |-> Full, side |-> "home"], [market |-> Half1, side |-> "home"]>>

(* One rule per half, one threshold; the leader has to press harder.       *)
Rules ==
    [firstHalfRules |-> <<[maxElapsed |-> 45, minShots |-> 5]>>,
     secondHalfRule |-> [maxElapsed |-> 60, minShots |-> 5],
     modifiers |-> [drawing |-> 0, leading |-> 9, trailing |-> 0],
     odds |-> [m \in Markets |-> 1500],
     edge |-> [m \in Markets |-> 10]]

Flat == [staking |-> "FLAT", amount |-> 2, maxStake |-> 2, maxExposure |-> 3,
         minEdge |-> 5, minConfidence |-> 0, markets |-> {Half1, Full},
         baseRate |-> [m \in Markets |-> Unknown], rules |-> Rules]

FlatOnly == {Flat}

Interchangeable == Permutations(Instances)
=============================================================================
