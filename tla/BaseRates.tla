------------------------------ MODULE BaseRates ------------------------------
(***************************************************************************)
(* How often teams scored that had shown some signal, learnt from the      *)
(* matches of the history (base-rates.calculator.ts, base-rates.service.ts)*)
(* and told with each suggestion of a live match                           *)
(* (smart-suggestions.service.ts).                                         *)
(*                                                                         *)
(* A match is a record [id, league, season, snapshots, goals]: its         *)
(* statistics, of which only those an import stored have a half, and its   *)
(* events of type Goal.  Rates are in ten thousandths.                     *)
(***************************************************************************)
EXTENDS ProviderFeed

Signals == {"total_shots", "on_target", "pressure_index"}

(* The market of the rates for each market of the rules.                   *)
RateMarket == [m \in Markets |-> CASE m = Half1 -> "goal_1h"
                                   [] m = Half2 -> "goal_2h"
                                   [] OTHER     -> "goal_ft"]

SignalsOf(stats) ==
    [signal \in Signals |->
        CASE signal = "total_shots" -> IF TotalShots(stats) = Unknown THEN 0 ELSE TotalShots(stats)
          [] signal = "on_target"   -> StatValue(stats, "on target")
          [] OTHER                  -> PressureIndex(stats)]

(* What was added after the first half.                                    *)
DiffSignals(full, first) ==
    [signal \in Signals |-> IF full[signal] > first[signal] THEN full[signal] - first[signal] ELSE 0]

HalfStats(match, side, half) ==
    {s.stats : s \in {r \in match.snapshots : r.team = side /\ r.half = half}}

HasScored(match, side, market) ==
    \E g \in match.goals : /\ g.team = side
                           /\ CASE market = "goal_1h" -> g.minute # Unknown /\ g.minute <= 45
                                [] market = "goal_2h" -> g.minute # Unknown /\ g.minute > 45
                                [] OTHER              -> TRUE

Observation(match, side, market, signals) ==
    [id |-> match.id, league |-> match.league, season |-> match.season, side |-> side,
     market |-> market, signals |-> signals, scored |-> HasScored(match, side, market)]

(* A market is observed when the statistics it is judged by are there.     *)
ObservationsOf(match, side) ==
    {Observation(match, side, market, SignalsOf(first)) :
        first \in HalfStats(match, side, "1"), market \in {"goal_1h", "goal_ft"}}
    \cup
    {Observation(match, side, "goal_2h", DiffSignals(SignalsOf(last), SignalsOf(first))) :
        first \in HalfStats(match, side, "1"), last \in HalfStats(match, side, "2")}

BuildObservations(match) ==
    IF match.league = Unknown \/ match.season = Unknown THEN {}
    ELSE UNION {ObservationsOf(match, side) : side \in Sides}

(* To the nearest ten thousandth.                                          *)
RateOf(positives, sample) == (20000 * positives + sample) \div (2 * sample)

(* Of the teams observed with a signal of at least the threshold, how many *)
(* scored; samples of less than minSample tell nothing.                    *)
Sample(observations, league, season, market, signal, threshold) ==
    {o \in observations : /\ o.league = league /\ o.season = season /\ o.market = market
                          /\ o.signals[signal] >= threshold}

BaseRate(sample, key) ==
    [key |-> key, sampleSize |-> Cardinality(sample),
     rate |-> RateOf(Cardinality({o \in sample : o.scored}), Cardinality(sample))]

ComputeBaseRates(observations, thresholds, minSample) ==
    LET judged == UNION {{signal} \X thresholds[signal] : signal \in Signals}
        keys == {<<o.league, o.season, o.market, j[1], j[2]>> : o \in observations, j \in judged}
        sample(k) == Sample(observations, k[1], k[2], k[3], k[4], k[5])
    IN  {BaseRate(sample(k), k) : k \in {l \in keys : Cardinality(sample(l)) >= minSample}}

-----------------------------------------------------------------------------
(* The base_rates rows of a league and season are replaced; those of a     *)
(* league and season without any match are left as they are.               *)
RecomputeLeagueSeason(rows, matches, league, season, thresholds, minSample) ==
    LET of           == {m \in matches : m.league = league /\ m.season = season}
        observations == UNION {BuildObservations(m) : m \in of}
    IN  IF of = {} THEN rows
        ELSE {r \in rows : r.key[1] # league \/ r.key[2] # season}
             \cup ComputeBaseRates(observations, thresholds, minSample)

RecomputeAll(rows, matches, thresholds, minSample) ==
    LET pairs == {<<m.league, m.season>> : m \in {n \in matches : n.league # Unknown /\ n.season # Unknown}}
        recompute(p, acc) == RecomputeLeagueSeason(acc, matches, p[1], p[2], thresholds, minSample)
    IN  FoldSet(recompute, rows, pairs)

(* The rates of one signal for all leagues and all seasons of the matches. *)
BuildLookup(rows, pairs, signal) ==
    {r \in rows : /\ r.key[4] = signal
                  /\ r.key[1] \in {p[1] : p \in pairs} /\ r.key[2] \in {p[2] : p \in pairs}}

(* The threshold of the rule must be one the rates were computed for.      *)
ResolveBaseRate(match, market, threshold, lookup) ==
    LET hits == {r \in lookup : /\ r.key[1] = match.league /\ r.key[2] = match.season
                                /\ r.key[3] = RateMarket[market] /\ r.key[5] = threshold}
    IN  IF match.league = Unknown \/ match.season = Unknown \/ hits = {}
        THEN [confidence |-> Unknown, sampleSize |-> Unknown]
        ELSE LET hit == CHOOSE r \in hits : TRUE
             IN  [confidence |-> (hit.rate + 50) \div 100, sampleSize |-> hit.sampleSize]
=============================================================================
