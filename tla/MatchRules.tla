----------------------------- MODULE MatchRules -----------------------------
(***************************************************************************)
(* The rules the live and the replayed evaluation share: which bets a      *)
(* match calls for (rules-evaluator.ts) and how a bet on it ends           *)
(* (outcome-resolver.ts).  A match is a record                             *)
(*   [status, elapsed, score, ht, signal, htSignal]                        *)
(* where score, ht, signal and htSignal give a number, or Unknown, for     *)
(* each side; ht is the score at half time, signal the offensive statistic *)
(* the configuration selects, htSignal its value at half time.             *)
(***************************************************************************)
EXTENDS Integers, SequencesExt

Unknown == -1
Sides   == {"home", "away"}

Half1 == "Buts 1ere mi-temps"
Half2 == "Buts 2eme mi-temps"
Full  == "Buts match"
Markets == {Half1, Half2, Full}

FirstHalf  == {"1H", "LIVE"}
SecondHalf == {"2H", "LIVE"}
Finished   == {"FT", "AET", "PEN", "AWD", "WO"}
PostHalf   == {"HT", "2H", "ET", "BT", "P"} \cup Finished
Voided     == {"CANC", "PST", "INT", "SUSP", "ABD", "TBD", "WO"}
Statuses   == {"NS"} \cup FirstHalf \cup PostHalf \cup Voided

-----------------------------------------------------------------------------
(* How a bet ends: "WON" as soon as it cannot be lost any more, "LOST"     *)
(* when the period closes, "OPEN" while neither is known.                  *)
Scored(goals) == goals # Unknown /\ goals > 0

(* Mutant: the score at half time is not looked at.                        *)
FirstHalfByScore(m, side) ==
    IF Scored(m.score[side]) THEN "WON"
    ELSE IF m.status \in PostHalf THEN "LOST" ELSE "OPEN"

FirstHalfOutcome(m, side) ==
    CASE m.status \in FirstHalf -> IF Scored(m.score[side]) THEN "WON" ELSE "OPEN"
      [] m.status \in PostHalf /\ m.ht[side] # Unknown ->
             IF Scored(m.ht[side]) THEN "WON" ELSE "LOST"
      [] OTHER -> "OPEN"

FullOutcome(m, side) ==
    IF Scored(m.score[side]) THEN "WON"
    ELSE IF m.status \in Finished THEN "LOST" ELSE "OPEN"

(* With no half-time score, a finished match with a goal counts as won.    *)
ScoredAfterHalf(m, side) ==
    /\ m.score[side] # Unknown
    /\ IF m.ht[side] # Unknown
       THEN m.score[side] > m.ht[side]
       ELSE m.status \in Finished /\ m.score[side] > 0

SecondHalfOutcome(m, side) ==
    IF ScoredAfterHalf(m, side) THEN "WON"
    ELSE IF m.status \in Finished THEN "LOST" ELSE "OPEN"

Undecided(m, bet) ==
    CASE bet.market = Half1 -> FirstHalfOutcome(m, bet.side)
      [] bet.market = Full  -> FullOutcome(m, bet.side)
      [] bet.market = Half2 -> SecondHalfOutcome(m, bet.side)
      [] OTHER              -> "OPEN"

(* The coupons of the history: a match called off loses the bet.           *)
ResolveOutcome(m, bet) ==
    IF m.status \in Voided THEN "LOST" ELSE Undecided(m, bet)

(* Simulated bets: a match called off is judged as one still going on, and *)
(* what that leaves open is refunded.                                      *)
ResolveSettlement(m, bet) ==
    IF m.status \in Voided
    THEN LET known == Undecided([m EXCEPT !.status = "2H"], bet)
         IN  IF known = "OPEN" THEN "VOID" ELSE known
    ELSE Undecided(m, bet)

-----------------------------------------------------------------------------
(* Which bets a match calls for.  A configuration is a record              *)
(*   [firstHalfRules, secondHalfRule, modifiers, odds, edge]               *)
(* with rules [maxElapsed, minShots], the threshold modifiers by state of  *)
(* the score, and the least acceptable odd and the edge by market.         *)
Other(side) == IF side = "home" THEN "away" ELSE "home"

ScoreState(m, side) ==
    LET us == m.score[side]  them == m.score[Other(side)]
    IN  IF us = Unknown \/ them = Unknown \/ us = them THEN "drawing"
        ELSE IF us > them THEN "leading" ELSE "trailing"

(* The first rule that the minute and the shots satisfy, 0 when none does. *)
MatchedRule(rules, elapsed, shots, offset) ==
    SelectInSeq(rules, LAMBDA r : elapsed < r.maxElapsed /\ shots >= r.minShots + offset)

RuleMatch(config, market, side, threshold) ==
    [market |-> market, side |-> side, minOdd |-> config.odds[market],
     edge |-> config.edge[market], threshold |-> threshold]

Window(rules) == LET longest(m, r) == IF r.maxElapsed > m THEN r.maxElapsed ELSE m
                 IN  FoldLeft(longest, 0, rules)

(* One match of the rules per market the half opens and side that presses. *)
RuleMatches(config, rules, markets, m, shots) ==
    LET offset(side) == config.modifiers[ScoreState(m, side)]
        rule(side)   == MatchedRule(rules, m.elapsed, shots[side], offset(side))
        pressing     == {side \in Sides : shots[side] # Unknown /\ rule(side) > 0}
    IN  {RuleMatch(config, mk, side, rules[rule(side)].minShots + offset(side)) :
             mk \in markets, side \in pressing}

EvaluateFirstHalf(m, config) ==
    IF m.status \in FirstHalf /\ m.elapsed \in 1 .. Window(config.firstHalfRules) - 1
    THEN RuleMatches(config, config.firstHalfRules, {Half1, Full}, m, m.signal)
    ELSE {}

(* Only what was added since half time counts, never less than nothing.    *)
SinceHalf(m) ==
    [side \in Sides |->
        LET base == IF m.htSignal[side] = Unknown THEN 0 ELSE m.htSignal[side]
        IN  IF m.signal[side] = Unknown THEN Unknown
            ELSE IF m.signal[side] > base THEN m.signal[side] - base ELSE 0]

EvaluateSecondHalf(m, config) ==
    IF m.status \in SecondHalf /\ m.elapsed \in 45 .. config.secondHalfRule.maxElapsed - 1
    THEN RuleMatches(config, <<config.secondHalfRule>>, {Half2}, m, SinceHalf(m))
    ELSE {}

EvaluateRules(m, config) == EvaluateFirstHalf(m, config) \cup EvaluateSecondHalf(m, config)
=============================================================================
