---------------------------- MODULE ProviderFeed ----------------------------
(***************************************************************************)
(* What the program makes of the answers of a provider before it stores    *)
(* them: events and statistics (api-football.client.ts,                    *)
(* fixtures-ingestion.service.ts, history-import.service.ts), quotes       *)
(* (apifootball-odds.mapper.ts, odds-ingestion.service.ts, odds-math.ts).  *)
(* Pure functions of an answer, given as the provider hands it out:        *)
(*   incidents   a set of [kind, side, minute], one a minute and side;     *)
(*   statistics  what each type of statistic says of each side;            *)
(*   quotes      see the entries below.                                    *)
(* Odds are in thousandths, probabilities per mille.                       *)
(***************************************************************************)
EXTENDS MatchRules

CONSTANTS
    Provider,    \* API_FOOTBALL_PROVIDER: "apifootball" or "apisports"
    SignalKind   \* the statistic the rules are configured to look at

ASSUME ProviderAssumption == Provider \in {"apifootball", "apisports"}

Null   == "NULL"
NoBook == 0

-----------------------------------------------------------------------------
(* Events *)

EventType == [goal |-> "Goal", card |-> "Card", substitution |-> "Substitution"]

NormalizeEvents(incidents) ==
    {[team |-> i.side, minute |-> i.minute, eventType |-> EventType[i.kind]] : i \in incidents}

(* External: api-sports hands its events out under another field name.     *)
ApiSportsEvents(incidents) ==
    {[team |-> i.side, minute |-> i.minute, type |-> EventType[i.kind]] : i \in incidents}

FetchEvents(incidents) ==
    IF Provider = "apifootball" THEN NormalizeEvents(incidents) ELSE ApiSportsEvents(incidents)

(* The row of an event takes its type from the field api-sports uses: the  *)
(* normalized events of the other provider are stored without one.         *)
EventRow(e) == [team |-> e.team, minute |-> e.minute,
                eventType |-> IF "type" \in DOMAIN e THEN e.type ELSE Null]

EventRows(events) == {EventRow(e) : e \in events}

(* The history import types the goals itself, and keeps nothing else.      *)
GoalRow(side, minute) == [team |-> side, minute |-> minute, eventType |-> "Goal"]

GoalRows(incidents) == {GoalRow(i.side, i.minute) : i \in {j \in incidents : j.kind = "goal"}}

ImportedApiSportsGoals(incidents) ==
    {EventRow(e) : e \in {f \in ApiSportsEvents(incidents) : f.type = "Goal"}}

ImportedEvents(incidents) ==
    IF Provider = "apifootball" THEN GoalRows(incidents) ELSE ImportedApiSportsGoals(incidents)

-----------------------------------------------------------------------------
(* Statistics *)

(* One entry per side, none when there is no statistic at all.             *)
TeamStatsEntries(statistics) ==
    IF DOMAIN statistics = {} THEN {}
    ELSE {[team_id |-> s, stats |-> [type \in DOMAIN statistics |-> statistics[type][s]]] : s \in Sides}

(* External: api-sports names the team in another field.                   *)
ApiSportsStatistics(statistics) ==
    {[team |-> e.team_id, stats |-> e.stats] : e \in TeamStatsEntries(statistics)}

FetchStatistics(statistics) ==
    IF Provider = "apifootball" THEN TeamStatsEntries(statistics) ELSE ApiSportsStatistics(statistics)

(* Rows of statistics.  The import looks for the field of apifootball only.*)
StatsRow(at, half, elapsed, team, e) ==
    [at |-> at, half |-> half, elapsed |-> elapsed, team |-> team, stats |-> e.stats]

TeamOf(e) == IF "team" \in DOMAIN e THEN e.team ELSE e.team_id

StatsRows(at, elapsed, entries) ==
    {StatsRow(at, Null, elapsed, TeamOf(e), e) : e \in entries}

ImportedTeamOf(e) == IF "team_id" \in DOMAIN e THEN e.team_id ELSE Null

ImportedStatsRows(at, half, elapsed, entries) ==
    {StatsRow(at, half, elapsed, ImportedTeamOf(e), e) : e \in entries}

(* A statistic that is not there counts for nothing.                       *)
StatValue(stats, type) == IF type \in DOMAIN stats THEN stats[type] ELSE 0

(* The number of shots alone may be unknown.                               *)
TotalShots(stats) ==
    IF "total shots" \in DOMAIN stats THEN stats["total shots"]
    ELSE IF "on target" \in DOMAIN stats THEN stats["on target"] + StatValue(stats, "off target")
    ELSE Unknown

(* In hundredths.                                                          *)
PressureIndex(stats) ==
      140 * StatValue(stats, "dangerous attacks") + 200 * StatValue(stats, "on target")
    + 120 * StatValue(stats, "corners") + 15 * StatValue(stats, "attacks")
    - 40 * StatValue(stats, "off target")

SignalOf(stats) ==
    CASE SignalKind = "totalShots"    -> TotalShots(stats)
      [] SignalKind = "shotsOnTarget" -> StatValue(stats, "on target")
      [] OTHER                        -> PressureIndex(stats)

-----------------------------------------------------------------------------
(* Quotes *)

(* The markets and their outcomes.  OU_2.5 and AH_0 stand for every line.  *)
Outcomes ==
    [market \in {"1X2", "DOUBLE_CHANCE", "OU_2.5", "AH_0", "BTTS"} |->
        CASE market = "1X2"           -> {"HOME", "DRAW", "AWAY"}
          [] market = "DOUBLE_CHANCE" -> {"HOME_DRAW", "HOME_AWAY", "DRAW_AWAY"}
          [] market = "OU_2.5"        -> {"OVER", "UNDER"}
          [] market = "AH_0"          -> {"HOME", "AWAY"}
          [] OTHER                    -> {"YES", "NO"}]

TeamGoalMarkets == {"TEAM_GOAL_1H", "TEAM_GOAL_2H", "TEAM_GOALS_FT"}

(* Exactly one outcome of such a market comes true.                        *)
IsPartition(market) == market \notin {"DOUBLE_CHANCE"} \cup TeamGoalMarkets

ExpectedOutcomeCount(market) ==
    CASE market = "1X2"                        -> 3
      [] market \in {"BTTS", "OU_2.5", "AH_0"} -> 2
      [] OTHER                                 -> 0

IsPriced(odd) == odd > 1000

ImpliedProbability(odd) == IF IsPriced(odd) THEN 1000000 \div odd ELSE 0

Overround(odds) ==
    LET implied == [i \in DOMAIN odds |-> ImpliedProbability(odds[i])]
    IN  MapThenSumSet(LAMBDA i : implied[i], DOMAIN odds)

(* The fair probability of each odd: its share of the overround.           *)
RemoveMargin(odds) ==
    [i \in DOMAIN odds |-> IF Overround(odds) > 0
                           THEN (1000 * ImpliedProbability(odds[i])) \div Overround(odds)
                           ELSE 0]

(* An odds_snapshots row; the three times of a row are one here.           *)
OddsRow(at, book, market, outcome, fair) ==
    [at |-> at, book |-> book, market |-> market, selection |-> outcome.selection,
     odd |-> outcome.odd, available |-> outcome.available, fair |-> fair]

(* Mutant: the number of outcomes is not looked at.                        *)
MarketRowsOfAny(at, book, market, outcomes) ==
    LET fair == RemoveMargin([i \in DOMAIN outcomes |-> outcomes[i].odd])
    IN  {OddsRow(at, book, market, outcomes[i], fair[i]) : i \in DOMAIN outcomes}

(* The rows of one market of one bookmaker; outcomes is a function, of any *)
(* domain, to [selection, odd, available].  A partition that is not        *)
(* complete is dropped: its overround would be wrong.                      *)
MarketRows(at, book, market, outcomes) ==
    LET fair == RemoveMargin([i \in DOMAIN outcomes |-> outcomes[i].odd])
    IN  IF ~IsPartition(market)
        THEN {OddsRow(at, book, market, outcomes[i], Unknown) : i \in DOMAIN outcomes}
        ELSE IF Cardinality(DOMAIN outcomes) = ExpectedOutcomeCount(market)
        THEN {OddsRow(at, book, market, outcomes[i], fair[i]) : i \in DOMAIN outcomes}
        ELSE {}

(* A flat entry of apifootball: [book, live, odds], where odds gives some  *)
(* of the fields <<market, outcome>> an odd.  Unpriced fields are left out.*)
FlatOutcomes(entry, market) ==
    LET fields == {f \in DOMAIN entry.odds : f[1] = market /\ IsPriced(entry.odds[f])}
    IN  [f \in fields |-> [selection |-> f[2], odd |-> entry.odds[f], available |-> TRUE]]

FlatRows(at, entry) ==
    UNION {MarketRows(at, entry.book, market, FlatOutcomes(entry, market)) :
               market \in DOMAIN Outcomes}

(* A live odd: [book, market, side, odd, suspended], under an entry that   *)
(* may name the bookmaker in its stead.  Markets that no rule bets on are  *)
(* ignored.                                                                *)
BookOf(entry, o) == IF o.book # NoBook THEN o.book ELSE entry.book

LiveSelection(market, side) ==
    LET team == IF side = "home" THEN "HOME" ELSE "AWAY"
    IN  IF market = "TEAM_GOALS_FT" THEN <<team, "OVER_0.5">> ELSE <<team, "YES">>

IsMapped(entry, o) == BookOf(entry, o) # NoBook /\ IsPriced(o.odd) /\ o.market \in TeamGoalMarkets

LiveIndices(entry) == {i \in DOMAIN entry.live : IsMapped(entry, entry.live[i])}

LiveOutcomes(entry, book, market) ==
    LET chosen == {i \in LiveIndices(entry) : /\ BookOf(entry, entry.live[i]) = book
                                              /\ entry.live[i].market = market}
    IN  [i \in chosen |-> [selection |-> LiveSelection(market, entry.live[i].side),
                           odd |-> entry.live[i].odd, available |-> ~entry.live[i].suspended]]

LiveRows(at, entry) ==
    LET groups == {<<BookOf(entry, entry.live[i]), entry.live[i].market>> : i \in LiveIndices(entry)}
    IN  UNION {MarketRows(at, g[1], g[2], LiveOutcomes(entry, g[1], g[2])) : g \in groups}

ApifootballRows(at, answer) ==
    UNION {IF LiveIndices(entry) # {} THEN LiveRows(at, entry)
           ELSE IF entry.book # NoBook THEN FlatRows(at, entry) ELSE {} : entry \in answer}

(* A bet of api-sports: [name, values], each value [label, odd, suspended].*)
(* Every bet whose name contains "Over/Under" is about the same market.    *)
BetMarket(name) ==
    CASE name \in {"Match Winner", "1x2"}                              -> "1X2"
      [] name = "Both Teams Score"                                     -> "BTTS"
      [] name \in {"Goals Over/Under", "Goals Over/Under First Half"} -> "OU_2.5"
      [] OTHER                                                         -> Null

IsBetOn(market, name, value) ==
    BetMarket(name) = market /\ value.label \in Outcomes[market] /\ IsPriced(value.odd)

GroupedOutcomes(bets, market) ==
    LET chosen == UNION {{<<i, j>> : j \in {k \in DOMAIN bets[i].values :
                                               IsBetOn(market, bets[i].name, bets[i].values[k])}} :
                             i \in DOMAIN bets}
        value(c) == bets[c[1]].values[c[2]]
    IN  [c \in chosen |-> [selection |-> value(c).label, odd |-> value(c).odd,
                           available |-> ~value(c).suspended]]

(* An entry of api-sports: the bookmakers, each [book, bets].              *)
ApiSportsRows(at, answer) ==
    UNION {MarketRows(at, b.book, market, GroupedOutcomes(b.bets, market)) :
               b \in {c \in UNION answer : c.book # NoBook}, market \in {"1X2", "BTTS", "OU_2.5"}}

QuoteRows(at, answer) ==
    IF Provider = "apifootball" THEN ApifootballRows(at, answer) ELSE ApiSportsRows(at, answer)
=============================================================================
