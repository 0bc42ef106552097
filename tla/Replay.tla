------------------------------- MODULE Replay -------------------------------
(***************************************************************************)
(* What the program records of a match and what a replay of it decides.    *)
(*                                                                         *)
(* The recording is made by the synchronisation of the match, that of its  *)
(* odds and the history import; its calls to the provider may fail half    *)
(* way.  The replay (backtest-engine.service.ts) runs the rules over it    *)
(* tick by tick: it is a function of the rows, of a strategy and of a      *)
(* window, and decides at each tick from what was known by then.           *)
(***************************************************************************)
EXTENDS ProviderFeed

CONSTANTS
    Programme,       \* status and minute the provider shows at each instant
    Scorers,         \* bound: the sides that shoot and score
    StatTypes,       \* the statistics the provider gives
    LiveAnswers,     \* bound: its answers about odds during the match
    PrematchAnswers, \* bound: its answers before
    HalfTimeAt,      \* time of the imported statistics of the first half
    FullTimeAt,      \* and of the match: counted from a date without a time
    Config,          \* configuration of the rules
    ImportTimes,     \* bound: when the history is imported
    MaxFailures,     \* SCHEDULER_MAX_CONSECUTIVE_FAILURES
    PauseFor,        \* SCHEDULER_PAUSE_DURATION_MS
    MaxSyncs, MaxAnswers, MaxImports   \* bounds

ASSUME ProgrammeAssumption ==
    DOMAIN Programme \subseteq Int /\ \E t \in DOMAIN Programme : \A u \in DOMAIN Programme : t <= u
ASSUME BoundsAssumption == MaxSyncs \in Nat /\ MaxAnswers \in Nat /\ MaxImports \in Nat

VARIABLES
    clock,
    match,      \* the match as the provider knows it
    row,        \* its fixtures row
    events,     \* its fixture_events rows
    snapshots,  \* its fixture_stats_snapshots rows
    quotes,     \* its odds_snapshots rows
    oddsJob,    \* in memory: the breaker of the odds synchronisation
    left        \* what the bounds still allow

recordVars == <<clock, match, row, events, snapshots, quotes, oddsJob, left>>

Times == DOMAIN Programme
Now   == Programme[clock]

LiveStatuses == {"LIVE", "HT"}

Empty == [type \in {} |-> 0]

Card == [kind |-> "card", side |-> "home", minute |-> 1]

InitReplay ==
    /\ clock = CHOOSE t \in Times : \A u \in Times : t <= u
    /\ match = [score |-> [s \in Sides |-> 0], ht |-> [s \in Sides |-> Unknown],
                shots |-> [s \in Sides |-> 0], htShots |-> [s \in Sides |-> Unknown],
                incidents |-> {Card}]
    /\ row = [status |-> "NS", score |-> [s \in Sides |-> Unknown], ht |-> [s \in Sides |-> Unknown]]
    /\ events = {}
    /\ snapshots = {}
    /\ quotes = {}
    /\ oddsJob = [phase \in {"prematch", "live"} |-> [failures |-> 0, until |-> Unknown]]
    /\ left = [syncs |-> MaxSyncs, answers |-> MaxAnswers, imports |-> MaxImports]

-----------------------------------------------------------------------------
(* The match *)

Scores(s, minute) ==
    [match EXCEPT !.score[s] = @ + 1, !.shots[s] = @ + 1,
                  !.incidents = @ \cup {[kind |-> "goal", side |-> s, minute |-> minute]}]

(* External: time passes; a side shoots, or scores, while the ball rolls.  *)
PlayOn ==
    /\ clock + 1 \in Times
    /\ clock' = clock + 1
    /\ LET next == Programme[clock + 1]
       IN  CASE next.status = "LIVE" ->
                  \/ match' = match
                  \/ \E s \in Scorers : \/ match' = [match EXCEPT !.shots[s] = @ + 1]
                                        \/ match' = Scores(s, next.elapsed)
             [] next.status = "HT" ->
                  match' = [match EXCEPT !.ht = match.score, !.htShots = match.shots]
             [] OTHER -> match' = match
    /\ UNCHANGED <<row, events, snapshots, quotes, oddsJob, left>>

(* External: what the provider says of it.                                 *)
StatisticsOf(shots) ==
    [type \in StatTypes |-> IF type \in {"total shots", "on target"} THEN shots
                            ELSE [s \in Sides |-> 0]]

Statistics     == IF Now.status = "NS" THEN Empty ELSE StatisticsOf(match.shots)
HalfStatistics == IF match.htShots["home"] = Unknown THEN Empty ELSE StatisticsOf(match.htShots)

(* normalizeFixturePayload: the row of a match.                            *)
FixtureRow == [status |-> Now.status, score |-> match.score, ht |-> match.ht]

-----------------------------------------------------------------------------
(* The recording *)

(* A match that has ended is not in the live list.  The row comes first;   *)
(* then events are deleted, then replaced, then statistics added, up to    *)
(* where a call fails or its answer is no list.                            *)
SyncMatch ==
    /\ left.syncs > 0
    /\ Now.status \in LiveStatuses
    /\ \A s \in snapshots : s.at # clock
    /\ row' = FixtureRow
    /\ \/ UNCHANGED <<events, snapshots>>
       \/ events' = {} /\ UNCHANGED snapshots
       \/ /\ events' = EventRows(FetchEvents(match.incidents))
          /\ \E stats \in {{}, FetchStatistics(Statistics)} :
                 snapshots' = snapshots \cup StatsRows(clock, Now.elapsed, stats)
    /\ left' = [left EXCEPT !.syncs = @ - 1]
    /\ UNCHANGED <<clock, match, quotes, oddsJob>>

(* The scheduler of the odds keeps a circuit breaker for each phase: after *)
(* MaxFailures failed syncs in a row no tick syncs before the pause is     *)
(* over, and the first tick that finds it over only resumes.               *)
Phases == {"prematch", "live"}

PhaseStatuses == [phase \in Phases |-> IF phase = "prematch" THEN {"NS"} ELSE LiveStatuses]

ActiveJob == [failures |-> 0, until |-> Unknown]

IsPaused(phase) == oddsJob[phase].until # Unknown

FailedJob(job) ==
    [failures |-> job.failures + 1,
     until    |-> IF job.failures + 1 >= MaxFailures THEN clock + PauseFor ELSE job.until]

ResumeOdds(phase) ==
    /\ IsPaused(phase) /\ clock >= oddsJob[phase].until
    /\ oddsJob' = [oddsJob EXCEPT ![phase] = ActiveJob]
    /\ UNCHANGED <<clock, match, row, events, snapshots, quotes, left>>

(* The call fails, or no row can be written.                               *)
OddsFail(phase) ==
    /\ ~IsPaused(phase) /\ left.answers > 0
    /\ row.status \in PhaseStatuses[phase]
    /\ oddsJob' = [oddsJob EXCEPT ![phase] = FailedJob(@)]
    /\ left' = [left EXCEPT !.answers = @ - 1]
    /\ UNCHANGED <<clock, match, row, events, snapshots, quotes>>

(* The odds of the match, if its row is of the phase.                      *)
SyncOdds(phase) ==
    /\ ~IsPaused(phase) /\ left.answers > 0
    /\ \A q \in quotes : q.at # clock
    /\ IF row.status \in PhaseStatuses[phase]
       THEN /\ \E answer \in (IF phase = "prematch" THEN PrematchAnswers ELSE LiveAnswers) :
                   quotes' = quotes \cup QuoteRows(clock, answer)
            /\ left' = [left EXCEPT !.answers = @ - 1]
       ELSE UNCHANGED <<quotes, left>>
    /\ oddsJob' = [oddsJob EXCEPT ![phase] = ActiveJob]
    /\ UNCHANGED <<clock, match, row, events, snapshots>>

(* The statistics of the first half and of the match.                     *)
ImportedSnapshots ==
         ImportedStatsRows(HalfTimeAt, "1", 45, FetchStatistics(HalfStatistics))
    \cup ImportedStatsRows(FullTimeAt, "2", 90, FetchStatistics(Statistics))

(* buildWindows: an import asks the provider for at most max days at once. *)
ImportWindows(from, to, max) ==
    {[from |-> d, to |-> IF d + max - 1 < to THEN d + max - 1 ELSE to] :
        d \in {e \in from .. to : (e - from) % max = 0}}

(* persistMatch: all that was recorded live of the match but its quotes is *)
(* deleted and replaced by two statistics and the goals, table by table,   *)
(* up to where a query fails or the script is stopped.                     *)
ImportHistory ==
    /\ left.imports > 0 /\ clock \in ImportTimes
    /\ row' = FixtureRow
    /\ \/ snapshots' \in {snapshots, {}} /\ events' = events
       \/ /\ snapshots' = ImportedSnapshots
          /\ events' \in {events, {}, ImportedEvents(match.incidents)}
    /\ left' = [left EXCEPT !.imports = @ - 1]
    /\ UNCHANGED <<clock, match, quotes, oddsJob>>

OddsTick(phase) == ResumeOdds(phase) \/ OddsFail(phase) \/ SyncOdds(phase)

-----------------------------------------------------------------------------
(* The replay.  A strategy is a record [markets, minEdge, latency,         *)
(* maxQuoteAge, book, staking, amount, bankroll], a window [from, to].     *)

Seen(w, t) == {s \in snapshots : s.at \in w.from .. w.to /\ s.at <= t}

Ticks(w) == {s.at : s \in {r \in snapshots : r.at \in w.from .. w.to}}

(* The last known one of dated values.                                     *)
LastKnown(values) ==
    LET known == {v \in values : v.value # Unknown}
    IN  IF known = {} THEN Unknown
        ELSE (CHOOSE v \in known : \A u \in known : u.at <= v.at).value

ElapsedAt(w, t) == LastKnown({[at |-> s.at, value |-> s.elapsed] : s \in Seen(w, t)})

SignalsIn(rows) == {[at |-> s.at, value |-> SignalOf(s.stats)] : s \in rows}

SignalAt(w, t, side) == LastKnown(SignalsIn({s \in Seen(w, t) : s.team = side}))

(* Only what was recorded with a minute up to 45 is of the first half.     *)
HtSignalAt(w, t, side) ==
    LastKnown(SignalsIn({s \in Seen(w, t) : s.team = side /\ s.elapsed \in 0 .. 45}))

ScoreAt(elapsed, side) ==
    Cardinality({e \in events : /\ e.eventType = "Goal" /\ e.team = side
                                /\ e.minute # Unknown /\ e.minute <= elapsed})

(* The match as the rules see it at a tick: always LIVE.                   *)
TickMatch(w, t) ==
    [status   |-> "LIVE",
     elapsed  |-> ElapsedAt(w, t),
     score    |-> [s \in Sides |-> ScoreAt(ElapsedAt(w, t), s)],
     signal   |-> [s \in Sides |-> SignalAt(w, t, s)],
     htSignal |-> [s \in Sides |-> HtSignalAt(w, t, s)]]

Fired(st, w, t) ==
    IF ElapsedAt(w, t) = Unknown THEN {}
    ELSE {m \in EvaluateRules(TickMatch(w, t), Config) :
              m.market \in st.markets /\ m.edge >= st.minEdge}

(* The quoted market and selection of a bet.                               *)
TargetMarket == [m \in Markets |-> CASE m = Half1 -> "TEAM_GOAL_1H"
                                     [] m = Half2 -> "TEAM_GOAL_2H"
                                     [] OTHER     -> "TEAM_GOALS_FT"]

OnTarget(q, m) == /\ q.market = TargetMarket[m.market]
                  /\ q.selection = LiveSelection(q.market, m.side)

NoQuote == [odd |-> 0, book |-> NoBook, at |-> 0]

(* Mutant: a quote received later will do.                                 *)
CandidatesOfAnyTime(st, m, book, t) ==
    {q \in quotes : /\ OnTarget(q, m) /\ q.available
                    /\ book = NoBook \/ q.book = book
                    /\ t - q.at <= st.maxQuoteAge}

(* Quotes are stored with the times they were observed, received and       *)
(* captured all equal (odds-ingestion.service.ts:317, :364), so that one   *)
(* time stands for the three the code compares.                            *)
Candidates(st, m, book, t) ==
    {q \in quotes : /\ OnTarget(q, m) /\ q.available
                    /\ book = NoBook \/ q.book = book
                    /\ q.at <= t /\ t - q.at <= st.maxQuoteAge}

(* selectLatest: the latest, then by bookmaker.                            *)
QuoteAt(st, m, book, t) ==
    LET found == Candidates(st, m, book, t)
        best  == CHOOSE q \in found : \A p \in found : \/ p.at < q.at
                                                       \/ p.at = q.at /\ q.book <= p.book
    IN  IF found = {} THEN NoQuote ELSE [odd |-> best.odd, book |-> best.book, at |-> best.at]

(* How far a signal gets at a tick: decided at the quote of the tick, bet  *)
(* at the quote of the same bookmaker after the latency.                   *)
StageRank == [stage \in {"NO_QUOTE_AT_DECISION", "BELOW_MIN_ODD_AT_DECISION", "NO_QUOTE_AT_EXECUTION",
                         "BELOW_MIN_ODD_AT_EXECUTION", "PLACED"} |->
                 CASE stage = "NO_QUOTE_AT_DECISION"       -> 0
                   [] stage = "BELOW_MIN_ODD_AT_DECISION"  -> 1
                   [] stage = "NO_QUOTE_AT_EXECUTION"      -> 2
                   [] stage = "BELOW_MIN_ODD_AT_EXECUTION" -> 3
                   [] OTHER                                -> 4]

Verdict(st, t, m) ==
    LET decision  == QuoteAt(st, m, st.book, t)
        execution == QuoteAt(st, m, decision.book, t + st.latency)
        stage == IF decision = NoQuote THEN "NO_QUOTE_AT_DECISION"
                 ELSE IF decision.odd < m.minOdd THEN "BELOW_MIN_ODD_AT_DECISION"
                 ELSE IF execution = NoQuote THEN "NO_QUOTE_AT_EXECUTION"
                 ELSE IF execution.odd < m.minOdd THEN "BELOW_MIN_ODD_AT_EXECUTION"
                 ELSE "PLACED"
    IN  [bet |-> [market |-> m.market, side |-> m.side], at |-> t, stage |-> stage,
         odd |-> execution.odd, quoted |-> decision.odd, edge |-> m.edge]

Verdicts(st, w) == UNION {{Verdict(st, t, m) : m \in Fired(st, w, t)} : t \in Ticks(w)}

(* Every bet is placed at most once, at the first tick that gets that far. *)
PlacedVerdicts(st, w) ==
    LET placed == {v \in Verdicts(st, w) : v.stage = "PLACED"}
    IN  {v \in placed : \A u \in placed : u.bet = v.bet => v.at <= u.at}

(* The result is that of the row, whenever it was stored.                  *)
SettledAs(bet) == LET known == ResolveSettlement(row, bet)
                  IN  IF known = "OPEN" THEN "NO_RESULT" ELSE known

ReplayedBets(st, w) ==
    {[bet |-> v.bet, at |-> v.at, odd |-> v.odd, quoted |-> v.quoted, edge |-> v.edge,
      outcome |-> SettledAs(v.bet)] : v \in PlacedVerdicts(st, w)}

(* One record a bet: first tick it fired at, furthest stage it got to.     *)
ReplayedSignals(st, w) ==
    LET all    == Verdicts(st, w)
        of(b)  == {v \in all : v.bet = b}
        first(b) == CHOOSE v \in of(b) : \A u \in of(b) : v.at <= u.at
        best(b)  == CHOOSE v \in of(b) : \A u \in of(b) : StageRank[u.stage] <= StageRank[v.stage]
    IN  {[bet |-> b, at |-> first(b).at, stage |-> best(b).stage] : b \in {v.bet : v \in all}}

(* What the replay read, for the hash that goes with its result.           *)
Dataset(st, w) ==
    LET rows == {s \in snapshots : s.at \in w.from .. w.to}
    IN  IF rows = {} THEN {}
        ELSE {[snapshots |-> rows, row |-> row,
               goals  |-> {<<e.team, e.minute>> : e \in {f \in events : f.eventType = "Goal"}},
               quotes |-> {q \in quotes : /\ q.available
                                           /\ q.at \in w.from - st.maxQuoteAge .. w.to + st.latency}]}

-----------------------------------------------------------------------------
(* What a replay amounts to (kpis-calculator.ts); money in thousandths.    *)

Chronological(bets) == SetToSortSeq(bets, LAMBDA a, b : a.at < b.at)

AtMost(a, b)  == IF a < b THEN a ELSE b
AtLeast(a, b) == IF a > b THEN a ELSE b

(* Never more than what is left.                                           *)
StakeFor(st, bankroll) ==
    LET requested == IF st.staking = "PERCENT_BANKROLL" THEN (bankroll * st.amount) \div 100
                     ELSE st.amount
    IN  AtLeast(0, AtMost(requested, bankroll))

ProfitOf(bet, stake) ==
    CASE bet.outcome = "WON"  -> ((bet.odd - 1000) * stake) \div 1000
      [] bet.outcome = "LOST" -> -stake
      [] OTHER                -> 0

(* One more bet, with its stake; refunds and bets without result count     *)
(* neither in what was staked nor in the profit.                           *)
Stake(st, acc, bet) ==
    LET stake  == StakeFor(st, acc.bankroll)
        after  == acc.bankroll + ProfitOf(bet, stake)
        peak   == AtLeast(acc.peak, after)
    IN  [bankroll |-> after, peak |-> peak,
         drawdown |-> AtLeast(acc.drawdown, IF peak > 0 THEN ((peak - after) * 1000) \div peak ELSE 0),
         staked   |-> acc.staked + (IF bet.outcome \in {"WON", "LOST"} THEN stake ELSE 0),
         bets     |-> Append(acc.bets, [outcome |-> bet.outcome, stake |-> stake,
                                        profit |-> ProfitOf(bet, stake)])]

StakedInTurn(st, bets) ==
    LET start == [bankroll |-> AtLeast(0, st.bankroll), peak |-> AtLeast(0, st.bankroll),
                  drawdown |-> 0, staked |-> 0, bets |-> <<>>]
    IN  FoldLeft(LAMBDA acc, bet : Stake(st, acc, bet), start, bets)

Staked(st, bets) == StakedInTurn(st, Chronological(bets))

(* A bankroll that is used up skips the bets that follow.                  *)
Kpis(st, bets) ==
    LET end    == Staked(st, bets)
        placed == SelectSeq(end.bets, LAMBDA b : b.stake > 0)
        count(outcome) == Len(SelectSeq(placed, LAMBDA b : b.outcome = outcome))
    IN  [bets |-> Len(placed), won |-> count("WON"), lost |-> count("LOST"),
         void |-> count("VOID"), noResult |-> count("NO_RESULT"),
         skipped |-> Len(end.bets) - Len(placed), staked |-> end.staked,
         profit |-> end.bankroll - AtLeast(0, st.bankroll),
         bankroll |-> end.bankroll, drawdown |-> end.drawdown]

(* Signals by stage; the share of them, in percent, that had both quotes.  *)
Summary(signals) ==
    LET count(stage) == Cardinality({s \in signals : s.stage = stage})
        n       == Cardinality(signals)
        covered == n - count("NO_QUOTE_AT_DECISION") - count("NO_QUOTE_AT_EXECUTION")
    IN  [signals |-> n, placed |-> count("PLACED"),
         coverage |-> IF n = 0 THEN Unknown ELSE (covered * 100) \div n]
=============================================================================
