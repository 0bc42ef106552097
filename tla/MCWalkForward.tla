--------------------------- MODULE MCWalkForward ---------------------------
(* Small instances of WalkForward for TLC.                                 *)
EXTENDS WalkForward, BaseRates

At(status, elapsed) == [status |-> status, elapsed |-> elapsed]

(* Imported statistics come at 2 and 4, long before the match is played.   *)
ShortMatch ==
    [t \in 6 .. 10 |->
        CASE t = 6  -> At("NS", Unknown)
          [] t = 7  -> At("LIVE", 30)
          [] t = 8  -> At("HT", Unknown)
          [] t = 9  -> At("LIVE", 60)
          [] OTHER  -> At("FT", Unknown)]

Rules ==
    [firstHalfRules |-> <<[maxElapsed |-> 45, minShots |-> 1]>>,
     secondHalfRule |-> [maxElapsed |-> 75, minShots |-> 1],
     modifiers |-> [drawing |-> 0, leading |-> 1, trailing |-> 0],
     odds |-> [m \in Markets |-> 1500],
     edge |-> [m \in Markets |-> 10]]

Flat == [markets |-> {Full, Half2}, minEdge |-> 5, latency |-> 1, maxQuoteAge |-> 1, book |-> NoBook,
         staking |-> "FLAT", amount |-> 600, bankroll |-> 1000]

(* An odd of the home side, under an entry of bookmaker 1.                 *)
Odd(market, odd, suspended) ==
    [book |-> NoBook, market |-> market, side |-> "home", odd |-> odd, suspended |-> suspended]

Entry(live, odds) == [book |-> 1, live |-> live, odds |-> odds]

Nothing == [f \in {} |-> 0]

Live == {{Entry(<<Odd("TEAM_GOALS_FT", 2000, FALSE), Odd("TEAM_GOAL_2H", 1600, FALSE)>>, Nothing)},
         {Entry(<<Odd("TEAM_GOALS_FT", 1200, FALSE), Odd("TEAM_GOAL_2H", 1800, TRUE),
                  Odd("other", 1900, FALSE)>>, Nothing)}}

(* Match winner, one price missing or not; an over without its under.      *)
Winner(draw) == [f \in {<<"1X2", "HOME">>, <<"1X2", "DRAW">>, <<"1X2", "AWAY">>, <<"OU_2.5", "OVER">>} |->
                    IF f[2] = "DRAW" THEN draw ELSE 2500]

Prematch == {{Entry(<<>>, Winner(3300))}, {Entry(<<>>, Winner(0))}}

Request(latency) ==
    [from |-> 6, to |-> 11, train |-> 1, validation |-> 0, test |-> 2, step |-> 2,
     latency |-> latency, maxQuoteAge |-> 1, book |-> NoBook]

SlowBets == {Request(2)}

(* What the theorem about whole markets asks of the answers.               *)
ASSUME OrdinaryAnswers == AnswersAreOrdinary

-----------------------------------------------------------------------------
(* The pure parts against what they are for, over bounded inputs.          *)

ASSUME WindowsPartition ==
    \A from \in 0 .. 3, to \in 0 .. 12, max \in 1 .. 5 :
        CoverOnce(ImportWindows(from, to, max), from, to, max)

Asked == [from : {0}, to : 0 .. 8, train : 1 .. 2, validation : 0 .. 1, test : 1 .. 2, step : 1 .. 3]

ASSUME FoldsAreOutOfSample == \A p \in Asked : IsOutOfSample(FoldsOf(p))

Bets == [at : {1}, odd : {1500, 3000}, outcome : {"WON", "LOST", "VOID"}]

Strategies == {[Flat EXCEPT !.staking = s, !.amount = a] : s \in {"FLAT", "PERCENT_BANKROLL"}, a \in {40, 60}}

(* Every bet is staked or skipped.                                         *)
ASSUME BankrollIsNeverOverdrawn ==
    \A st \in Strategies, a \in Bets, b \in Bets, c \in Bets :
        LET numbered == {[a EXCEPT !.at = 1], [b EXCEPT !.at = 2], [c EXCEPT !.at = 3]}
            small    == [st EXCEPT !.bankroll = 100]
        IN  /\ IsSolvent(small, Staked(small, numbered))
            /\ Kpis(small, numbered).bets + Kpis(small, numbered).skipped = 3

Value(label) == [label |-> label, odd |-> 1900, suspended |-> FALSE]

OverUnder(name) == [name |-> name, values |-> <<Value("OVER"), Value("UNDER")>>]

(* The bets of api-sports on all goals and on those of the first half,     *)
(* each complete, come to more outcomes of one market than it has; an over *)
(* of each comes to as many, and passes for a market.                      *)
ASSUME MergedBetsAreTooMany ==
    LET outcomes(bets) == Cardinality(DOMAIN GroupedOutcomes(bets, "OU_2.5"))
        expected == ExpectedOutcomeCount("OU_2.5")
        over(name) == [name |-> name, values |-> <<Value("OVER")>>]
    IN  /\ outcomes(<<OverUnder("Goals Over/Under")>>) = expected
        /\ outcomes(<<OverUnder("Goals Over/Under"), OverUnder("Goals Over/Under First Half")>>) > expected
        /\ outcomes(<<over("Goals Over/Under"), over("Goals Over/Under First Half")>>) = expected

(* A match of the history: shots on target by half of the home side, and   *)
(* the minutes of its goals.                                               *)
Played(id, first, last, minutes) ==
    LET stats(half, shots) == [team |-> "home", half |-> half, stats |-> [type \in {"on target"} |-> shots]]
    IN  [id |-> id, league |-> 1, season |-> 1,
         snapshots |-> (IF first = Unknown THEN {} ELSE {stats("1", first)}) \cup {stats("2", last), stats(Null, 0)},
         goals |-> {[team |-> "home", minute |-> n] : n \in minutes}]

History == {{Played(1, a, c, m), Played(2, b, 3, n)} :
                a \in {Unknown, 1, 2}, b \in {1, 2}, c \in {1, 3},
                m \in SUBSET {30, 60}, n \in {{}, {45}, {46}}}

Thresholds == [signal \in Signals |-> IF signal = "pressure_index" THEN {200} ELSE 0 .. 3]

RatesOf(matches) == RecomputeAll({}, matches, Thresholds, 1)

(* Rates are shares; fewer teams reach a higher threshold; nobody scores   *)
(* in a half that does not score in the match.                             *)
ASSUME RatesAreConsistent ==
    \A matches \in History : LET rates == RatesOf(matches) IN
        \A r, q \in rates :
            /\ r.rate \in 0 .. 10000
            /\ r.key = q.key => r = q
            /\ [r.key EXCEPT ![5] = 0] = [q.key EXCEPT ![5] = 0] /\ r.key[5] <= q.key[5] =>
                   r.sampleSize >= q.sampleSize
            /\ r.key[3] = "goal_1h" /\ q.key = [r.key EXCEPT ![3] = "goal_ft"] => r.rate <= q.rate

(* Computing twice changes nothing, and leaves nothing of what was there,  *)
(* except for leagues that have no match any more.                         *)
ASSUME RatesAreReplaced ==
    \A before \in History, after \in {{Played(3, 1, 2, {})}} :
        /\ RecomputeAll(RatesOf(before), before, Thresholds, 1) = RatesOf(before)
        /\ RecomputeAll(RatesOf(before), after, Thresholds, 1) = RatesOf(after)
        /\ RecomputeAll(RatesOf(before), {}, Thresholds, 1) = RatesOf(before)

(* A suggestion tells the rate of exactly its threshold, or none.          *)
ASSUME RatesAreFound ==
    \A matches \in History, threshold \in 1 .. 5 :
        LET live   == Played(9, 1, 1, {})
            lookup == BuildLookup(RatesOf(matches), {<<1, 1>>}, "on_target")
            told   == ResolveBaseRate(live, Full, threshold, lookup)
            sample == {m \in matches : \E s \in HalfStats(m, "home", "1") : s["on target"] >= threshold}
        IN  IF sample = {} \/ threshold > 3 THEN told.sampleSize = Unknown
            ELSE told.sampleSize = Cardinality(sample) /\ told.confidence \in 0 .. 100
=============================================================================
