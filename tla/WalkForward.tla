----------------------------- MODULE WalkForward -----------------------------
(***************************************************************************)
(* Backtests and walk-forward runs over what Replay records.               *)
(*                                                                         *)
(* A walk-forward run (walk-forward.service.ts) is a row that is created   *)
(* PENDING and executed in the memory of the process that created it, under*)
(* a named lock of the database that goes with its connection.  A process  *)
(* that starts, of this program or of one of its scripts, fails the runs   *)
(* nobody executes any more: those of some age whose lock is free.  Only a *)
(* PENDING run is executed, and it is never looked at again once executed. *)
(*                                                                         *)
(* A backtest (backtest-engine.service.ts) is executed by the request that *)
(* asks for it.                                                            *)
(***************************************************************************)
EXTENDS Replay

CONSTANTS
    Base,        \* the strategy asked for
    Requests,    \* bound: the windows and quote parameters asked for
    MinCoverage, \* MIN_FOLD_ODDS_COVERAGE_PCT
    MaxFolds,    \* MAX_FOLDS
    Grace,       \* WALK_FORWARD_ORPHAN_GRACE_MS, in units of the age of a run
    MaxJobs      \* bound: runs and backtests asked for

ASSUME BaseAssumption == Base.latency \in Nat
ASSUME LimitsAssumption == MinCoverage \in 0 .. 100 /\ MaxFolds \in Nat \ {0} /\ Grace \in Nat

VARIABLES
    run,      \* the walk_forward_runs row
    folds,    \* its walk_forward_folds rows
    worker,   \* where its execution is
    lease,    \* its named lock is held
    test,     \* the backtest_runs row and its bet_results
    jobs      \* what the bound still allows

jobVars == <<run, folds, worker, lease, test, jobs>>
vars    == <<recordVars, jobVars>>

NoRun    == [status |-> "NONE", age |-> 0]
Idle     == [at |-> "idle"]
NoResult == [folds |-> 0]
NoTest   == [status |-> "NONE", at |-> "idle", window |-> [from |-> 0, to |-> 0], rows |-> <<>>,
             found |-> NoResult, kpis |-> NoResult]

Active == {"PENDING", "RUNNING"}
Ended  == {"COMPLETED", "FAILED"}

-----------------------------------------------------------------------------
(* Folds.  A request is a record [from, to, train, validation, test, step, *)
(* latency, maxQuoteAge, book]; windows hold their first instant only.     *)
TrainFrom(p, i)    == p.from + i * p.step
ValidationTo(p, i) == TrainFrom(p, i) + p.train + p.validation
TestTo(p, i)       == ValidationTo(p, i) + p.test

Fold(p, i) ==
    [train      |-> [from |-> TrainFrom(p, i), to |-> TrainFrom(p, i) + p.train],
     validation |-> [from |-> TrainFrom(p, i) + p.train, to |-> ValidationTo(p, i)],
     test       |-> [from |-> ValidationTo(p, i), to |-> TestTo(p, i)],
     complete   |-> TestTo(p, i) <= p.to]

(* Up to the first fold that would test past the end; more than MaxFolds,  *)
(* an empty range or tests that overlap are refused.                       *)
FoldsOf(p) ==
    LET starts == {i \in 0 .. MaxFolds : /\ ValidationTo(p, i) < p.to
                                         /\ i > 0 => TestTo(p, i - 1) <= p.to}
    IN  IF p.from >= p.to \/ p.step < p.test \/ Cardinality(starts) > MaxFolds THEN <<>>
        ELSE [i \in 1 .. Cardinality(starts) |-> Fold(p, i - 1)]

(* The strategy of a run, whatever becomes of the one it was asked with.   *)
Frozen(p) == [Base EXCEPT !.latency = p.latency, !.maxQuoteAge = p.maxQuoteAge, !.book = p.book]

InWindow(items, w) == {x \in items : w.from <= x.at /\ x.at < w.to}

Measured(st, bets, signals, w) ==
    [kpis |-> Kpis(st, InWindow(bets, w)), signals |-> Summary(InWindow(signals, w))]

Ineligibility(fold, signals) ==
    CASE ~fold.complete                -> "INCOMPLETE_WINDOW"
      [] signals.signals = 0           -> "NO_SIGNAL"
      [] signals.coverage < MinCoverage -> "INSUFFICIENT_ODDS_COVERAGE"
      [] OTHER                         -> "NONE"

FoldResult(st, bets, signals, fold) ==
    LET metrics == [phase \in {"train", "validation", "test"} |->
                        Measured(st, bets, signals, fold[phase])]
    IN  [reason |-> Ineligibility(fold, metrics["test"].signals), metrics |-> metrics]

(* What the run will say: its folds, and the tests of the eligible ones on *)
(* one bankroll.                                                           *)
Result(p) ==
    LET st      == Frozen(p)
        fs      == FoldsOf(p)
        whole   == [from |-> p.from, to |-> p.to]
        bets    == ReplayedBets(st, whole)
        signals == ReplayedSignals(st, whole)
        results == [i \in DOMAIN fs |-> FoldResult(st, bets, signals, fs[i])]
        kept    == {i \in DOMAIN fs : results[i].reason = "NONE"}
        tested(items) == UNION {InWindow(items, fs[i].test) : i \in kept}
    IN  [rows    |-> results,
         dataset |-> Dataset(st, whole),
         summary |-> [folds |-> Len(fs), eligible |-> Cardinality(kept),
                      kpis |-> Kpis(st, tested(bets)), signals |-> Summary(tested(signals))]]

-----------------------------------------------------------------------------
(* A run *)

(* Bound: jobs are asked for when the match is over and there are bets.    *)
Everything == [from |-> 0, to |-> clock]

Recorded == clock + 1 \notin Times /\ PlacedVerdicts(Base, Everything) # {}

InitJobs ==
    /\ run = NoRun
    /\ folds = <<>>
    /\ worker = Idle
    /\ lease = FALSE
    /\ test = NoTest
    /\ jobs = MaxJobs

Start(p) ==
    /\ Recorded
    /\ run = NoRun /\ jobs > 0
    /\ FoldsOf(p) # <<>>
    /\ run' = [status |-> "PENDING", age |-> 0, request |-> p, dataset |-> {}, summary |-> NoResult]
    /\ worker' = [at |-> "scheduled"]
    /\ jobs' = jobs - 1
    /\ UNCHANGED <<recordVars, folds, lease, test>>

(* The connection is waited for, however long, then the lock is tried.     *)
AcquireLease ==
    /\ worker.at = "scheduled"
    /\ ~lease
    /\ lease' = TRUE
    /\ worker' = [at |-> "leased"]
    /\ UNCHANGED <<recordVars, run, folds, test, jobs>>

(* No connection: nobody will execute this run.                            *)
LeaseFails ==
    /\ worker.at = "scheduled"
    /\ worker' = Idle
    /\ UNCHANGED <<recordVars, run, folds, lease, test, jobs>>

(* PENDING to RUNNING, if still PENDING.                                   *)
Claim ==
    /\ worker.at = "leased"
    /\ IF run.status = "PENDING"
       THEN run' = [run EXCEPT !.status = "RUNNING"] /\ worker' = [at |-> "claimed"]
       ELSE run' = run /\ worker' = [at |-> "releasing"]
    /\ UNCHANGED <<recordVars, folds, lease, test, jobs>>

Measure ==
    /\ worker.at = "claimed"
    /\ worker' = [at |-> "measured", result |-> Result(run.request)]
    /\ UNCHANGED <<recordVars, run, folds, lease, test, jobs>>

StoreFolds ==
    /\ worker.at = "measured"
    /\ folds' = worker.result.rows
    /\ worker' = [worker EXCEPT !.at = "stored"]
    /\ UNCHANGED <<recordVars, run, lease, test, jobs>>

(* Whatever the row says by now.                                           *)
Complete ==
    /\ worker.at = "stored"
    /\ run' = [run EXCEPT !.status = "COMPLETED", !.dataset = worker.result.dataset,
                          !.summary = worker.result.summary]
    /\ worker' = [at |-> "releasing"]
    /\ UNCHANGED <<recordVars, folds, lease, test, jobs>>

(* External: the connection of the lock breaks, and the lock is free; the  *)
(* execution does not notice.                                              *)
LoseLease ==
    /\ lease
    /\ lease' = FALSE
    /\ UNCHANGED <<recordVars, run, folds, worker, test, jobs>>

(* A query fails; so may the update that says so.                          *)
RunFails ==
    /\ worker.at \in {"claimed", "measured", "stored"}
    /\ run' \in {run, [run EXCEPT !.status = "FAILED"]}
    /\ worker' = [at |-> "releasing"]
    /\ UNCHANGED <<recordVars, folds, lease, test, jobs>>

Release ==
    /\ worker.at = "releasing"
    /\ lease' = FALSE
    /\ worker' = Idle
    /\ UNCHANGED <<recordVars, run, folds, test, jobs>>

(* Mutant: the lock is not looked at.                                      *)
FailAnyUnfinished ==
    /\ run.status \in Active
    /\ run.age > Grace
    /\ run' = [run EXCEPT !.status = "FAILED"]
    /\ UNCHANGED <<recordVars, folds, worker, lease, test, jobs>>

(* failOrphanedRuns, in one statement, by any process that starts.         *)
FailOrphans ==
    /\ run.status \in Active
    /\ run.age > Grace
    /\ ~lease
    /\ run' = [run EXCEPT !.status = "FAILED"]
    /\ UNCHANGED <<recordVars, folds, worker, lease, test, jobs>>

RunAges ==
    /\ run.status \in Active /\ run.age <= Grace
    /\ run' = [run EXCEPT !.age = @ + 1]
    /\ UNCHANGED <<recordVars, folds, worker, lease, test, jobs>>

-----------------------------------------------------------------------------
(* A backtest, over all that is recorded *)

DefaultWindow == LET at == {s.at : s \in snapshots}
                 IN  IF at = {} THEN [from |-> clock, to |-> clock]
                     ELSE [from |-> CHOOSE t \in at : \A u \in at : t <= u,
                           to   |-> CHOOSE t \in at : \A u \in at : u <= t]

StartTest ==
    /\ Recorded
    /\ test = NoTest /\ jobs > 0
    /\ test' = [NoTest EXCEPT !.status = "RUNNING", !.at = "replaying", !.window = DefaultWindow]
    /\ jobs' = jobs - 1
    /\ UNCHANGED <<recordVars, run, folds, worker, lease>>

(* The bets that could be staked are stored, then the row that counts them.*)
StoreBets ==
    /\ test.at = "replaying"
    /\ LET bets == ReplayedBets(Base, test.window)
       IN  test' = [test EXCEPT !.at = "stored", !.found = Kpis(Base, bets),
                                !.rows = SelectSeq(Staked(Base, bets).bets, LAMBDA b : b.stake > 0)]
    /\ UNCHANGED <<recordVars, run, folds, worker, lease, jobs>>

CompleteTest ==
    /\ test.at = "stored"
    /\ test' = [test EXCEPT !.at = "idle", !.status = "COMPLETED", !.kpis = test.found]
    /\ UNCHANGED <<recordVars, run, folds, worker, lease, jobs>>

TestFails ==
    /\ test.at # "idle"
    /\ \E status \in {"RUNNING", "FAILED"} :
           test' = [test EXCEPT !.at = "idle", !.status = status]
    /\ UNCHANGED <<recordVars, run, folds, worker, lease, jobs>>

-----------------------------------------------------------------------------
(* The process dies: its connections go, and the lock with them.  Nothing  *)
(* looks for a backtest it was executing.                                  *)
Die ==
    /\ worker # Idle \/ test.at # "idle"
    /\ worker' = Idle
    /\ lease' = FALSE
    /\ test' = [test EXCEPT !.at = "idle"]
    /\ UNCHANGED <<recordVars, run, folds, jobs>>

Execution ==
    \/ \E p \in Requests : Start(p)
    \/ AcquireLease \/ LeaseFails \/ Claim \/ Measure \/ StoreFolds \/ Complete
    \/ RunFails \/ Release \/ LoseLease
    \/ FailOrphans \/ RunAges
    \/ StartTest \/ StoreBets \/ CompleteTest \/ TestFails
    \/ Die

Init == InitReplay /\ InitJobs

Next ==
    \/ PlayOn /\ UNCHANGED jobVars
    \/ SyncMatch /\ UNCHANGED jobVars
    \/ (\E phase \in Phases : OddsTick(phase)) /\ UNCHANGED jobVars
    \/ ImportHistory /\ UNCHANGED jobVars
    \/ Execution

Spec == Init /\ [][Next]_vars

-----------------------------------------------------------------------------
(* Properties *)

(* What the ingestion takes for granted of an answer: it judges a market   *)
(* by the number of its outcomes, so an answer has one entry of a          *)
(* bookmaker, and one odd of an outcome.  Odds are below 1000, beyond      *)
(* which a probability per million is nothing.                             *)
OddRange == {odd \in Nat : odd <= 1000000}

IsOrdinaryFlat(entries) ==
    /\ \A d, e \in entries : d.book = e.book => d = e
    /\ \A e \in entries : \A f \in DOMAIN e.odds :
           /\ e.odds[f] \in OddRange
           /\ \E m \in DOMAIN Outcomes : \E o \in Outcomes[m] : f = <<m, o>>

IsOrdinaryApiSports(books) ==
    /\ \A b, c \in books : b.book = c.book => b = c
    /\ \A b \in books, m \in {"1X2", "BTTS", "OU_2.5"} :
           LET outcomes == GroupedOutcomes(b.bets, m)
           IN  /\ \A i, j \in DOMAIN outcomes : outcomes[i].selection = outcomes[j].selection => i = j
               /\ \A i \in DOMAIN outcomes : outcomes[i].odd \in OddRange

IsOrdinary(answer) ==
    IF Provider = "apifootball"
    THEN IsOrdinaryFlat({e \in answer : LiveIndices(e) = {} /\ e.book # NoBook})
    ELSE IsOrdinaryApiSports({b \in UNION answer : b.book # NoBook})

AnswersAreOrdinary == \A answer \in PrematchAnswers \cup LiveAnswers : IsOrdinary(answer)

(* replayDetailed, selectLatest: what a replay decides up to an instant,   *)
(* latency included, is the same whatever is recorded later: no quote,     *)
(* statistic or result that came after a decision has a part in it.  Goals *)
(* are stored without the time they became known, and an import replaces   *)
(* the recording.                                                          *)
DecidedBefore(t) == {v \in Verdicts(Base, Everything) : v.at + Base.latency < t}

Goals == {e \in events : e.eventType = "Goal"}

NoLookAhead ==
    [][LET recorded == /\ snapshots' # snapshots \/ quotes' # quotes
                       /\ left'.imports = left.imports /\ Goals' = Goals
       IN  recorded => \E t \in {clock} : DecidedBefore(t)' = DecidedBefore(t)]_vars

(* An execution whose lock is free: no other process knows of it.          *)
Deserted == worker.at \in {"leased", "claimed", "measured", "stored"} /\ ~lease

(* failOrphanedRuns, claims: a run that has ended stays as it ended,       *)
(* whichever processes start, die or wait for their connection meanwhile,  *)
(* unless its execution lost its lock and still goes on.                   *)
EndedOnce == [][run.status \in Ended /\ ~Deserted => run' = run]_vars

IsWhole(rows, market) ==
    LET fair == [r \in rows |-> r.fair]
    IN  /\ {r.selection : r \in rows} = Outcomes[market]
        /\ Cardinality(rows) = Cardinality(Outcomes[market])
        /\ MapThenSumSet(LAMBDA r : fair[r], rows) \in 1000 - Cardinality(rows) .. 1000

(* buildRowsForMarketGroup: the fair probabilities of a receipt are those  *)
(* of whole markets: every outcome once, and they add up to one but for    *)
(* rounding.                                                               *)
MarketsAreWhole ==
    \A q \in quotes : IsPartition(q.market) =>
        IsWhole({r \in quotes : r.at = q.at /\ r.book = q.book /\ r.market = q.market}, q.market)

(* buildFolds: every instant is tested by one fold at most, after all that *)
(* the fold was trained and validated on; only the last fold may be        *)
(* incomplete.                                                             *)
IsOutOfSample(fs) ==
    /\ \A i \in DOMAIN fs : /\ fs[i].train.to <= fs[i].validation.from
                            /\ fs[i].validation.to <= fs[i].test.from
                            /\ i < Len(fs) => fs[i].complete
    /\ \A i, j \in DOMAIN fs : i < j => fs[i].test.to <= fs[j].test.from

(* applyStakingAndComputeKpis: no bankroll is overdrawn, and it is what the*)
(* profits made of it.                                                     *)
IsSolvent(st, end) ==
    LET profit == [i \in DOMAIN end.bets |-> end.bets[i].profit]
    IN  /\ end.bankroll >= 0 /\ end.drawdown \in 0 .. 1000
        /\ \A i \in DOMAIN end.bets : end.bets[i].stake >= 0
        /\ end.bankroll = AtLeast(0, st.bankroll) + MapThenSumSet(LAMBDA i : profit[i], DOMAIN end.bets)

(* buildWindows: the windows of an import cover its range, without overlap,*)
(* each within the limit of the provider.                                  *)
CoverOnce(ws, from, to, max) ==
    /\ UNION {w.from .. w.to : w \in ws} = from .. to
    /\ \A w \in ws : w.to - w.from < max
    /\ \A v, w \in ws : v # w => (v.from .. v.to) \cap (w.from .. w.to) = {}
=============================================================================
