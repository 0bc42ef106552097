-------------------------- MODULE WalkForwardProofs --------------------------
(***************************************************************************)
(* A walk-forward run ends once, a replay decides without hindsight, and   *)
(* the markets it reads are whole, for any match, answers, strategies and  *)
(* requests; and what a run is made of, its folds and its bankroll, for    *)
(* any request and any bets.                                               *)
(***************************************************************************)
EXTENDS WalkForward, SequenceTheorems, FoldTheorems, TLAPS

-----------------------------------------------------------------------------
(* A run *)

Executing == {"claimed", "measured", "stored"}

WorkerStates == {"idle", "scheduled", "leased", "releasing"} \cup Executing

(* Records by what the actions look at.                                    *)
IsRecordWith(r, f) == r = [x \in DOMAIN r |-> r[x]] /\ f \in DOMAIN r

RunIsRecord == IsRecordWith(run, "status")

WorkerIsRecord == IsRecordWith(worker, "at") /\ worker.at \in WorkerStates

(* A run that is executed under its lock is RUNNING: who would fail it     *)
(* finds the lock held.                                                    *)
LockedIsRunning == worker.at \in Executing /\ lease => run.status = "RUNNING"

RunInv == RunIsRecord /\ WorkerIsRecord /\ LockedIsRunning

LEMMA RunInvInit == Init => RunInv
BY DEF Init, InitJobs, RunInv, RunIsRecord, WorkerIsRecord, LockedIsRunning, IsRecordWith,
       NoRun, Idle, WorkerStates, Executing

(* Steps that leave run, worker and lock alone.                            *)
LEMMA RunInvKept ==
    ASSUME RunInv, UNCHANGED <<run, worker, lease>>
    PROVE  RunInv'
BY DEF RunInv, RunIsRecord, WorkerIsRecord, LockedIsRunning, IsRecordWith

LEMMA RunInvStep ==
    ASSUME RunInv, [Next]_vars
    PROVE  RunInv'
<1> USE DEF RunInv, RunIsRecord, WorkerIsRecord, LockedIsRunning, IsRecordWith, WorkerStates,
            Executing
<1>1. CASE UNCHANGED <<run, worker, lease>>
  BY <1>1, RunInvKept
<1>2. ASSUME NEW p \in Requests, Start(p)
      PROVE  RunInv'
  BY <1>2 DEF Start
<1>3. CASE AcquireLease
  BY <1>3 DEF AcquireLease
<1>4. CASE LeaseFails
  BY <1>4 DEF LeaseFails, Idle
<1>5. CASE Claim
  <2>1. CASE run.status = "PENDING"
    BY <1>5, <2>1 DEF Claim
  <2>2. CASE run.status # "PENDING"
    BY <1>5, <2>2 DEF Claim
  <2> QED
    BY <2>1, <2>2
<1>6. CASE Measure
  BY <1>6 DEF Measure
<1>7. CASE StoreFolds
  BY <1>7 DEF StoreFolds
<1>8. CASE Complete
  BY <1>8 DEF Complete
<1>9. CASE RunFails
  BY <1>9 DEF RunFails
<1>10. CASE Release
  BY <1>10 DEF Release, Idle
<1>11. CASE LoseLease
  BY <1>11 DEF LoseLease
<1>12. CASE FailOrphans
  BY <1>12 DEF FailOrphans
<1>13. CASE RunAges
  BY <1>13 DEF RunAges
<1>14. CASE Die
  BY <1>14 DEF Die, Idle
<1>15. CASE StartTest \/ StoreBets \/ CompleteTest \/ TestFails
  <2>1. UNCHANGED <<run, worker, lease>>
    BY <1>15 DEF StartTest, StoreBets, CompleteTest, TestFails
  <2> QED
    BY <2>1, RunInvKept
<1>16. CASE UNCHANGED jobVars
  <2>1. UNCHANGED <<run, worker, lease>>
    BY <1>16 DEF jobVars
  <2> QED
    BY <2>1, RunInvKept
<1>17. CASE UNCHANGED vars
  <2>1. UNCHANGED jobVars
    BY <1>17 DEF vars
  <2> QED
    BY <1>16, <2>1
<1> QED
  BY <1>2, <1>3, <1>4, <1>5, <1>6, <1>7, <1>8, <1>9, <1>10, <1>11, <1>12, <1>13, <1>14, <1>15,
     <1>16, <1>17 DEF Next, Execution

(* What has ended is left alone by every step whose worker is not deserted.*)
LEMMA EndedIsKept ==
    ASSUME RunInv, [Next]_vars, run.status \in Ended, ~ Deserted
    PROVE  run' = run
<1> USE DEF RunInv, RunIsRecord, WorkerIsRecord, LockedIsRunning, Executing, Ended, Active, Deserted
<1>1. ASSUME NEW p \in Requests, Start(p)
      PROVE  FALSE
  BY <1>1 DEF Start, NoRun
<1>2. CASE Claim
  BY <1>2 DEF Claim
<1>3. CASE Complete
  BY <1>3 DEF Complete
<1>4. CASE RunFails
  BY <1>4 DEF RunFails
<1>5. CASE FailOrphans \/ RunAges
  BY <1>5 DEF FailOrphans, RunAges
<1>6. CASE AcquireLease \/ LeaseFails \/ Measure \/ StoreFolds \/ Release \/ LoseLease \/ Die
  BY <1>6 DEF AcquireLease, LeaseFails, Measure, StoreFolds, Release, LoseLease, Die
<1>7. CASE StartTest \/ StoreBets \/ CompleteTest \/ TestFails
  BY <1>7 DEF StartTest, StoreBets, CompleteTest, TestFails
<1>8. CASE UNCHANGED jobVars
  BY <1>8 DEF jobVars
<1>9. CASE UNCHANGED vars
  BY <1>9 DEF vars, jobVars
<1> QED
  BY <1>1, <1>2, <1>3, <1>4, <1>5, <1>6, <1>7, <1>8, <1>9 DEF Next, Execution

(* failOrphanedRuns, claims: a run that has ended stays as it ended unless *)
(* its execution lost its lock, for any requests, limits and recordings.   *)
THEOREM RunsEndOnce == Spec => EndedOnce
<1>1. RunInv /\ [Next]_vars => RunInv'
  BY RunInvStep
<1>2. RunInv /\ [Next]_vars => [run.status \in Ended /\ ~Deserted => run' = run]_vars
  BY EndedIsKept
<1>3. Spec => []RunInv
  BY RunInvInit, <1>1, PTL DEF Spec
<1> QED
  BY <1>2, <1>3, PTL DEF Spec, EndedOnce

-----------------------------------------------------------------------------
(* A replay *)

(* What is recorded carries the instant it is recorded at, and is added.   *)
IsAddition(rows, more) ==
    /\ rows \subseteq more
    /\ \A r \in more \ rows : r.at = clock

(* A recording that leaves the goals as they were.                         *)
Records ==
    /\ clock' = clock
    /\ Goals' = Goals
    /\ IsAddition(snapshots, snapshots')
    /\ IsAddition(quotes, quotes')

ClockInv ==
    /\ clock \in Int
    /\ left = [x \in DOMAIN left |-> left[x]] /\ "imports" \in DOMAIN left
    /\ left.imports \in Int

LEMMA ClockInvInit == Init => ClockInv
<1>1. SUFFICES ASSUME Init PROVE ClockInv
  OBVIOUS
<1>2. \E t \in Times : \A u \in Times : t <= u
  BY ProgrammeAssumption DEF Times
<1>3. clock \in Times
  BY <1>1, <1>2 DEF Init, InitReplay
<1>4. clock \in Int
  BY <1>3, ProgrammeAssumption DEF Times
<1> QED
  BY <1>1, <1>4, BoundsAssumption DEF Init, InitReplay, ClockInv

LEMMA ClockInvStep ==
    ASSUME ClockInv, [Next]_vars
    PROVE  ClockInv'
<1>0. CASE UNCHANGED recordVars
  BY <1>0 DEF recordVars, ClockInv
<1>1. CASE PlayOn
  BY <1>1 DEF PlayOn, ClockInv
<1>2. CASE SyncMatch
  BY <1>2 DEF SyncMatch, ClockInv
<1>3. ASSUME NEW phase \in Phases, OddsTick(phase)
      PROVE  ClockInv'
  BY <1>3 DEF OddsTick, ResumeOdds, OddsFail, SyncOdds, ClockInv
<1>4. CASE ImportHistory
  BY <1>4 DEF ImportHistory, ClockInv
<1>5. CASE Execution
  <2>1. UNCHANGED recordVars
    BY <1>5 DEF Execution, Start, AcquireLease, LeaseFails, Claim, Measure, StoreFolds, Complete,
                RunFails, Release, LoseLease, FailOrphans, RunAges, StartTest, StoreBets,
                CompleteTest, TestFails, Die
  <2> QED
    BY <1>0, <2>1
<1>6. CASE UNCHANGED vars
  BY <1>0, <1>6 DEF vars
<1> QED
  BY <1>1, <1>2, <1>3, <1>4, <1>5, <1>6 DEF Next

(* What a recording does not reach: the decisions before it.               *)
LEMMA SeenBefore ==
    ASSUME Records, clock \in Int, NEW t \in Int, t < clock
    PROVE  Seen(Everything, t)' = Seen(Everything, t)
BY DEF Records, IsAddition, Seen, Everything

LEMMA ElapsedBefore ==
    ASSUME Records, clock \in Int, NEW t \in Int, t < clock
    PROVE  ElapsedAt(Everything, t)' = ElapsedAt(Everything, t)
BY SeenBefore DEF ElapsedAt

LEMMA TickMatchBefore ==
    ASSUME Records, clock \in Int, NEW t \in Int, t < clock
    PROVE  TickMatch(Everything, t)' = TickMatch(Everything, t)
<1>1. ElapsedAt(Everything, t)' = ElapsedAt(Everything, t)
  BY ElapsedBefore
<1>2. \A s \in Sides : SignalAt(Everything, t, s)' = SignalAt(Everything, t, s)
  BY SeenBefore DEF SignalAt, SignalsIn
<1>3. \A s \in Sides : HtSignalAt(Everything, t, s)' = HtSignalAt(Everything, t, s)
  BY SeenBefore DEF HtSignalAt, SignalsIn
<1>4. ASSUME NEW elapsed, NEW s \in Sides
      PROVE  ScoreAt(elapsed, s)' = ScoreAt(elapsed, s)
  <2> DEFINE scored == {e \in events : /\ e.eventType = "Goal" /\ e.team = s
                                       /\ e.minute # Unknown /\ e.minute <= elapsed}
             ofGoals == {e \in Goals : e.team = s /\ e.minute # Unknown /\ e.minute <= elapsed}
  <2>1. scored = ofGoals /\ scored' = ofGoals'
    BY DEF Goals
  <2>2. ofGoals' = ofGoals
    BY DEF Records
  <2>3. ScoreAt(elapsed, s) = Cardinality(scored) /\ ScoreAt(elapsed, s)' = Cardinality(scored')
    BY DEF ScoreAt
  <2> QED
    BY <2>1, <2>2, <2>3
<1> QED
  BY <1>1, <1>2, <1>3, <1>4 DEF TickMatch

LEMMA FiredBefore ==
    ASSUME Records, clock \in Int, NEW t \in Int, t < clock
    PROVE  Fired(Base, Everything, t)' = Fired(Base, Everything, t)
BY ElapsedBefore, TickMatchBefore DEF Fired

LEMMA QuoteBefore ==
    ASSUME Records, clock \in Int, NEW t \in Int, t < clock, NEW m, NEW book
    PROVE  QuoteAt(Base, m, book, t)' = QuoteAt(Base, m, book, t)
<1>1. Candidates(Base, m, book, t)' = Candidates(Base, m, book, t)
  BY DEF Candidates, Records, IsAddition
<1> QED
  BY <1>1 DEF QuoteAt

LEMMA VerdictBefore ==
    ASSUME Records, clock \in Int, NEW t \in Int, t + Base.latency < clock, NEW m
    PROVE  Verdict(Base, t, m)' = Verdict(Base, t, m)
<1>1. t < clock /\ t + Base.latency \in Int
  BY BaseAssumption
<1>2. QuoteAt(Base, m, Base.book, t)' = QuoteAt(Base, m, Base.book, t)
  BY <1>1, QuoteBefore
<1>3. \A book : QuoteAt(Base, m, book, t + Base.latency)' = QuoteAt(Base, m, book, t + Base.latency)
  BY <1>1, QuoteBefore
<1> QED
  BY <1>2, <1>3 DEF Verdict

LEMMA DecidedIsKept ==
    ASSUME Records, clock \in Int
    PROVE  \A t \in {clock} : DecidedBefore(t)' = DecidedBefore(t)
<1> DEFINE early == {t \in Ticks(Everything) : t + Base.latency < clock}
<1>1. \A t \in Ticks(Everything) : t \in Int
  BY DEF Ticks, Everything
<1>2. \A t, m : Verdict(Base, t, m).at = t /\ Verdict(Base, t, m)'.at = t
  BY DEF Verdict
<1>3. \A t \in {clock} : DecidedBefore(t) = UNION {{Verdict(Base, u, m) : m \in Fired(Base, Everything, u)} : u \in early}
  BY <1>2 DEF DecidedBefore, Verdicts
<1>4. \A t \in {clock} : DecidedBefore(t)' = (UNION {{Verdict(Base, u, m) : m \in Fired(Base, Everything, u)} : u \in early})'
  BY <1>2 DEF DecidedBefore, Verdicts, Records
<1>5. early' = early
  BY BaseAssumption DEF Ticks, Everything, Records, IsAddition
<1>6. \A u \in early : u \in Int /\ u < clock /\ u + Base.latency < clock
  BY <1>1, BaseAssumption
<1>7. \A u \in early : Fired(Base, Everything, u)' = Fired(Base, Everything, u)
  BY <1>6, FiredBefore
<1>8. \A u \in early : \A m : Verdict(Base, u, m)' = Verdict(Base, u, m)
  BY <1>6, VerdictBefore
<1> HIDE DEF early
<1> QED
  BY <1>3, <1>4, <1>5, <1>7, <1>8

(* Only the synchronisations add statistics and quotes.                    *)
LEMMA RecordingAdds ==
    ASSUME ClockInv, [Next]_vars, snapshots' # snapshots \/ quotes' # quotes,
           left'.imports = left.imports, Goals' = Goals
    PROVE  Records
<1>0. CASE UNCHANGED recordVars
  BY <1>0 DEF recordVars
<1>1. CASE PlayOn
  BY <1>1 DEF PlayOn
<1>2. CASE SyncMatch
  <2>1. \A stats : \A r \in StatsRows(clock, Now.elapsed, stats) : r.at = clock
    BY DEF StatsRows, StatsRow
  <2> QED
    BY <1>2, <2>1 DEF SyncMatch, Records, IsAddition
<1>3. ASSUME NEW phase \in Phases, OddsTick(phase)
      PROVE  Records
  <2>1. CASE ResumeOdds(phase) \/ OddsFail(phase)
    BY <2>1 DEF ResumeOdds, OddsFail
  <2>2. CASE SyncOdds(phase)
    <3>1. ASSUME NEW book, NEW market, NEW outcomes, NEW r \in MarketRows(clock, book, market, outcomes)
          PROVE  r.at = clock
      <4>1. \E o, fair : r = OddsRow(clock, book, market, o, fair)
        BY <3>1, Zenon DEF MarketRows
      <4> QED
        BY <4>1 DEF OddsRow
    <3>2. \A answer : \A r \in QuoteRows(clock, answer) : r.at = clock
      BY <3>1 DEF QuoteRows, ApifootballRows, ApiSportsRows, LiveRows, FlatRows
    <3> QED
      BY <2>2, <3>2 DEF SyncOdds, Records, IsAddition
  <2> QED
    BY <1>3, <2>1, <2>2 DEF OddsTick
<1>4. CASE ImportHistory
  BY <1>4 DEF ImportHistory, ClockInv
<1>5. CASE Execution
  <2>1. UNCHANGED recordVars
    BY <1>5 DEF Execution, Start, AcquireLease, LeaseFails, Claim, Measure, StoreFolds, Complete,
                RunFails, Release, LoseLease, FailOrphans, RunAges, StartTest, StoreBets,
                CompleteTest, TestFails, Die
  <2> QED
    BY <1>0, <2>1
<1>6. CASE UNCHANGED vars
  BY <1>0, <1>6 DEF vars
<1> QED
  BY <1>1, <1>2, <1>3, <1>4, <1>5, <1>6 DEF Next

(* replayDetailed: a quote or statistic that is recorded changes nothing   *)
(* that was decided, latency included, before it: for any match, answers   *)
(* and strategy.                                                           *)
THEOREM NothingIsForeseen == Spec => NoLookAhead
<1> DEFINE Recorded1 == /\ snapshots' # snapshots \/ quotes' # quotes
                        /\ left'.imports = left.imports /\ Goals' = Goals
<1>1. ClockInv /\ [Next]_vars => ClockInv'
  BY ClockInvStep
<1>2. ClockInv /\ [Next]_vars /\ Recorded1 =>
          \E t \in {clock} : DecidedBefore(t)' = DecidedBefore(t)
  BY RecordingAdds, DecidedIsKept DEF ClockInv
<1>3. ClockInv /\ [Next]_vars =>
          [Recorded1 => \E t \in {clock} : DecidedBefore(t)' = DecidedBefore(t)]_vars
  BY <1>2
<1>4. Spec => []ClockInv
  BY ClockInvInit, <1>1, PTL DEF Spec
<1> QED
  BY <1>3, <1>4, PTL DEF Spec, NoLookAhead

-----------------------------------------------------------------------------
(* Whole markets *)

(* The group of a quote.                                                   *)
GroupIn(rows, q) == {r \in rows : r.at = q.at /\ r.book = q.book /\ r.market = q.market}

AreWhole(rows) == \A q \in rows : IsPartition(q.market) => IsWhole(GroupIn(rows, q), q.market)

LEMMA OutcomesAreCounted ==
    ASSUME NEW market \in DOMAIN Outcomes, IsPartition(market)
    PROVE  /\ IsFiniteSet(Outcomes[market])
           /\ Cardinality(Outcomes[market]) = ExpectedOutcomeCount(market)
           /\ ExpectedOutcomeCount(market) \in {2, 3}
<1>1. \A x, y : x # y => IsFiniteSet({x, y}) /\ Cardinality({x, y}) = 2
  <2>1. ASSUME NEW x, NEW y, x # y
        PROVE  IsFiniteSet({x, y}) /\ Cardinality({x, y}) = 2
    <3>1. {x, y} = {x} \cup {y} /\ y \notin {x}
      BY <2>1
    <3>2. IsFiniteSet({x}) /\ Cardinality({x}) = 1
      BY FS_Singleton
    <3>3. IsFiniteSet({x} \cup {y}) /\ Cardinality({x} \cup {y}) = 1 + 1
      BY <3>1, <3>2, FS_AddElement
    <3> QED
      BY <3>1, <3>3
  <2> QED
    BY <2>1
<1>2. CASE market = "1X2"
  <2> DEFINE two == {"HOME", "DRAW"}
  <2>1. IsFiniteSet(two) /\ Cardinality(two) = 2 /\ "AWAY" \notin two
    BY <1>1
  <2>2. Outcomes[market] = two \cup {"AWAY"}
    BY <1>2 DEF Outcomes
  <2>3. ExpectedOutcomeCount(market) = 3
    BY <1>2 DEF ExpectedOutcomeCount
  <2> HIDE DEF two
  <2>4. IsFiniteSet(two \cup {"AWAY"}) /\ Cardinality(two \cup {"AWAY"}) = 2 + 1
    BY <2>1, FS_AddElement
  <2> QED
    BY <2>2, <2>3, <2>4
<1>3. CASE market \in {"OU_2.5", "AH_0", "BTTS"}
  <2>1. IsFiniteSet(Outcomes[market]) /\ Cardinality(Outcomes[market]) = 2
    <3>1. CASE market = "OU_2.5"
      <4>1. Outcomes[market] = {"OVER", "UNDER"}
        BY <3>1 DEF Outcomes
      <4>2. IsFiniteSet({"OVER", "UNDER"}) /\ Cardinality({"OVER", "UNDER"}) = 2
        BY <1>1
      <4> QED
        BY <4>1, <4>2
    <3>2. CASE market = "AH_0"
      <4>1. Outcomes[market] = {"HOME", "AWAY"}
        BY <3>2 DEF Outcomes
      <4>2. IsFiniteSet({"HOME", "AWAY"}) /\ Cardinality({"HOME", "AWAY"}) = 2
        BY <1>1
      <4> QED
        BY <4>1, <4>2
    <3>3. CASE market = "BTTS"
      <4>1. Outcomes[market] = {"YES", "NO"}
        BY <3>3 DEF Outcomes
      <4>2. IsFiniteSet({"YES", "NO"}) /\ Cardinality({"YES", "NO"}) = 2
        BY <1>1
      <4> QED
        BY <4>1, <4>2
    <3> QED
      BY <1>3, <3>1, <3>2, <3>3
  <2>2. ExpectedOutcomeCount(market) = 2
    BY <1>3 DEF ExpectedOutcomeCount
  <2> QED
    BY <2>1, <2>2
<1>4. market = "1X2" \/ market \in {"OU_2.5", "AH_0", "BTTS"}
  BY DEF IsPartition, Outcomes
<1> QED
  BY <1>2, <1>3, <1>4

(* Priced, and in the range of odds.                                       *)
Priced == {odd \in Nat : odd > 1000 /\ odd <= 1000000}

(* What MarketRows is given: one odd of an outcome, each of the market.    *)
IsBook(outcomes, market) ==
    /\ \A i \in DOMAIN outcomes : outcomes[i].selection \in Outcomes[market] /\ outcomes[i].odd \in Priced
    /\ \A i, j \in DOMAIN outcomes : outcomes[i].selection = outcomes[j].selection => i = j

LEMMA ProbabilityIsPositive ==
    ASSUME NEW odd \in Priced
    PROVE  ImpliedProbability(odd) \in Nat \ {0}
<1> DEFINE p == 1000000 \div odd
           r == 1000000 % odd
<1>1. odd \in Nat /\ odd > 1000 /\ odd <= 1000000
  BY DEF Priced
<1>2. ImpliedProbability(odd) = p
  BY <1>1 DEF ImpliedProbability, IsPriced
<1>3. p \in Nat /\ r \in 0 .. odd - 1 /\ 1000000 = (odd * p) + r
  <2> DEFINE n == 1000000
  <2>1. n \in Nat
    OBVIOUS
  <2> HIDE DEF n
  <2>2. n \div odd \in Nat /\ n % odd \in 0 .. odd - 1 /\ n = (odd * (n \div odd)) + (n % odd)
    BY <1>1, <2>1
  <2> QED
    BY <2>2 DEF n
<1>4. p # 0
  <2>1. SUFFICES ASSUME p = 0 PROVE FALSE
    OBVIOUS
  <2>2. odd * p = 0
    BY <1>1, <2>1
  <2> HIDE DEF p, r
  <2> QED
    BY <1>1, <1>3, <2>2
<1> QED
  BY <1>2, <1>3, <1>4

LEMMA RowsAreWhole ==
    ASSUME NEW at, NEW book, NEW market \in DOMAIN Outcomes, IsPartition(market),
           NEW outcomes, IsBook(outcomes, market)
    PROVE  MarketRows(at, book, market, outcomes) # {}
               => IsWhole(MarketRows(at, book, market, outcomes), market)
<1> DEFINE D    == DOMAIN outcomes
           odds == [i \in D |-> outcomes[i].odd]
           impl == [i \in DOMAIN odds |-> ImpliedProbability(odds[i])]
           fair == RemoveMargin(odds)
           made == [i \in D |-> OddsRow(at, book, market, outcomes[i], fair[i])]
           rows == {made[i] : i \in D}
           sel  == [i \in D |-> outcomes[i].selection]
           whole == Outcomes[market]
<1>1. /\ IsFiniteSet(whole) /\ Cardinality(whole) = ExpectedOutcomeCount(market)
      /\ Cardinality(whole) \in {2, 3}
  BY OutcomesAreCounted
<1>2. sel \in Injection(D, whole)
  BY DEF IsBook, Injection, IsInjective
<1>3. IsFiniteSet(D) /\ (Cardinality(D) = Cardinality(whole) <=> sel \in Surjection(D, whole))
  <2> HIDE DEF D, sel, whole
  <2> QED
    BY <1>1, <1>2, FS_Injection
<1>4. SUFFICES ASSUME Cardinality(D) = Cardinality(whole)
               PROVE  IsWhole(MarketRows(at, book, market, outcomes), market)
  BY <1>1 DEF MarketRows
<1>5. MarketRows(at, book, market, outcomes) = rows
  BY <1>1, <1>4 DEF MarketRows
<1>6. {r.selection : r \in rows} = whole
  <2>1. sel \in Surjection(D, whole)
    BY <1>3, <1>4
  <2>2. \A i \in D : made[i].selection = sel[i]
    BY DEF OddsRow
  <2> HIDE DEF made, sel
  <2> QED
    BY <2>1, <2>2 DEF Surjection
<1>7. \A i, j \in D : made[i] = made[j] => i = j
  <2>1. \A i \in D : made[i].selection = outcomes[i].selection
    BY DEF OddsRow
  <2> HIDE DEF made
  <2> QED
    BY <2>1 DEF IsBook
<1>8. Cardinality(rows) = Cardinality(D)
  <2>1. made \in Surjection(D, rows) /\ made \in Injection(D, rows)
    BY <1>7 DEF Surjection, Injection, IsInjective
  <2> HIDE DEF made, rows, D
  <2> QED
    BY <1>3, <2>1, FS_Surjection
<1>9. \A i \in D : impl[i] \in Nat \ {0}
  BY ProbabilityIsPositive DEF IsBook
<1>10. DOMAIN odds = D /\ Overround(odds) = SumOf(impl, D)
  BY DEF Overround, SumOf
<1>11. SumOf(impl, D) > 0
  <2>1. PICK i \in D : TRUE
    <3>1. D # {}
      BY <1>1, <1>4, FS_EmptySet
    <3> QED
      BY <3>1
  <2>2. \A x \in D \ {i} : impl[x] \in Nat
    BY <1>9
  <2>3. \A x \in D : impl[x] \in Int
    BY <1>9
  <2>4. impl[i] \in Nat \ {0}
    BY <1>9
  <2> HIDE DEF impl, D
  <2>5. SumOf(impl, D) = impl[i] + SumOf(impl, D \ {i})
    BY <1>3, <2>3, SumWithout
  <2>6. SumOf(impl, D \ {i}) \in Nat
    BY <1>3, <2>2, FS_Subset, SumIsNatural
  <2> QED
    BY <2>4, <2>5, <2>6
<1>12. \A i \in D : fair[i] = (1000 * impl[i]) \div SumOf(impl, D)
  BY <1>10, <1>11 DEF RemoveMargin
<1>13. SumOf(fair, D) \in 1000 - Cardinality(D) .. 1000
  <2>1. \A i \in D : impl[i] \in Nat
    BY <1>9
  <2> HIDE DEF impl, fair, D
  <2> QED
    BY <1>3, <1>11, <1>12, <2>1, SharesAddUp
<1> DEFINE told == [r \in rows |-> r.fair]
<1>14. \A i \in D : made[i] \in rows /\ told[made[i]] = fair[i]
  <2>1. \A i \in D : made[i].fair = fair[i]
    BY DEF OddsRow
  <2> HIDE DEF made, fair
  <2> QED
    BY <2>1
<1>15. SumOf(told, rows) = SumOf(fair, D)
  <2>1. \A i \in D : fair[i] \in Int
    <3>1. SumOf(impl, D) \in Int
      <4>1. \A i \in D : impl[i] \in Int
        BY <1>9
      <4> HIDE DEF impl, D
      <4> QED
        BY <1>3, <4>1, SumTyped
    <3> DEFINE sum == SumOf(impl, D)
    <3>2. sum \in Int /\ sum > 0 /\ \A i \in D : fair[i] = (1000 * impl[i]) \div sum
      BY <1>11, <1>12, <3>1
    <3>3. \A i \in D : 1000 * impl[i] \in Int
      BY <1>9
    <3> HIDE DEF sum, impl, fair
    <3> QED
      BY <3>2, <3>3
  <2>2. \A i \in D : told[made[i]] \in Int
    BY <1>14, <2>1
  <2> HIDE DEF told, made, fair, D
  <2>3. SumOf([i \in D |-> told[made[i]]], D) = SumOf(told, {made[i] : i \in D})
    BY <1>3, <1>7, <2>2, SumRenamed
  <2>4. SumOf([i \in D |-> told[made[i]]], D) = SumOf(fair, D)
    <3> DEFINE seen == [i \in D |-> told[made[i]]]
    <3>1. \A i \in D : fair[i] \in Int /\ seen[i] = fair[i]
      BY <1>14, <2>1
    <3> HIDE DEF seen
    <3>2. SumOf(seen, D) = SumOf(fair, D)
      BY <1>3, <3>1, SumSame
    <3> QED
      BY <3>2 DEF seen
  <2> QED
    BY <2>3, <2>4
<1>16. SumOf(told, rows) \in 1000 - Cardinality(rows) .. 1000
  BY <1>8, <1>13, <1>15
<1>17. /\ {r.selection : r \in rows} = Outcomes[market]
       /\ Cardinality(rows) = Cardinality(Outcomes[market])
  BY <1>4, <1>6, <1>8
<1> HIDE DEF rows
<1>18. IsWhole(rows, market)
  BY <1>16, <1>17 DEF IsWhole, SumOf
<1> QED
  BY <1>5, <1>18

LEMMA RowKeys ==
    ASSUME NEW at, NEW book, NEW market, NEW outcomes, NEW r \in MarketRows(at, book, market, outcomes)
    PROVE  r.at = at /\ r.book = book /\ r.market = market
<1>1. \E o, fair : r = OddsRow(at, book, market, o, fair)
  BY Zenon DEF MarketRows
<1> QED
  BY <1>1 DEF OddsRow

(* What is taken for granted of an answer makes each of its markets a book.*)
LEMMA FlatIsBook ==
    ASSUME NEW entries, IsOrdinaryFlat(entries), NEW e \in entries, NEW market \in DOMAIN Outcomes
    PROVE  IsBook(FlatOutcomes(e, market), market)
<1> DEFINE fields == {f \in DOMAIN e.odds : f[1] = market /\ IsPriced(e.odds[f])}
           outcomes == FlatOutcomes(e, market)
<1>1. DOMAIN outcomes = fields
  BY DEF FlatOutcomes
<1>2. \A f \in fields : outcomes[f].selection = f[2] /\ outcomes[f].odd = e.odds[f]
  BY DEF FlatOutcomes
<1>3. \A f \in fields : \E o \in Outcomes[market] : f = <<market, o>>
  BY DEF IsOrdinaryFlat
<1>4. \A f \in fields : e.odds[f] \in Priced
  BY DEF IsOrdinaryFlat, OddRange, IsPriced, Priced
<1> HIDE DEF outcomes, fields
<1>5. \A f \in fields : outcomes[f].selection \in Outcomes[market] /\ outcomes[f].odd \in Priced
  BY <1>2, <1>3, <1>4
<1>6. \A f, g \in fields : outcomes[f].selection = outcomes[g].selection => f = g
  BY <1>2, <1>3
<1>7. IsBook(outcomes, market)
  BY <1>1, <1>5, <1>6 DEF IsBook
<1> QED
  BY <1>7 DEF outcomes

GroupedMarkets == {"1X2", "BTTS", "OU_2.5"}

LEMMA GroupedIsBook ==
    ASSUME NEW books, IsOrdinaryApiSports(books), NEW b \in books, NEW market \in GroupedMarkets
    PROVE  IsBook(GroupedOutcomes(b.bets, market), market)
<1> DEFINE outcomes == GroupedOutcomes(b.bets, market)
<1>1. \A c \in DOMAIN outcomes : outcomes[c].selection \in Outcomes[market] /\ IsPriced(outcomes[c].odd)
  <2>1. ASSUME NEW c \in DOMAIN outcomes
        PROVE  IsBetOn(market, b.bets[c[1]].name, b.bets[c[1]].values[c[2]])
    BY <2>1 DEF GroupedOutcomes
  <2>2. \A c \in DOMAIN outcomes : /\ outcomes[c].selection = b.bets[c[1]].values[c[2]].label
                                   /\ outcomes[c].odd = b.bets[c[1]].values[c[2]].odd
    BY DEF GroupedOutcomes
  <2> HIDE DEF outcomes
  <2> QED
    BY <2>1, <2>2 DEF IsBetOn
<1>2. /\ \A i, j \in DOMAIN outcomes : outcomes[i].selection = outcomes[j].selection => i = j
      /\ \A i \in DOMAIN outcomes : outcomes[i].odd \in OddRange
  BY DEF IsOrdinaryApiSports, GroupedMarkets
<1> HIDE DEF outcomes
<1>3. \A i \in DOMAIN outcomes : outcomes[i].odd \in Priced
  BY <1>1, <1>2 DEF OddRange, IsPriced, Priced
<1>4. IsBook(outcomes, market)
  BY <1>1, <1>2, <1>3 DEF IsBook
<1> QED
  BY <1>4 DEF outcomes

(* Quotes of a match under way are of no partition.                        *)
LEMMA LiveIsNoPartition ==
    ASSUME NEW at, NEW entry, NEW r \in LiveRows(at, entry)
    PROVE  ~ IsPartition(r.market)
<1>1. PICK i \in LiveIndices(entry) :
          r \in MarketRows(at, BookOf(entry, entry.live[i]), entry.live[i].market,
                           LiveOutcomes(entry, BookOf(entry, entry.live[i]), entry.live[i].market))
  BY DEF LiveRows
<1>2. r.market = entry.live[i].market
  BY <1>1, RowKeys
<1>3. entry.live[i].market \in TeamGoalMarkets
  BY DEF LiveIndices, IsMapped
<1> QED
  BY <1>2, <1>3 DEF IsPartition

LEMMA ApifootballAnswerIsWhole ==
    ASSUME NEW at, NEW answer,
           IsOrdinaryFlat({e \in answer : LiveIndices(e) = {} /\ e.book # NoBook})
    PROVE  AreWhole(ApifootballRows(at, answer))
<1> DEFINE flat == {e \in answer : LiveIndices(e) = {} /\ e.book # NoBook}
           rows == ApifootballRows(at, answer)
           of(e, m) == MarketRows(at, e.book, m, FlatOutcomes(e, m))
<1>1. ASSUME NEW r \in rows, IsPartition(r.market)
      PROVE  \E e \in flat : \E m \in DOMAIN Outcomes : r \in of(e, m)
  <2>1. PICK e \in answer : r \in (IF LiveIndices(e) # {} THEN LiveRows(at, e)
                                   ELSE IF e.book # NoBook THEN FlatRows(at, e) ELSE {})
    BY <1>1 DEF ApifootballRows
  <2>2. LiveIndices(e) = {}
    BY <1>1, <2>1, LiveIsNoPartition
  <2>3. e \in flat /\ r \in FlatRows(at, e)
    BY <2>1, <2>2
  <2> QED
    BY <2>3 DEF FlatRows
<1>2. ASSUME NEW e \in flat, NEW m \in DOMAIN Outcomes
      PROVE  of(e, m) \subseteq rows
  <2>1. of(e, m) \subseteq FlatRows(at, e)
    BY DEF FlatRows
  <2> HIDE DEF of
  <2> QED
    BY <2>1 DEF ApifootballRows
<1>3. \A e \in flat, m \in DOMAIN Outcomes : \A r \in of(e, m) :
          r.at = at /\ r.book = e.book /\ r.market = m
  BY RowKeys
<1>4. \A d, e \in flat : d.book = e.book => d = e
  BY DEF IsOrdinaryFlat
<1>5. ASSUME NEW q \in rows, IsPartition(q.market)
      PROVE  IsWhole(GroupIn(rows, q), q.market)
  <2>1. PICK e \in flat : \E m \in DOMAIN Outcomes : q \in of(e, m)
    BY <1>1, <1>5
  <2>2. PICK m \in DOMAIN Outcomes : q \in of(e, m)
    BY <2>1
  <2>3. q.at = at /\ q.book = e.book /\ q.market = m
    BY <1>3, <2>2
  <2>4. IsBook(FlatOutcomes(e, m), m)
    <3> HIDE DEF flat
    <3> QED
      BY FlatIsBook DEF flat
  <2>5. IsWhole(of(e, m), m)
    BY <1>5, <2>2, <2>3, <2>4, RowsAreWhole
  <2> HIDE DEF of, rows, flat
  <2>6. \A r \in GroupIn(rows, q) : r \in of(e, m)
    <3>1. ASSUME NEW r \in rows, r.book = q.book, r.market = q.market
          PROVE  r \in of(e, m)
      <4>1. PICK d \in flat : \E k \in DOMAIN Outcomes : r \in of(d, k)
        BY <1>1, <1>5, <3>1
      <4>2. PICK k \in DOMAIN Outcomes : r \in of(d, k)
        BY <4>1
      <4>3. r.book = d.book /\ r.market = k
        BY <1>3, <4>2
      <4>4. d = e /\ k = m
        BY <1>4, <2>3, <3>1, <4>3
      <4> QED
        BY <4>2, <4>4
    <3> QED
      BY <3>1 DEF GroupIn
  <2>7. of(e, m) \subseteq GroupIn(rows, q)
    BY <1>2, <1>3, <2>3 DEF GroupIn
  <2>8. GroupIn(rows, q) = of(e, m)
    BY <2>6, <2>7
  <2> QED
    BY <2>3, <2>5, <2>8
<1> HIDE DEF rows
<1>6. AreWhole(rows)
  BY <1>5 DEF AreWhole
<1> QED
  BY <1>6 DEF rows

LEMMA ApiSportsAnswerIsWhole ==
    ASSUME NEW at, NEW answer, IsOrdinaryApiSports({b \in UNION answer : b.book # NoBook})
    PROVE  AreWhole(ApiSportsRows(at, answer))
<1> DEFINE books == {b \in UNION answer : b.book # NoBook}
           rows == ApiSportsRows(at, answer)
           of(b, m) == MarketRows(at, b.book, m, GroupedOutcomes(b.bets, m))
<1>1. \A r \in rows : \E b \in books : \E m \in GroupedMarkets : r \in of(b, m)
  BY DEF ApiSportsRows, GroupedMarkets
<1>2. \A b \in books, m \in GroupedMarkets : of(b, m) \subseteq rows
  BY DEF ApiSportsRows, GroupedMarkets
<1>3. \A b \in books, m \in GroupedMarkets : \A r \in of(b, m) :
          r.at = at /\ r.book = b.book /\ r.market = m
  BY RowKeys
<1>4. \A b, c \in books : b.book = c.book => b = c
  BY DEF IsOrdinaryApiSports
<1>5. ASSUME NEW q \in rows, IsPartition(q.market)
      PROVE  IsWhole(GroupIn(rows, q), q.market)
  <2>1. PICK b \in books : \E m \in GroupedMarkets : q \in of(b, m)
    BY <1>1
  <2>2. PICK m \in GroupedMarkets : q \in of(b, m)
    BY <2>1
  <2>3. q.at = at /\ q.book = b.book /\ q.market = m
    BY <1>3, <2>2
  <2>4. IsBook(GroupedOutcomes(b.bets, m), m) /\ m \in DOMAIN Outcomes
    <3>1. m \in DOMAIN Outcomes
      BY DEF GroupedMarkets, Outcomes
    <3> HIDE DEF books
    <3> QED
      BY <3>1, GroupedIsBook DEF books
  <2>5. IsWhole(of(b, m), m)
    BY <1>5, <2>2, <2>3, <2>4, RowsAreWhole
  <2> HIDE DEF of, rows, books
  <2>6. \A r \in GroupIn(rows, q) : r \in of(b, m)
    <3>1. ASSUME NEW r \in rows, r.book = q.book, r.market = q.market
          PROVE  r \in of(b, m)
      <4>1. PICK c \in books : \E k \in GroupedMarkets : r \in of(c, k)
        BY <1>1
      <4>2. PICK k \in GroupedMarkets : r \in of(c, k)
        BY <4>1
      <4>3. r.book = c.book /\ r.market = k
        BY <1>3, <4>2
      <4>4. c = b /\ k = m
        BY <1>4, <2>3, <3>1, <4>3
      <4> QED
        BY <4>2, <4>4
    <3> QED
      BY <3>1 DEF GroupIn
  <2>7. of(b, m) \subseteq GroupIn(rows, q)
    BY <1>2, <1>3, <2>3 DEF GroupIn
  <2>8. GroupIn(rows, q) = of(b, m)
    BY <2>6, <2>7
  <2> QED
    BY <2>3, <2>5, <2>8
<1> HIDE DEF rows
<1>6. AreWhole(rows)
  BY <1>5 DEF AreWhole
<1> QED
  BY <1>6 DEF rows

LEMMA RecordingIsWhole ==
    ASSUME AnswersAreOrdinary, AreWhole(quotes), [Next]_vars
    PROVE  AreWhole(quotes')
<1>0. CASE quotes' = quotes
  BY <1>0
<1>1. ASSUME NEW phase \in Phases, SyncOdds(phase), quotes' # quotes
      PROVE  AreWhole(quotes')
  <2>1. PICK answer \in PrematchAnswers \cup LiveAnswers : quotes' = quotes \cup QuoteRows(clock, answer)
    BY <1>1 DEF SyncOdds
  <2> DEFINE new == QuoteRows(clock, answer)
  <2>2. AreWhole(new)
    <3>1. IsOrdinary(answer)
      BY DEF AnswersAreOrdinary
    <3> QED
      BY <3>1, ApifootballAnswerIsWhole, ApiSportsAnswerIsWhole DEF IsOrdinary, QuoteRows
  <2>3. \A r \in new : r.at = clock
    <3>1. ASSUME NEW book, NEW market, NEW outcomes, NEW r \in MarketRows(clock, book, market, outcomes)
          PROVE  r.at = clock
      BY RowKeys
    <3> QED
      BY <3>1 DEF QuoteRows, ApifootballRows, ApiSportsRows, LiveRows, FlatRows
  <2>4. \A r \in quotes : r.at # clock
    BY <1>1 DEF SyncOdds
  <2>5. quotes' = quotes \cup new
    BY <2>1
  <2> HIDE DEF new
  <2>6. ASSUME NEW q \in quotes
        PROVE  GroupIn(quotes', q) = GroupIn(quotes, q)
    BY <2>3, <2>4, <2>5 DEF GroupIn
  <2>7. ASSUME NEW q \in new
        PROVE  GroupIn(quotes', q) = GroupIn(new, q)
    BY <2>3, <2>4, <2>5 DEF GroupIn
  <2> QED
    BY <2>2, <2>5, <2>6, <2>7 DEF AreWhole
<1>2. ASSUME NEW phase \in Phases, OddsTick(phase), quotes' # quotes
      PROVE  AreWhole(quotes')
  <2>1. SyncOdds(phase)
    BY <1>2 DEF OddsTick, ResumeOdds, OddsFail
  <2> QED
    BY <1>1, <1>2, <2>1
<1>3. CASE PlayOn \/ SyncMatch \/ ImportHistory
  BY <1>0, <1>3 DEF PlayOn, SyncMatch, ImportHistory
<1>4. CASE Execution
  <2>1. UNCHANGED recordVars
    BY <1>4 DEF Execution, Start, AcquireLease, LeaseFails, Claim, Measure, StoreFolds, Complete,
                RunFails, Release, LoseLease, FailOrphans, RunAges, StartTest, StoreBets,
                CompleteTest, TestFails, Die
  <2> QED
    BY <1>0, <2>1 DEF recordVars
<1>5. CASE UNCHANGED vars
  BY <1>0, <1>5 DEF vars, recordVars
<1> QED
  BY <1>0, <1>2, <1>3, <1>4, <1>5 DEF Next

(* buildRowsForMarketGroup: every group of fair probabilities is of a whole*)
(* market, and makes up one but for rounding, whatever the provider        *)
(* answers, entry by entry, whenever and however often: as long as it      *)
(* names a bookmaker and an outcome once in an answer.                     *)
THEOREM MarketsStoredWhole ==
    ASSUME AnswersAreOrdinary
    PROVE  Spec => []MarketsAreWhole
<1>1. MarketsAreWhole <=> AreWhole(quotes)
  BY DEF MarketsAreWhole, AreWhole, GroupIn
<1>2. Init => MarketsAreWhole
  BY DEF Init, InitReplay, MarketsAreWhole
<1>3. MarketsAreWhole /\ [Next]_vars => MarketsAreWhole'
  <2>1. MarketsAreWhole' <=> AreWhole(quotes')
    BY DEF MarketsAreWhole, AreWhole, GroupIn
  <2> QED
    BY <1>1, <2>1, RecordingIsWhole
<1> QED
  BY <1>2, <1>3, PTL DEF Spec

-----------------------------------------------------------------------------
(* Folds *)

IsRequest(p) == /\ p.from \in Int /\ p.to \in Int
                /\ p.train \in Nat /\ p.validation \in Nat /\ p.test \in Nat /\ p.step \in Nat

LEMMA LaterFoldsAreLater ==
    ASSUME NEW p, IsRequest(p), NEW i \in Int, NEW j \in Int, i < j
    PROVE  /\ ValidationTo(p, i) \in Int /\ ValidationTo(p, j) \in Int
           /\ ValidationTo(p, i) + p.step <= ValidationTo(p, j)
<1>1. i * p.step \in Int /\ j * p.step \in Int
  BY DEF IsRequest
<1>2. i * p.step + p.step <= j * p.step
  <2>1. PICK d \in Nat : j = i + 1 + d
    <3>1. j - i - 1 \in Nat /\ j = i + 1 + (j - i - 1)
      OBVIOUS
    <3> QED
      BY <3>1
  <2>2. j * p.step = i * p.step + p.step + d * p.step
    BY <2>1 DEF IsRequest
  <2>3. d * p.step \in Nat
    BY DEF IsRequest
  <2> DEFINE x == d * p.step
             y == i * p.step
             z == j * p.step
  <2>4. x \in Nat /\ y \in Int /\ z = y + p.step + x
    BY <1>1, <2>2, <2>3
  <2> HIDE DEF x, y, z
  <2>5. y + p.step <= z
    BY <2>4 DEF IsRequest
  <2> QED
    BY <2>5 DEF y, z
<1> QED
  BY <1>1, <1>2 DEF ValidationTo, TrainFrom, IsRequest

LEMMA FoldFields ==
    ASSUME NEW p, NEW i
    PROVE  /\ Fold(p, i).train.to = TrainFrom(p, i) + p.train
           /\ Fold(p, i).validation.from = TrainFrom(p, i) + p.train
           /\ Fold(p, i).validation.to = ValidationTo(p, i)
           /\ Fold(p, i).test.from = ValidationTo(p, i)
           /\ Fold(p, i).test.to = ValidationTo(p, i) + p.test
           /\ TestTo(p, i) <= p.to => Fold(p, i).complete
<1>1. /\ Fold(p, i).train = [from |-> TrainFrom(p, i), to |-> TrainFrom(p, i) + p.train]
      /\ Fold(p, i).validation = [from |-> TrainFrom(p, i) + p.train, to |-> ValidationTo(p, i)]
      /\ Fold(p, i).test = [from |-> ValidationTo(p, i), to |-> TestTo(p, i)]
  BY DEF Fold
<1>2. TestTo(p, i) <= p.to => Fold(p, i).complete
  BY DEF Fold
<1> QED
  BY <1>1, <1>2 DEF TestTo

(* buildFolds: the folds of any request are tested once and after what     *)
(* they were trained on, and all but the last are complete.                *)
THEOREM FoldsTestOutOfSample ==
    ASSUME NEW p, IsRequest(p)
    PROVE  IsOutOfSample(FoldsOf(p))
<1> DEFINE starts == {i \in 0 .. MaxFolds : /\ ValidationTo(p, i) < p.to
                                            /\ i > 0 => TestTo(p, i - 1) <= p.to}
           n  == Cardinality(starts)
           fs == [i \in 1 .. n |-> Fold(p, i - 1)]
<1>1. CASE FoldsOf(p) = <<>>
  BY <1>1 DEF IsOutOfSample
<1>2. CASE FoldsOf(p) # <<>>
  <2>1. FoldsOf(p) = fs /\ p.test <= p.step
    BY <1>2 DEF FoldsOf, IsRequest
  <2>2. IsFiniteSet(starts) /\ n \in Nat /\ \A i \in starts : i \in Nat
    <3>1. MaxFolds \in Nat /\ IsFiniteSet(0 .. MaxFolds) /\ starts \subseteq 0 .. MaxFolds
      BY LimitsAssumption, FS_Interval
    <3>2. IsFiniteSet(starts)
      BY <3>1, FS_Subset
    <3> HIDE DEF starts
    <3> QED
      BY <3>1, <3>2, FS_CardinalityType
  <2>3. ASSUME NEW i \in 1 .. n, i < n
        PROVE  TestTo(p, i - 1) <= p.to
    <3>1. PICK j \in starts : j >= i
      <4>1. SUFFICES ASSUME \A j \in starts : j < i PROVE FALSE
        BY <2>2
      <4>2. starts \subseteq 0 .. i - 1
        BY <2>2, <4>1
      <4>3. IsFiniteSet(0 .. i - 1) /\ Cardinality(0 .. i - 1) = i
        BY FS_Interval
      <4> HIDE DEF starts
      <4>4. n <= i
        BY <4>2, <4>3, FS_Subset
      <4> QED
        BY <2>2, <2>3, <4>4
    <3>2. j > 0 /\ j \in Int /\ i \in Int
      BY <2>2, <3>1
    <3>3. TestTo(p, j - 1) <= p.to
      BY <3>1, <3>2
    <3>4. CASE j = i
      BY <3>3, <3>4
    <3>5. CASE j > i
      <4>1. ValidationTo(p, i - 1) \in Int /\ ValidationTo(p, j - 1) \in Int
            /\ ValidationTo(p, i - 1) + p.step <= ValidationTo(p, j - 1)
        BY <3>2, <3>5, LaterFoldsAreLater
      <4> QED
        BY <3>3, <4>1 DEF TestTo, IsRequest
    <3> QED
      BY <3>1, <3>2, <3>4, <3>5
  <2>4. DOMAIN fs = 1 .. n /\ Len(fs) = n
    BY <2>2
  <2>5. \A i \in 1 .. n : fs[i] = Fold(p, i - 1)
    OBVIOUS
  <2>6. ASSUME NEW i \in 1 .. n
        PROVE  ValidationTo(p, i - 1) \in Int
    <3>1. i - 1 \in Int /\ i \in Int /\ i - 1 < i
      OBVIOUS
    <3> QED
      BY <3>1, LaterFoldsAreLater
  <2> HIDE DEF fs, n
  <2>7. ASSUME NEW i \in 1 .. n
        PROVE  /\ fs[i].train.to <= fs[i].validation.from
               /\ fs[i].validation.to <= fs[i].test.from
               /\ i < n => fs[i].complete
    <3>1. TrainFrom(p, i - 1) + p.train \in Int
      <4>1. i - 1 \in Int /\ p.step \in Int
        BY DEF IsRequest
      <4>2. (i - 1) * p.step \in Int
        BY <4>1
      <4> QED
        BY <4>2 DEF TrainFrom, IsRequest
    <3>2. /\ fs[i].train.to = TrainFrom(p, i - 1) + p.train
          /\ fs[i].validation.from = TrainFrom(p, i - 1) + p.train
          /\ fs[i].validation.to = ValidationTo(p, i - 1)
          /\ fs[i].test.from = ValidationTo(p, i - 1)
          /\ TestTo(p, i - 1) <= p.to => fs[i].complete
      BY <2>5, FoldFields
    <3>3. i < n => fs[i].complete
      BY <2>3, <3>2
    <3>4. \A x \in Int : x <= x
      OBVIOUS
    <3> QED
      BY <2>6, <3>1, <3>2, <3>3, <3>4, Zenon
  <2>8. ASSUME NEW i \in 1 .. n, NEW j \in 1 .. n, i < j
        PROVE  fs[i].test.to <= fs[j].test.from
    <3>1. ValidationTo(p, i - 1) + p.step <= ValidationTo(p, j - 1)
          /\ ValidationTo(p, i - 1) \in Int /\ ValidationTo(p, j - 1) \in Int
      <4>1. i - 1 \in Int /\ j - 1 \in Int /\ i - 1 < j - 1
        BY <2>8
      <4> QED
        BY <4>1, LaterFoldsAreLater
    <3>2. fs[i].test.to = ValidationTo(p, i - 1) + p.test
      BY <2>5, FoldFields
    <3>3. fs[j].test.from = ValidationTo(p, j - 1)
      BY <2>5, FoldFields
    <3> DEFINE v == ValidationTo(p, i - 1)
               w == ValidationTo(p, j - 1)
               s == p.step
               t == p.test
    <3>4. v \in Int /\ w \in Int /\ s \in Int /\ t \in Int /\ t <= s /\ v + s <= w
      BY <2>1, <3>1 DEF IsRequest
    <3> HIDE DEF v, w, s, t
    <3>5. v + t <= w
      BY <3>4
    <3> QED
      BY <3>2, <3>3, <3>5 DEF v, w, t
  <2> QED
    BY <2>1, <2>4, <2>7, <2>8 DEF IsOutOfSample
<1> QED
  BY <1>1, <1>2

-----------------------------------------------------------------------------
(* Stakes *)

IsStrategy(st) == st.bankroll \in Int /\ st.amount \in Int

(* Odds do not pay less than the stake back.                               *)
ArePayable(bets) == \A b \in bets : b.odd \in Nat /\ b.odd >= 1000

StakedBets(bets) == [outcome : {b.outcome : b \in bets}, stake : Nat, profit : Int]

ProfitSum(rows) == SumOf([i \in DOMAIN rows |-> rows[i].profit], DOMAIN rows)

Accounts(st, bets) ==
    {acc \in [bankroll : Nat, peak : Nat, drawdown : 0 .. 1000, staked : Nat, bets : Seq(StakedBets(bets))] :
        /\ acc.bankroll <= acc.peak
        /\ acc.bankroll = AtLeast(0, st.bankroll) + ProfitSum(acc.bets)}

LEMMA StakeIsCovered ==
    ASSUME NEW st, IsStrategy(st), NEW bankroll \in Nat
    PROVE  StakeFor(st, bankroll) \in 0 .. bankroll
<1> DEFINE share == bankroll * st.amount
           asked == IF st.staking = "PERCENT_BANKROLL" THEN share \div 100 ELSE st.amount
<1>1. share \in Int
  BY DEF IsStrategy
<1> HIDE DEF share
<1>2. asked \in Int
  BY <1>1 DEF IsStrategy
<1> HIDE DEF asked
<1>3. AtLeast(0, AtMost(asked, bankroll)) \in 0 .. bankroll
  BY <1>2 DEF AtLeast, AtMost
<1> QED
  BY <1>3 DEF StakeFor, asked, share

LEMMA LossIsStake ==
    ASSUME NEW bet, bet.odd \in Nat, bet.odd >= 1000, NEW stake \in Nat
    PROVE  ProfitOf(bet, stake) \in Int /\ ProfitOf(bet, stake) >= -stake
<1> DEFINE won == (bet.odd - 1000) * stake
<1>1. won \in Nat
  <2> DEFINE gain == bet.odd - 1000
  <2>1. gain \in Nat
    OBVIOUS
  <2> HIDE DEF gain
  <2>2. gain * stake \in Nat
    BY <2>1
  <2> QED
    BY <2>2 DEF gain
<1>2. ProfitOf(bet, stake) = (IF bet.outcome = "WON" THEN won \div 1000
                              ELSE IF bet.outcome = "LOST" THEN -stake ELSE 0)
  BY DEF ProfitOf
<1> HIDE DEF won
<1>3. won \div 1000 \in Nat
  BY <1>1
<1> QED
  BY <1>2, <1>3

LEMMA ProfitsAddUp ==
    ASSUME NEW R, \A r \in R : r.profit \in Int, NEW rows \in Seq(R), NEW r \in R
    PROVE  ProfitSum(Append(rows, r)) = ProfitSum(rows) + r.profit
<1> DEFINE D == DOMAIN rows
           n == Len(rows) + 1
           old == [i \in D |-> rows[i].profit]
           new == [i \in DOMAIN Append(rows, r) |-> Append(rows, r)[i].profit]
<1>1. D = 1 .. Len(rows) /\ Len(rows) \in Nat /\ n \notin D /\ IsFiniteSet(D)
  BY LenProperties, FS_Interval
<1>2. DOMAIN Append(rows, r) = D \cup {n}
  BY <1>1, AppendProperties
<1>3. /\ \A i \in D : new[i] = old[i] /\ old[i] \in Int
      /\ new[n] = r.profit
  <2>1. \A i \in D : Append(rows, r)[i] = rows[i] /\ rows[i] \in R
    BY <1>1, AppendProperties
  <2>2. Append(rows, r)[n] = r
    BY AppendProperties
  <2>3. \A i \in D \cup {n} : new[i] = Append(rows, r)[i].profit
    BY <1>2
  <2> HIDE DEF new, n, D
  <2>4. n \in D \cup {n}
    OBVIOUS
  <2> QED
    BY <2>1, <2>2, <2>3, <2>4 DEF D
<1>4. SumOf(new, D \cup {n}) = SumOf(new, D) + new[n]
  <2>1. \A i \in D \cup {n} : new[i] \in Int
    BY <1>3
  <2> HIDE DEF new, n, D
  <2> QED
    BY <1>1, <2>1, SumWith
<1>5. SumOf(new, D) = SumOf(old, D)
  <2> HIDE DEF new, old, D
  <2> QED
    BY <1>1, <1>3, SumSame
<1>6. ProfitSum(Append(rows, r)) = SumOf(new, D \cup {n}) /\ ProfitSum(rows) = SumOf(old, D)
  BY <1>2 DEF ProfitSum
<1> HIDE DEF new, old, n, D
<1> QED
  BY <1>3, <1>4, <1>5, <1>6

(* A bet more keeps the account in order.                                  *)
LEMMA StakeStays ==
    ASSUME NEW st, IsStrategy(st), NEW bets, ArePayable(bets), NEW acc \in Accounts(st, bets), NEW bet \in bets
    PROVE  Stake(st, acc, bet) \in Accounts(st, bets)
<1> DEFINE R      == StakedBets(bets)
           bank   == acc.bankroll
           stake  == StakeFor(st, bank)
           profit == ProfitOf(bet, stake)
           after  == bank + profit
           peak   == AtLeast(acc.peak, after)
           down   == IF peak > 0 THEN ((peak - after) * 1000) \div peak ELSE 0
           r      == [outcome |-> bet.outcome, stake |-> stake, profit |-> profit]
           more   == Append(acc.bets, r)
           risk   == IF bet.outcome \in {"WON", "LOST"} THEN stake ELSE 0
           start  == AtLeast(0, st.bankroll)
<1>1. /\ bank \in Nat /\ acc.peak \in Nat /\ acc.drawdown \in 0 .. 1000 /\ acc.staked \in Nat
      /\ acc.bets \in Seq(R) /\ bank <= acc.peak /\ bank = start + ProfitSum(acc.bets)
  BY DEF Accounts
<1>2. stake \in Nat /\ stake <= bank
  <2>1. stake \in 0 .. bank
    BY <1>1, StakeIsCovered
  <2> HIDE DEF stake, bank
  <2> QED
    BY <1>1, <2>1
<1>3. profit \in Int /\ profit >= -stake
  BY <1>2, LossIsStake DEF ArePayable
<1>4. r \in R
  BY <1>2, <1>3 DEF StakedBets
<1>5. Stake(st, acc, bet) = [bankroll |-> after, peak |-> peak, drawdown |-> AtLeast(acc.drawdown, down),
                             staked |-> acc.staked + risk, bets |-> more]
  BY DEF Stake
<1>6. risk \in Nat
  BY <1>2
<1>7. more \in Seq(R)
  <2> HIDE DEF r, R
  <2> QED
    BY <1>1, <1>4, AppendProperties
<1>8. start \in Int
  BY DEF AtLeast, IsStrategy
<1>9. ProfitSum(more) = ProfitSum(acc.bets) + profit /\ ProfitSum(acc.bets) \in Int
  <2>1. \A x \in R : x.profit \in Int
    BY DEF StakedBets
  <2>2. r.profit = profit
    OBVIOUS
  <2>3. ProfitSum(acc.bets) = bank - start
    <3>1. \E x \in Int : x = ProfitSum(acc.bets)
      <4> DEFINE D == DOMAIN acc.bets
                 f == [i \in D |-> acc.bets[i].profit]
      <4>1. IsFiniteSet(D)
        <5>1. D = 1 .. Len(acc.bets) /\ Len(acc.bets) \in Nat
          BY <1>1, LenProperties
        <5> QED
          BY <5>1, FS_Interval
      <4>2. \A i \in D : f[i] \in Int
        <5>1. \A i \in D : acc.bets[i] \in R
          BY <1>1
        <5> QED
          BY <2>1, <5>1
      <4> HIDE DEF f, D
      <4>3. SumOf(f, D) \in Int
        BY <4>1, <4>2, SumTyped
      <4> QED
        BY <4>3 DEF ProfitSum, f, D
    <3> QED
      BY <1>1, <1>8, <3>1
  <2>4. ProfitSum(more) = ProfitSum(acc.bets) + r.profit
    <3> HIDE DEF r, R
    <3> QED
      BY <1>1, <1>4, <2>1, ProfitsAddUp
  <2>5. bank - start \in Int
    BY <1>1, <1>8
  <2> QED
    BY <2>2, <2>3, <2>4, <2>5
<1> HIDE DEF more, risk, r, R, profit, stake, bank, start
<1>10. after \in Nat /\ after = start + ProfitSum(more)
  BY <1>1, <1>2, <1>3, <1>8, <1>9
<1> HIDE DEF after
<1>11. peak \in Nat /\ after <= peak
  BY <1>1, <1>10 DEF AtLeast
<1> HIDE DEF peak
<1>12. down \in 0 .. 1000
  <2>1. CASE peak > 0
    <3> DEFINE lost == (peak - after) * 1000
               d == lost \div peak
               m == lost % peak
    <3>1. lost \in Nat /\ lost <= 1000 * peak
      BY <1>10, <1>11
    <3> HIDE DEF lost
    <3>2. d \in Nat /\ m \in Nat /\ lost = (peak * d) + m
      BY <1>11, <2>1, <3>1
    <3>3. down = d
      BY <2>1 DEF lost
    <3> HIDE DEF d, m
    <3>4. peak * d \in Nat
      BY <1>11, <3>2
    <3>5. peak * d <= peak * 1000
      BY <1>11, <3>1, <3>2, <3>4
    <3>6. d <= 1000
      BY <1>11, <2>1, <3>2, <3>5, ProductsCompare
    <3> QED
      BY <3>2, <3>3, <3>6
  <2>2. CASE ~ (peak > 0)
    BY <2>2
  <2> QED
    BY <2>1, <2>2
<1> HIDE DEF down
<1>13. AtLeast(acc.drawdown, down) \in 0 .. 1000 /\ acc.staked + risk \in Nat
  BY <1>1, <1>6, <1>12 DEF AtLeast
<1> QED
  BY <1>5, <1>7, <1>10, <1>11, <1>13 DEF Accounts, R, start

LEMMA TurnsStay ==
    ASSUME NEW st, IsStrategy(st), NEW bets, ArePayable(bets), NEW turns \in Seq(bets)
    PROVE  StakedInTurn(st, turns) \in Accounts(st, bets)
<1> DEFINE J == Accounts(st, bets)
           D == DOMAIN turns
           start == [bankroll |-> AtLeast(0, st.bankroll), peak |-> AtLeast(0, st.bankroll),
                     drawdown |-> 0, staked |-> 0, bets |-> <<>>]
           isIter(f) == f = [d \in SUBSET D |->
                               IF d = {} THEN start
                               ELSE LET x == Max(d)
                                    IN  Stake(st, f[d \ {x}], turns[x])]
           iter == CHOOSE f : isIter(f)
           step == [x \in D |-> [acc \in J |-> Stake(st, acc, turns[x])]]
<1>1. StakedInTurn(st, turns) = iter[D]
  BY DEF StakedInTurn, FoldLeft, MapThenFoldSet
<1>2. IsFiniteSet(D) /\ D \subseteq Int
  <2>1. D = 1 .. Len(turns) /\ Len(turns) \in Nat
    BY LenProperties
  <2> QED
    BY <2>1, FS_Interval
<1>3. \A x \in D : turns[x] \in bets
  OBVIOUS
<1>4. start \in J
  <2> DEFINE none == [i \in DOMAIN <<>> |-> <<>>[i].profit]
             bank == AtLeast(0, st.bankroll)
  <2>1. DOMAIN <<>> = {}
    OBVIOUS
  <2>2. ProfitSum(<<>>) = 0
    <3>1. ProfitSum(<<>>) = SumOf(none, DOMAIN <<>>)
      BY DEF ProfitSum
    <3> HIDE DEF none
    <3> QED
      BY <2>1, <3>1, SumEmpty
  <2>3. bank \in Nat
    BY DEF AtLeast, IsStrategy
  <2>4. <<>> \in Seq(StakedBets(bets))
    OBVIOUS
  <2>5. bank <= bank /\ bank = bank + ProfitSum(<<>>)
    BY <2>2, <2>3
  <2>6. start = [bankroll |-> bank, peak |-> bank, drawdown |-> 0, staked |-> 0, bets |-> <<>>]
    OBVIOUS
  <2>b. bank = AtLeast(0, st.bankroll)
    OBVIOUS
  <2> HIDE DEF bank, start
  <2> QED
    BY <2>3, <2>4, <2>5, <2>6, <2>b DEF Accounts
<1>5. step \in [D -> [J -> J]]
  <2>1. \A x \in D, acc \in J : Stake(st, acc, turns[x]) \in J
    BY <1>3, StakeStays
  <2> HIDE DEF J
  <2> QED
    BY <2>1
<1>6. \A d \in SUBSET D : d # {} => Max(d) \in d
  <2> HIDE DEF D
  <2> QED
    BY <1>2, MaxIsElement, FS_Subset
<1> HIDE DEF J, D, start
<1>7. PICK h \in [SUBSET D -> J] : IsLeftFold(h, D, step, start)
  <2> HIDE DEF step
  <2> QED
    BY <1>2, <1>4, <1>5, LeftFoldExists
<1>8. isIter(h)
  <2>1. h[{}] = start /\ \A d \in SUBSET D : d # {} => h[d] = step[Max(d)][h[d \ {Max(d)}]]
    BY <1>7 DEF IsLeftFold
  <2>2. ASSUME NEW d \in SUBSET D, d # {}
        PROVE  h[d] = Stake(st, h[d \ {Max(d)}], turns[Max(d)])
    <3>1. Max(d) \in D /\ h[d \ {Max(d)}] \in J
      BY <1>6, <2>2
    <3> QED
      BY <2>1, <2>2, <3>1
  <2> QED
    BY <2>1, <2>2
<1>9. isIter(iter)
  <2> HIDE DEF isIter
  <2> QED
    BY <1>8
<1> HIDE DEF iter
<1>10. /\ iter[{}] = start
       /\ \A d \in SUBSET D : d # {} => iter[d] = Stake(st, iter[d \ {Max(d)}], turns[Max(d)])
  <2>1. {} \in SUBSET D
    OBVIOUS
  <2> QED
    BY <1>9, <2>1
<1> HIDE DEF isIter
<1> DEFINE B == {d \in SUBSET D : iter[d] \notin J}
<1>11. B = {}
  <2>1. SUFFICES ASSUME B # {} PROVE FALSE
    OBVIOUS
  <2>2. PICK d \in B : \A t \in B : t \subseteq d => t = d
    <3>1. B \subseteq SUBSET D
      OBVIOUS
    <3>2. IsFiniteSet(D)
      BY <1>2
    <3> HIDE DEF B
    <3> QED
      BY <2>1, <3>1, <3>2, SmallestSubset
  <2>3. d # {}
    BY <1>4, <1>10, <2>2
  <2>4. Max(d) \in d /\ d \ {Max(d)} \in SUBSET D /\ d \ {Max(d)} # d
    BY <1>6, <2>2, <2>3
  <2>5. iter[d \ {Max(d)}] \in J
    BY <2>2, <2>4
  <2> DEFINE acc == iter[d \ {Max(d)}]
             bet == turns[Max(d)]
  <2>6. iter[d] \in J
    <3>1. iter[d] = Stake(st, acc, bet)
      BY <1>10, <2>2, <2>3
    <3>2. acc \in J /\ bet \in bets
      BY <1>3, <2>2, <2>4, <2>5
    <3> HIDE DEF acc, bet
    <3>3. Stake(st, acc, bet) \in J
      BY <3>2, StakeStays DEF J
    <3> QED
      BY <3>1, <3>3
  <2> QED
    BY <2>2, <2>6
<1>12. iter[D] \in J
  BY <1>11
<1> QED
  BY <1>1, <1>12 DEF J

(* applyStakingAndComputeKpis, "jamais de solde negatif": whatever bets are*)
(* staked in whatever order, the bankroll stays covered, is the sum of what*)
(* the bets made of it, and has a drawdown of at most all of it.           *)
THEOREM BankrollStaysSolvent ==
    ASSUME NEW st, IsStrategy(st), NEW bets, ArePayable(bets), NEW turns \in Seq(bets)
    PROVE  IsSolvent(st, StakedInTurn(st, turns))
<1> DEFINE end == StakedInTurn(st, turns)
<1>1. end \in Accounts(st, bets)
  BY TurnsStay
<1> HIDE DEF end
<1>2. /\ end.bankroll \in Nat /\ end.drawdown \in 0 .. 1000
      /\ end.bets \in Seq(StakedBets(bets))
      /\ end.bankroll = AtLeast(0, st.bankroll) + ProfitSum(end.bets)
  BY <1>1 DEF Accounts
<1>3. \A i \in DOMAIN end.bets : end.bets[i].stake >= 0
  <2>1. \A i \in DOMAIN end.bets : end.bets[i] \in StakedBets(bets)
    BY <1>2
  <2> QED
    BY <2>1 DEF StakedBets
<1>4. IsSolvent(st, end)
  BY <1>2, <1>3 DEF IsSolvent, ProfitSum, SumOf
<1> QED
  BY <1>4 DEF end

-----------------------------------------------------------------------------
(* Imports *)

LEMMA SmallMultiple ==
    ASSUME NEW max \in Nat \ {0}, NEW z \in Int, max * z \in 0 .. max - 1
    PROVE  z = 0
<1>1. ~ (z >= 1)
  <2>1. SUFFICES ASSUME z >= 1 PROVE FALSE
    OBVIOUS
  <2>2. PICK d \in Nat : z = 1 + d
    <3>1. z - 1 \in Nat /\ z = 1 + (z - 1)
      BY <2>1
    <3> QED
      BY <3>1
  <2>3. max * z = max + max * d /\ max * d \in Nat
    BY <2>2
  <2> QED
    BY <2>3
<1>2. ~ (z <= -1)
  <2>1. SUFFICES ASSUME z <= -1 PROVE FALSE
    OBVIOUS
  <2>2. PICK d \in Nat : z = -1 - d
    <3>1. -1 - z \in Nat /\ z = -1 - (-1 - z)
      BY <2>1
    <3> QED
      BY <3>1
  <2>3. max * z = -max - max * d /\ max * d \in Nat
    BY <2>2
  <2> QED
    BY <2>3
<1> QED
  BY <1>1, <1>2

(* The greatest multiple that is not above a number.                       *)
LEMMA MultipleBelow ==
    ASSUME NEW max \in Nat \ {0}, NEW k \in Nat
    PROVE  /\ k - (k % max) \in 0 .. k
           /\ (k - (k % max)) % max = 0
           /\ k % max \in 0 .. max - 1
<1> DEFINE q == k \div max
           m == k % max
           x == k - m
           y == x \div max
           n == x % max
<1>1. q \in Nat /\ m \in 0 .. max - 1 /\ k = (max * q) + m
  OBVIOUS
<1>2. max * q \in Nat /\ x = max * q /\ x \in 0 .. k
  BY <1>1
<1> HIDE DEF x
<1>3. y \in Nat /\ n \in 0 .. max - 1 /\ x = (max * y) + n
  BY <1>2
<1> HIDE DEF q, m, y, n
<1>4. max * (q - y) = (max * q) - (max * y) /\ max * y \in Int
  BY <1>1, <1>3
<1>5. n = max * (q - y)
  BY <1>2, <1>3, <1>4
<1>6. q - y = 0
  BY <1>1, <1>3, <1>5, SmallMultiple
<1>7. n = 0
  BY <1>5, <1>6
<1> QED
  BY <1>1, <1>2, <1>7 DEF x, m, n

(* Multiples are that far apart.                                           *)
LEMMA MultiplesApart ==
    ASSUME NEW max \in Nat \ {0}, NEW a \in Nat, NEW b \in Nat, a % max = 0, b % max = 0, a < b
    PROVE  a + max <= b
<1> DEFINE p == a \div max
           q == b \div max
<1>1. p \in Nat /\ q \in Nat /\ a = (max * p) + (a % max) /\ b = (max * q) + (b % max)
  OBVIOUS
<1> HIDE DEF p, q
<1>2. a = max * p /\ b = max * q
  <2>1. max * p \in Nat /\ max * q \in Nat
    BY <1>1
  <2> QED
    BY <1>1, <2>1
<1>3. ~ (q <= p)
  <2>1. SUFFICES ASSUME q <= p PROVE FALSE
    OBVIOUS
  <2>2. PICK d \in Nat : p = q + d
    <3>1. p - q \in Nat /\ p = q + (p - q)
      BY <1>1, <2>1
    <3> QED
      BY <3>1
  <2>3. max * p = max * q + max * d /\ max * d \in Nat
    BY <1>1, <2>2
  <2> QED
    BY <1>2, <2>3
<1>4. PICK d \in Nat : q = p + 1 + d
  <2>1. q - p - 1 \in Nat /\ q = p + 1 + (q - p - 1)
    BY <1>1, <1>3
  <2> QED
    BY <2>1
<1>5. max * q = max * p + max + max * d /\ max * d \in Nat
  BY <1>1, <1>4
<1> QED
  BY <1>2, <1>5

(* buildWindows: what is imported is every day of the range, once, in      *)
(* requests the provider accepts, for any range and limit.                 *)
THEOREM WindowsCoverOnce ==
    ASSUME NEW from \in Int, NEW to \in Int, NEW max \in Nat \ {0}
    PROVE  CoverOnce(ImportWindows(from, to, max), from, to, max)
<1> DEFINE starts == {e \in from .. to : (e - from) % max = 0}
           end(d) == IF d + max - 1 < to THEN d + max - 1 ELSE to
           window(d) == [from |-> d, to |-> end(d)]
           ws == ImportWindows(from, to, max)
<1>1. ws = {window(d) : d \in starts}
  BY DEF ImportWindows
<1>2. \A d \in starts : /\ d \in Int /\ d >= from /\ d <= to /\ end(d) \in Int
                        /\ end(d) <= to /\ end(d) < d + max
  OBVIOUS
<1>3. ASSUME NEW e \in from .. to
      PROVE  \E d \in starts : e \in d .. end(d)
  <2> DEFINE k == e - from
             d == from + (k - (k % max))
  <2>1. k \in Nat /\ e = from + k
    OBVIOUS
  <2> HIDE DEF k
  <2>2. k - (k % max) \in 0 .. k /\ (k - (k % max)) % max = 0 /\ k % max \in 0 .. max - 1
    BY <2>1, MultipleBelow
  <2> DEFINE m == k % max
  <2>3. d = from + (k - m) /\ m \in 0 .. max - 1 /\ k - m \in 0 .. k
    BY <2>2
  <2>4. d - from = k - m
    BY <2>1, <2>3
  <2>5. d \in from .. to /\ d <= e /\ e < d + max
    <3> HIDE DEF m, d
    <3> QED
      BY <2>1, <2>3
  <2>6. (d - from) % max = 0
    BY <2>2, <2>4
  <2> HIDE DEF d
  <2>7. d \in starts
    BY <2>5, <2>6
  <2>8. e \in d .. end(d)
    BY <2>5
  <2> QED
    BY <2>7, <2>8
<1>4. ASSUME NEW c \in starts, NEW d \in starts, c < d
      PROVE  end(c) < d
  <2> DEFINE a == c - from
             b == d - from
  <2>1. a \in Nat /\ b \in Nat /\ a % max = 0 /\ b % max = 0 /\ a < b
    BY <1>2, <1>4
  <2>2. c = from + a /\ d = from + b
    BY <1>2
  <2> HIDE DEF a, b
  <2>3. a + max <= b
    BY <2>1, MultiplesApart
  <2>4. c + max <= d
    BY <2>1, <2>2, <2>3
  <2> QED
    BY <1>2, <2>4
<1> HIDE DEF starts
<1>5. \A d \in starts : window(d).from = d /\ window(d).to = end(d)
  OBVIOUS
<1>6. UNION {w.from .. w.to : w \in ws} = from .. to
  <2>1. ASSUME NEW w \in ws, NEW e \in w.from .. w.to
        PROVE  e \in from .. to
    <3>1. PICK d \in starts : w = window(d)
      BY <1>1
    <3>2. w.from = d /\ w.to = end(d)
      BY <1>5, <3>1
    <3> HIDE DEF end
    <3> QED
      BY <1>2, <2>1, <3>2
  <2>2. ASSUME NEW e \in from .. to
        PROVE  \E w \in ws : e \in w.from .. w.to
    <3>1. PICK d \in starts : e \in d .. end(d)
      BY <1>3
    <3>2. window(d) \in ws /\ window(d).from = d /\ window(d).to = end(d)
      BY <1>1, <1>5
    <3> HIDE DEF window, end
    <3> QED
      BY <3>1, <3>2
  <2> QED
    BY <2>1, <2>2
<1>7. ASSUME NEW w \in ws
      PROVE  w.to - w.from < max
  <2>1. PICK d \in starts : w = window(d)
    BY <1>1
  <2>2. w.from = d /\ w.to = end(d)
    BY <1>5, <2>1
  <2> HIDE DEF end
  <2> QED
    BY <1>2, <2>2
<1>8. ASSUME NEW v \in ws, NEW w \in ws, v # w
      PROVE  (v.from .. v.to) \cap (w.from .. w.to) = {}
  <2>1. PICK c \in starts : v = window(c)
    BY <1>1
  <2>2. PICK d \in starts : w = window(d)
    BY <1>1
  <2>3. v.from = c /\ v.to = end(c) /\ w.from = d /\ w.to = end(d)
    BY <1>5, <2>1, <2>2
  <2>4. c # d /\ c \in Int /\ d \in Int
    BY <1>2, <1>8, <2>1, <2>2
  <2>5. c < d => end(c) < d
    BY <1>4
  <2>6. d < c => end(d) < c
    BY <1>4
  <2>7. end(c) \in Int /\ end(d) \in Int
    BY <1>2
  <2> HIDE DEF end, window
  <2> QED
    BY <2>3, <2>4, <2>5, <2>6, <2>7
<1> HIDE DEF ws
<1>9. CoverOnce(ws, from, to, max)
  BY <1>6, <1>7, <1>8 DEF CoverOnce
<1> QED
  BY <1>9 DEF ws
=============================================================================
