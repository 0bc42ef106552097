----------------------------- MODULE Simulation -----------------------------
(***************************************************************************)
(* A simulation run (simulation.service.ts): virtual bets decided on live  *)
(* signals, executed at the quote found after a latency, settled from the  *)
(* result of the match.  The journal bet_decisions is the only record: the *)
(* virtual bankroll is summed from it at every tick.                       *)
(*                                                                         *)
(* Every instance of the program may tick (simulation.scheduler.ts).  A    *)
(* tick notes its time, reads the run and the signals without a lock, then *)
(* does all its writing in one transaction that locks the row of the run;  *)
(* other ticks, a stop and the end of the match may come in between.       *)
(***************************************************************************)
EXTENDS MatchRules, FiniteSetsExt

CONSTANTS
    Instances,       \* instances of the program with the scheduler enabled
    SignalOrder,     \* the bets signals are about, in the order of their hashed keys
    Watched,         \* the sides the provider gives statistics of
    Books,           \* bookmakers, numbers in the order of their names
    Strategies,      \* strategies a run may be started with
    InitialBankroll, \* in cents
    Latency,         \* executionLatencyMs, in units of the clock
    MaxQuoteAge,     \* maxQuoteAgeMs
    FreshFor,        \* how long a synchronised match counts as live
    NoResultAfter,   \* NO_RESULT_AFTER_MS
    QuotedOdds,      \* odds the bookmaker may quote, in thousandths
    Delays,          \* delays between observing and receiving a quote
    Scores,          \* goals a side may have
    LastSignal,      \* bound: time of the last synchronisation of a match in play
    LastQuote,       \* bound: time of the last quotes
    LastTime,        \* bound on the clock
    MaxQuotes,       \* bound: no more quotes are received from this number on
    MaxAttempts      \* bound on the orders of one signal

ASSUME SignalsAssumption == SignalOrder \in Seq([market : Markets, side : Sides])
ASSUME TimesAssumption == {Latency, MaxQuoteAge, MaxAttempts} \cup Delays \subseteq Nat
ASSUME QuotesAssumption == QuotedOdds \subseteq Nat /\ Books \subseteq Nat
ASSUME MoneyAssumption == InitialBankroll \in Nat
ASSUME StrategiesAssumption ==
    \A strategy \in Strategies :
        /\ strategy.amount \in Nat /\ strategy.maxStake \in Nat /\ strategy.maxExposure \in Nat
        /\ \A market \in Markets : strategy.rules.odds[market] \in Nat

VARIABLES
    clock,
    match,    \* the match the signals are about, as last synchronised (fixtures row)
    quotes,   \* quotes received (odds_snapshots rows)
    run,      \* the simulation_runs row
    rows,     \* bet_decisions: signal and kind -> row, NoRow when absent
    tick      \* where the scheduler of each instance is

vars == <<clock, match, quotes, run, rows, tick>>

Signals  == Range(SignalOrder)
Refusals == {"NO_EXECUTABLE_ODD", "BELOW_MIN_ODD", "LIMIT_EXCEEDED"}

(* What the idempotency key of a row is made of: one per refusal reason,   *)
(* one per attempt to order.                                               *)
Order(attempt) == <<"ORDER", attempt>>
Refused(code)  == <<"REJECTED", code>>
Kinds == {Order(n) : n \in 0 .. MaxAttempts - 1} \cup {Refused(c) : c \in Refusals}

NoRow   == [status |-> "NONE"]
NoRun   == [status |-> "NONE"]
NoQuote == [odd |-> 0, book |-> 0, observedAt |-> 0, receivedAt |-> 0]
NoTick  == [at |-> "idle"]

-----------------------------------------------------------------------------
(* Quotes.                                                                 *)

(* The quotes of a target that count at an instant: received by then, and  *)
(* observed at most MaxQuoteAge before.  Snapshots of a suspended market   *)
(* are never candidates, nor do they withdraw an earlier one: they are     *)
(* left out.                                                               *)
Candidates(bet, books, at) ==
    {q \in quotes : /\ q.bet = bet /\ q.book \in books
                    /\ q.observedAt <= q.receivedAt
                    /\ q.receivedAt <= at
                    /\ at - q.observedAt \in 0 .. MaxQuoteAge}

Later(p, q) == \/ p.observedAt > q.observedAt
               \/ p.observedAt = q.observedAt /\ p.receivedAt > q.receivedAt
               \/ /\ p.observedAt = q.observedAt /\ p.receivedAt = q.receivedAt
                  /\ p.book < q.book \/ (p.book = q.book /\ p.odd <= q.odd)

(* The latest one; at the same instants, by bookmaker, then by snapshot    *)
(* (here its odd).                                                         *)
SelectLatest(bet, books, at) ==
    LET found == Candidates(bet, books, at)
    IN  IF found = {} THEN NoQuote
        ELSE LET q == CHOOSE q \in found : \A p \in found : Later(q, p)
             IN  [odd |-> q.odd, book |-> q.book, observedAt |-> q.observedAt,
                  receivedAt |-> q.receivedAt]

-----------------------------------------------------------------------------
(* The journal.                                                            *)
OpenOrders(js) == {x \in Signals \X Kinds : js[x[1]][x[2]].status = "ORDER_RESERVED"}
Completed(js)  == {x \in Signals \X Kinds : js[x[1]][x[2]].status = "COMPLETED"}

StakeSum(js, keys)  == MapThenSumSet(LAMBDA x : js[x[1]][x[2]].stake, keys)
ProfitSum(js, keys) == MapThenSumSet(LAMBDA x : js[x[1]][x[2]].profit, keys)

(* bankrollOf: initial + realised - open stakes.                           *)
Exposure(js)  == StakeSum(js, OpenOrders(js))
Available(js) == InitialBankroll + ProfitSum(js, Completed(js)) - Exposure(js)

RequestedStake(strategy, available) ==
    IF strategy.staking = "PERCENT_BANKROLL"
    THEN (available * strategy.amount) \div 100
    ELSE strategy.amount

Least(a, b) == IF a < b THEN a ELSE b

(* Mutant: the bankroll is not updated between the bets of a tick.         *)
StakeAtFirst(js) ==
    Least(Least(RequestedStake(run.strategy, Available(rows)), Available(rows)),
          Least(run.strategy.maxStake, run.strategy.maxExposure - Exposure(rows)))

(* The stake of the next bet, bounded by what is left.                     *)
NextStake(js) ==
    Least(Least(RequestedStake(run.strategy, Available(js)), Available(js)),
          Least(run.strategy.maxStake, run.strategy.maxExposure - Exposure(js)))

(* Profit of a won bet, rounded to the cent.                               *)
WinningProfit(stake, odd) == (stake * (odd - 1000) + 500) \div 1000

Row(status, code, stake, quote, signal, now) ==
    [status |-> status, code |-> code, stake |-> stake, minOdd |-> signal.minOdd,
     decidedAt |-> now, decision |-> quote,
     dueAt |-> IF status = "ORDER_RESERVED" THEN now + Latency ELSE Unknown,
     executable |-> NoQuote, executedAt |-> Unknown,
     outcome |-> "OPEN", profit |-> 0, settledAt |-> Unknown]

-----------------------------------------------------------------------------
(* The three passes of a tick, each a function of the journal.             *)

IsDue(r, now) == /\ r.status = "ORDER_RESERVED" /\ r.executable = NoQuote
                 /\ r.dueAt <= now

(* Mutant: the quote at hand decides.                                      *)
ExecutedAtHand(r, s, now) ==
    LET quote == SelectLatest(s, {r.decision.book}, now)
    IN  IF quote = NoQuote
        THEN [r EXCEPT !.status = "REJECTED", !.code = "NO_EXECUTABLE_ODD", !.executedAt = now]
        ELSE [r EXCEPT !.executable = quote, !.executedAt = now]

(* planExecution: the quote of the same bookmaker at the due time decides, *)
(* not the one at hand.                                                    *)
Executed(r, s, now) ==
    LET quote == SelectLatest(s, {r.decision.book}, r.dueAt)
    IN  IF quote = NoQuote
        THEN [r EXCEPT !.status = "REJECTED", !.code = "NO_EXECUTABLE_ODD", !.executedAt = now]
        ELSE IF quote.odd < r.minOdd
        THEN [r EXCEPT !.status = "REJECTED", !.code = "ODD_MOVED", !.executable = quote,
                       !.executedAt = now]
        ELSE [r EXCEPT !.executable = quote, !.executedAt = now]

(* planSettlement: the result of the match, or none after NoResultAfter.   *)
Outcome(r, s, now) ==
    LET known == ResolveSettlement(match, s)
    IN  IF known = "OPEN" /\ now - r.decidedAt >= NoResultAfter THEN "NO_RESULT" ELSE known

Settled(r, s, now) ==
    LET outcome == Outcome(r, s, now)
        profit  == CASE outcome = "WON"  -> WinningProfit(r.stake, r.executable.odd)
                     [] outcome = "LOST" -> -r.stake
                     [] OTHER            -> 0
    IN  IF outcome = "OPEN" THEN r
        ELSE [r EXCEPT !.status = "COMPLETED", !.outcome = outcome, !.profit = profit,
                       !.settledAt = now]

Advanced(r, s, now) ==
    LET e == IF IsDue(r, now) THEN Executed(r, s, now) ELSE r
    IN  IF e.status = "ORDER_RESERVED" /\ e.executable # NoQuote THEN Settled(e, s, now) ELSE e

(* The first two passes, over the orders still open.                       *)
AdvanceOrders(js, now) ==
    [s \in Signals |-> [k \in Kinds |->
        IF js[s][k].status = "ORDER_RESERVED" THEN Advanced(js[s][k], s, now) ELSE js[s][k]]]

(* INSERT IGNORE: a row whose key is taken is left as it is.               *)
Insert(js, s, k, r) == IF js[s][k] # NoRow THEN js ELSE [js EXCEPT ![s][k] = r]

(* Mutant: only an open bet keeps its signal from being bet on again.      *)
IsOpen(js, s) == \E k \in Kinds : js[s][k].status = "ORDER_RESERVED"

IsCommitted(js, s) == \E k \in Kinds : js[s][k].status \in {"ORDER_RESERVED", "COMPLETED"}

Attempts(js, s) == Cardinality({k \in Kinds : js[s][k] # NoRow /\ js[s][k].stake # Unknown})

(* planNewDecisions for one signal.  Its history is the journal before the *)
(* orders advanced; its stake is bounded by what they, and the orders      *)
(* decided before it in this tick, have left.                              *)
Decide(js, signal, now) ==
    LET s     == [market |-> signal.market, side |-> signal.side]
        quote == SelectLatest(s, Books, now)
        refuse(code) == Insert(js, s, Refused(code),
                               Row("REJECTED", code, Unknown, quote, signal, now))
    IN  IF IsCommitted(rows, s) THEN js
        ELSE IF quote = NoQuote THEN refuse("NO_EXECUTABLE_ODD")
        ELSE IF quote.odd < signal.minOdd THEN refuse("BELOW_MIN_ODD")
        ELSE IF NextStake(js) <= 0 THEN refuse("LIMIT_EXCEEDED")
        ELSE IF Attempts(rows, s) >= MaxAttempts THEN js
        ELSE Insert(js, s, Order(Attempts(rows, s)),
                    Row("ORDER_RESERVED", "", NextStake(js), quote, signal, now))

(* The third pass, signal by signal in the order of the keys.              *)
DecideAll(js, signals, now) ==
    LET step(acc, s) ==
            LET mine == {g \in signals : g.market = s.market /\ g.side = s.side}
            IN  IF mine = {} THEN acc ELSE Decide(acc, CHOOSE g \in mine : TRUE, now)
    IN  FoldLeft(step, js, SignalOrder)

-----------------------------------------------------------------------------
Init ==
    /\ clock = 0
    /\ match = [status |-> "NS", elapsed |-> 0, syncedAt |-> 0,
                score |-> [x \in Sides |-> 0], ht |-> [x \in Sides |-> Unknown],
                signal |-> [x \in Sides |-> Unknown], htSignal |-> [x \in Sides |-> Unknown]]
    /\ quotes = {}
    /\ run = NoRun
    /\ rows = [s \in Signals |-> [k \in Kinds |-> NoRow]]
    /\ tick = [i \in Instances |-> NoTick]

(* A run is started once under its key; asked again, the row that exists   *)
(* is returned or the request refused.                                     *)
Start(strategy) ==
    /\ run = NoRun
    /\ run' = [status |-> "RUNNING", strategy |-> strategy, stoppedAt |-> Unknown]
    /\ UNCHANGED <<clock, match, quotes, rows, tick>>

Stop ==
    /\ run.status = "RUNNING"
    /\ run' = [run EXCEPT !.status = "STOPPED", !.stoppedAt = clock]
    /\ UNCHANGED <<clock, match, quotes, rows, tick>>

(* Signals of the match as it stands: in play and freshly synchronised,    *)
(* pressed enough for a rule, and accepted by the strategy.                *)
LiveSignals ==
    IF clock - match.syncedAt > FreshFor THEN {}
    ELSE {g \in EvaluateRules(match, run.strategy.rules) :
              /\ g.market \in run.strategy.markets
              /\ g.edge >= run.strategy.minEdge
              /\ \/ run.strategy.minConfidence <= 0
                 \/ run.strategy.baseRate[g.market] >= run.strategy.minConfidence}

(* runTick finds something to do and notes the time; tick reads the run    *)
(* and, when it is running, the signals.                                   *)
BeginTick(i) ==
    /\ tick[i] = NoTick
    /\ run.status = "RUNNING" \/ OpenOrders(rows) # {}
    /\ tick' = [tick EXCEPT ![i] =
           [at |-> "ready", now |-> clock,
            signals |-> IF run.status = "RUNNING" THEN LiveSignals ELSE {}]]
    /\ UNCHANGED <<clock, match, quotes, run, rows>>

(* Mutant: the run is not looked at again under the lock.                  *)
TickCommitsAnyway(i) ==
    /\ tick[i].at = "ready"
    /\ rows' = DecideAll(AdvanceOrders(rows, tick[i].now), tick[i].signals, tick[i].now)
    /\ tick' = [tick EXCEPT ![i] = NoTick]
    /\ UNCHANGED <<clock, match, quotes, run>>

(* The transaction: orders advance, then the signals are decided, unless   *)
(* the run is found stopped under the lock.                                *)
TickCommits(i) ==
    /\ tick[i].at = "ready"
    /\ LET moved    == AdvanceOrders(rows, tick[i].now)
           accepted == IF run.status = "RUNNING" THEN tick[i].signals ELSE {}
       IN  rows' = DecideAll(moved, accepted, tick[i].now)
    /\ tick' = [tick EXCEPT ![i] = NoTick]
    /\ UNCHANGED <<clock, match, quotes, run>>

(* The transaction rolls back; the scheduler logs it and goes on.          *)
TickFails(i) ==
    /\ tick[i].at = "ready"
    /\ tick' = [tick EXCEPT ![i] = NoTick]
    /\ UNCHANGED <<clock, match, quotes, run, rows>>

(* The quotes of a bookmaker arrive, some time after the provider saw them. *)
ReceiveQuotes ==
    /\ clock <= LastQuote
    /\ Cardinality(quotes) < MaxQuotes
    /\ \E odd \in QuotedOdds, book \in Books, age \in Delays :
           /\ age <= clock
           /\ quotes' = quotes \cup {[bet |-> s, odd |-> odd, book |-> book,
                                      observedAt |-> clock - age, receivedAt |-> clock] :
                                        s \in Signals}
    /\ UNCHANGED <<clock, match, run, rows, tick>>

(* How a match goes on.  Goals are not taken back, a match that is over or *)
(* called off stays so, and the half-time score is known from then on.     *)
NextStatus == [s \in Statuses |->
    CASE s = "NS" -> {"1H"}
      [] s = "1H" -> {"1H", "HT", "SUSP"}
      [] s = "HT" -> {"2H"}
      [] s = "2H" -> {"FT", "ABD"}
      [] OTHER    -> {}]

SyncMatch ==
    /\ \E status \in NextStatus[match.status], x \in Watched :
       \E goals \in {match.score[x], match.score[x] + 1} \cap Scores,
          shots \in {Unknown, 9}, minute \in {5, 50} :
           /\ status \in FirstHalf => minute = 5 /\ clock <= LastSignal
           /\ status \notin FirstHalf => minute = 50 /\ shots = Unknown
           /\ status = "HT" => goals = match.score[x]
           /\ match' = [match EXCEPT
                  !.status = status, !.elapsed = minute, !.syncedAt = clock,
                  !.score[x] = goals,
                  !.ht = IF status = "HT" THEN match.score ELSE @,
                  !.signal[x] = shots]
    /\ UNCHANGED <<clock, quotes, run, rows, tick>>

Wait ==
    /\ clock < LastTime
    /\ clock' = clock + 1
    /\ UNCHANGED <<match, quotes, run, rows, tick>>

Next ==
    \/ \E strategy \in Strategies : Start(strategy)
    \/ Stop
    \/ \E i \in Instances : BeginTick(i) \/ TickCommits(i) \/ TickFails(i)
    \/ ReceiveQuotes
    \/ SyncMatch
    \/ Wait

Spec == Init /\ [][Next]_vars

-----------------------------------------------------------------------------
(* Properties.                                                             *)

(* The virtual bankroll is never overdrawn and the open stakes never       *)
(* exceed the exposure the run was started with, whatever ticks of several *)
(* instances and several signals of one tick reserve.                      *)
BankrollHolds ==
    run # NoRun => /\ Available(rows) >= 0
                   /\ Exposure(rows) <= run.strategy.maxExposure

(* One signal never has two bets at a time, nor a second one after a bet   *)
(* on it was settled.                                                      *)
OneBetPerSignal ==
    \A s \in Signals :
        Cardinality({k \in Kinds : rows[s][k].status \in {"ORDER_RESERVED", "COMPLETED"}}) <= 1

(* No hindsight: a bet is decided and executed at quotes that had been     *)
(* received by then and were fresh, whenever the tick that writes it runs. *)
NoHindsight ==
    \A s \in Signals, k \in Kinds : rows[s][k] # NoRow =>
        LET r == rows[s][k]
            known(q, at) == q # NoQuote => q.receivedAt <= at /\ at - q.observedAt <= MaxQuoteAge
        IN  /\ known(r.decision, r.decidedAt)
            /\ known(r.executable, r.dueAt)
            /\ r.executable # NoQuote => r.executedAt >= r.dueAt

(* A tick that began before the stop decides nothing after it.             *)
NothingDecidedAfterStop ==
    [][run.status = "STOPPED" =>
         \A s \in Signals, k \in Kinds : rows[s][k] = NoRow => rows'[s][k] = NoRow]_vars

=============================================================================
