# api-score: verification of the betting core

This directory holds TLA+ models of api-score. One half of the program moves
money: a decision to bet becomes an order, the order reserves a stake on a
bankroll ledger, is sent to an operator, is accepted, refused or lost, and is
settled; a kill switch, a risk engine and a periodic reconciliation watch over
it. The other half decides what is worth betting on: matches, statistics and
odds are synchronised from a provider, rules suggest bets, and the rules are
judged by simulations, replays and walk-forward runs over what was recorded.
All paths below are relative to `src/backend/src/`.

## 1. Inventory

| component | state | operations | hard part |
|---|---|---|---|
| Order pipeline (`execution/order-execution.service.ts`) | `bet_orders`, `bet_decisions`, `bet_receipts` | `executeDecision` (`reserve`, `submit`), `applyAcceptance`, `settleFromOperator`, `resolveUnknown`, `recoverStaleSubmissions`, `cancelAbandonedBatch` | one order spans several transactions and a network call; calls, runs and crashes interleave between them |
| Ledger (`execution/ledger.service.ts`) | `bankroll_accounts`, `bankroll_ledger_entries` | `openAccount`, `append`, `appendBatch`, `dailyAggregates`, `verifyInvariant` | replay by entry key; balances kept twice (row and sum); an invariant check made of three reads |
| Risk engine (`execution/risk-engine.service.ts`) | none of its own | `reserveWithin`, `releaseStake`, `settleStake`, `checkLedgerInvariant` | daily budget under concurrent reservations, isolation level |
| Execution control (`execution/execution-control.service.ts`, `gate-policy.service.ts`) | `execution_controls`, `risk_policies`, `execution_gate_evidence`, audit | `stop`, `autoStop`, `changeMode`, `createRiskPolicy`, `lockForExecution`, `withSubmissionPermit` | shared and exclusive locks; versions read earlier; stops owed after a transaction |
| Reconciliation run (`execution/reconciliation.service.ts`) | `reconciliation_runs`, `reconciliation_items` | `open`, `openBatch`, `execute` | compares reads taken at different times while orders move |
| Reconciliation scheduler (`execution/reconciliation.scheduler.ts`) | `running` flag, MySQL named lock | `runTick`, `checkLateness` | several processes, crashes in the middle of a run |
| Operator (`execution/operator.port.ts`, `adapters/`) | the operator's book | `placeOrder`, `getOrdersByIdempotencyKeys`, `getBalance`, settlement | answers lost, late, repeated, malformed or with a receipt used before |
| Simulation (`simulation/`) | `simulation_runs`, `bet_decisions` | `start`, `stop`, `tick` | ticks of several instances, a stop during a tick, a bankroll summed from the journal |
| Fixture synchronisation (`fixtures/`) | fixtures and their parts, read cache, breaker of the scheduler | `runSyncTick`, `syncLiveFixtures`, cached reads | overlapping ticks, failures half way, reads around an invalidation |
| Odds synchronisation (`odds/`) | `odds_snapshots`, a breaker per phase | `syncOddsForFixtures`, `selectLatest` | incomplete markets, late quotes, margins |
| Recommendations (`recommendations/`) | `bet_recommendations`, `smart_coupons` | `evaluateAndSave`, `resolveSettledCoupons` | evaluations nobody waits for, stale rows, coupons that never end |
| Backtest and walk-forward (`backtest/`) | `backtest_runs`, `walk_forward_runs`, folds, a named lock per run | `run`, `start`, `execute`, `failOrphanedRuns` | looking ahead; runs whose process died |
| History import (`history/`), base rates (`analytics/`) | the same rows as the synchronisation; `base_rates` | `persistMatch`, `recomputeAll`, `buildLookup` | replaces what was recorded, table by table |
| Provider client (`provider-api-football/`) | none | events, statistics, odds of two providers | the two providers name things differently |
| Maintenance, monitoring, settings, authentication, front end | see `PROJECT.json` | | I/O and queries |

Interactions. `executeDecision` reserves through the risk engine, which takes
the shared lock of the control row, then the account row, and appends to the
ledger in the same transaction as the order. The placement call runs inside
`withSubmissionPermit`, so the shared lock is held while the operator thinks.
Whatever asks for a stop does so after its own transaction, and takes the
exclusive lock. Reconciliation reads orders, then the operator, then calls the
same order services. A sync of fixtures starts the evaluation of the rules
without waiting for it; the evaluation reads the rows other syncs and the odds
write. Replays, base rates and the import meet only in the recorded rows.
`PROJECT.json` lists the hazards this exposes, each at its
line.

## 2. Modules

| module | models | state and actions |
|---|---|---|
| `LedgerRules` | `movementEffect`, `planEntry` | pure operators on cents: `ValidMovement`, `MovementEffect`, `Plannable`, `After` |
| `Ledger` | the bankroll ledger: accounts, journals, the transactions that write them, the check of its invariant | `account`, `journal`, `txn`, `answers`, `check`; `Open`, `LockAccount`, `AppendEntry`, `Replay`, `Commit`, `Rollback`, and the three reads of `verifyInvariant` |
| `ExecutionControl` | the control row, its locks, stops, changes of mode, risk policies, gate evidence, audit | `control`, `evidence`, `policies`, `audit`, `interlock`, and what administrators have `seen`, executors hold (`permit`), stops wait for (`stopping`) |
| `KillSwitch` | what the control promises to whoever commits money | a level and the parties committing; `Enter`, `Leave`, `Move` |
| `OrderPipeline` | the order pipeline with the locks of the control, the account and its entries, the operator, and what runs do to orders | one variable per table or actor (see the comments of `VARIABLES`); one action per transaction, read outside a transaction, or event at the operator |
| `Escrow` | what the pipeline promises about money | phase of an order and the money it ties up; `Reserve`, `Refuse`, `Return`, `Dispute`, `Place`, `Pay` |
| `RiskEngine` | the limits of the risk policy over `Ledger` | what `Ledger` has, and `day`, `created`, `execution`, `claim`; `Judge`, `BookReserve`, `Refuse`, `AddUpDay`, `RaiseStop`, `Midnight` |
| `Reconciliation` | ticks of several instances, the run they open, its reads, comparisons, items and stops | `order`, `operator`, `slot`, `lag`, `tick`; one action per query or transaction of `execute` and `runTick` |
| `MatchRules` | `rules-evaluator.ts`, `outcome-resolver.ts` | pure operators: `EvaluateRules`, `ResolveOutcome`, `ResolveSettlement` |
| `FixtureSync` | the sync of a match and its parts, the scheduler with its breaker and budget, cached reads | `match`, `row`, `stored`, `job`, `sync`, `reading`, `cache`, all times as ages |
| `Coupons` | suggestions and coupons made after each sync, their resolution, the cron, the purge | `coupons`, `eval`, `purging` on top of `FixtureSync` |
| `Simulation` | a simulation run | `run`, `rows` (the journal), `quotes`, `tick`; `BeginTick` reads, `TickCommits` writes |
| `ProviderFeed` | what the program makes of the answers of both providers: events, statistics, odds, margins | pure operators, from an answer to rows |
| `Replay` | what is recorded of a match, and what a replay of it decides | the rows of a match; `SyncMatch`, `SyncOdds`, `ImportHistory`; `Verdicts`, `ReplayedBets`, `Kpis` as functions of the rows |
| `WalkForward` | backtests and walk-forward runs over `Replay` | `run`, `folds`, `worker`, `lease`, `test`; folds and eligibility as operators |
| `BaseRates` | observations, rates, their lookup | pure operators |
| `MC...` | values for TLC; `MCWalkForward` also what is checked of the pure parts | |
| `OrderPipelineProofs`, `ExecutionControlProofs`, `RiskEngineProofs`, `SimulationProofs`, `ReconciliationProofs`, `CouponsProofs`, `WalkForwardProofs` | the theorems about the module of that name, `RiskEngineProofs` also those about `Ledger`, `CouponsProofs` about `FixtureSync`, `WalkForwardProofs` about `Replay` and `ProviderFeed` | |
| `FoldTheorems` | lemmas: sums and folds over finite sets and sequences, shares of a whole | |

`OrderPipeline` and `Ledger` build on `LedgerRules`; `OrderPipeline` implements
`Escrow`, and both `ExecutionControl` and `OrderPipeline` implement `KillSwitch`: in
the latter the level is the mode, and those who commit are the callers that hold
the shared lock. `RiskEngine` extends
`Ledger`; `Coupons` extends `FixtureSync`, which like `Simulation` and
`ProviderFeed` builds on `MatchRules`; `WalkForward` extends `Replay`, and that
`ProviderFeed`. `OrderPipeline` keeps of
the control what the pipeline sees (a mode, the shared and the exclusive lock)
and of the ledger the entries of its orders; the two other modules are those
components in full.

Reading `OrderPipeline` beside the code:

* `pc[c]` is where one `executeDecision` call stands. `reserving` and `placing`
  are the places where it holds the shared lock on the control row: inside the
  reservation transaction and inside `withSubmissionPermit`.
* `ReserveBegin` is the reservation transaction up to the key check and
  `ReserveStake`/`ReserveRefused`/`ReserveFailed` its three ends; `refused` is
  the window between the rollback and `rejectDecision(..., 'ELIGIBLE')`.
* `SubmitRead`, `Recheck`/`RecheckRefused`, `PlaceOrder`/`PermitRefused`,
  `PlaceOrderFails`, `ApplyPlacementResult` follow `submit` and
  `applyPlacementResult` step by step.
* `stopping` holds the actors that owe an automatic stop; `AutoStop` needs the
  exclusive lock (`ControlIsFree`).
* `wire` holds placement requests the operator has not handled. It outlives the
  caller, its timeout and a crash.
* `book` is the operator's record per key. A receipt and an external identifier
  are one value, `ref`; a contract breach is the flag `sound`.
* `age` is the class of an order's age against the three delays of
  `execution.types.ts`. With `Punctual`, a request is handled or lost before the
  grace delay; without it, nothing bounds it.
* `held[r][d]` is what run `r` holds of order `d`: read (`READ_*`), then looked
  up at the operator, then being settled (the SETTLE entry is written, the order
  row not yet).
* The money abstraction: stakes are cents, payouts are zero, the stake or twice
  the stake; odds are left out except as reasons to refuse.

Reading `Ledger` beside the code:

* A transaction locks one account and works on its own copy of the row
  (`txn[w].row`), as `append` does with the entity it was given; what it wrote
  shows when it commits (READ COMMITTED). `append` is `AppendEntry` (the key is
  free) or `Replay` (the key holds this very movement); `appendBatch` is several
  of them in one transaction. A refused movement, a key used for another
  movement, a lost connection are all `Rollback`.
* `Commit` has the guard `WHERE version = :version` of the updates, `IsFree` the
  unique index on entry keys: an uncommitted entry of another transaction keeps
  the writer waiting.
* `answers` is what callers were told is booked, once their transaction has
  committed. The code keeps no such record; callers act on it.
* `ReadAccount`, `ReadSums`, `ReadLast` are the queries of `verifyInvariant`,
  with everybody else's steps in between.
* `dailyAggregates` only reads; `RiskEngine` has it with the limits that use it.

Reading `ExecutionControl` beside the code:

* `permit[e]` is the row an executor read under its shared lock. `stop`,
  `changeMode` and `createRiskPolicy` need the exclusive lock, so each is one
  step, taken when no executor holds a permit.
* `autoStop` and `POST /stop` are requests (`AskStop`), then a wait in the lock
  queue (`WaitForLock`), then `Stop`; while one waits, no new shared lock is
  granted. `outdated` remembers who has not read the control since a stop.
* `seen[a]` is the row as an administrator last read it; the version in a
  request is that of the view.
* `FirstRows` are the migrated row, a row whose mode this build cannot read, and
  no row at all (`stop` recreates it).

Reading `RiskEngine` beside the code:

* `claim[w]` is where a transaction stands for the risk engine. From `control`
  to the end of the transaction it shares the control row (`ControlIsShared`),
  which `RaiseStop` and `Reactivate` wait for.
* `Today` adds up committed entries and those of the transaction itself: READ
  COMMITTED, after the account is locked. `Midnight` may come between the sum
  and the entry.
* `Abandon` is an error or a crash at any point, also between a commit and the
  stop it owes.

Reading `Reconciliation` beside the code:

* The pipeline is reduced to what it commits (the status of an order, its class
  of age) and the operator to what it has under the key. A request that is
  `flying` cannot be found.
* `rows`, `looked`, `fresh`, `proofs`, `books` of a tick are its successive
  reads; everybody moves in between. `quiet` and `before` are history variables:
  nothing moved since the run began, and the gaps there were then.
* `BeginTick` holds the named lock until `Unlock`; `Crash` frees it and leaves the
  run RUNNING. `past` says that the time slot of the run is over, `late` that no
  run had completed for too long when the tick began (`runTick` judges lateness
  by that time; an account without a completed run is late at once).
* `Fail` is a failure `execute` catches: the run is marked, `StopForFailedRun`
  asks for a stop, and the tick goes on to `CheckLateness`. `FailTick` is one that
  `runTick` catches: openBatch, the lateness check, the look-up of the run or
  the marking itself; it leads to `StopForFailure` and no lateness check.
* `autoStop` never throws and may fail (`AutoStop`): every stop of this module may
  leave execution as it was.

Reading `FixtureSync` and `Coupons` beside the code:

* `sync[s].at` is where a sync stands between two awaits. `budget` comes after
  the check of `isSyncRunning` and before it is set. A sync over HTTP meets
  neither.
* `row.asOf` is the age of the data in a row, `row.syncedAt` that of
  `lastSyncedAt`; the program only knows the latter.
* `stored[p].ages` are the ages of the rows of a part, as of the provider's answer
  they came from. Events and line-ups are deleted (`ClearPart`) and inserted
  (`InsertPart`) by two queries; of statistics and players a snapshot is added and
  the latest is read. An answer for a part may be empty (`FetchPart`). `behind` is
  history: a sync has written the row, with `lastSyncedAt`
  (`fixtures-ingestion.service.ts:557`), and the part has not been stored since.
* `Kinds` are the methods that keep their answer: the list and the summary have
  `isStale` (`Flagging`), taken from `lastSyncedAt` alone; the detail, events,
  statistics, line-ups and players have no flag. An answer reads the row, then the
  parts it needs in any order (`ReadPart`).
* An evaluation keeps the place of the sync that started it. The coupons are
  rows with an identifier; two evaluations may save the same one. A resolution
  goes through its coupons in any order: the query asks for none.
* `KickOff` and `Course` are what the provider calls the phases of a match. With
  minutes for statuses (apifootball) both halves are `LIVE`; the rules then ask
  for the minute, and in the model the half-time score stands for it (`Opens`):
  a half is over when that score is known.

Reading `Simulation` beside the code: `tick[i]` is the time and the signals an
instance noted before it locked the run; `TickCommits` is the whole transaction,
`AdvanceOrders` its first two passes, `DecideAll` the third. The idempotency key
of a row is `<<"ORDER", attempt>>` or `<<"REJECTED", code>>`.

Reading `Replay` and `WalkForward` beside the code:

* `clock` is real time; `Programme` says what the provider shows of the match at
  each instant. A sync, an import and an odds tick are one action each: their
  effect up to any failing call is a choice inside the action.
* `Verdicts` is the signal-by-signal result of `replayDetailed`: at every tick,
  the statistics and minute last known, the goals up to that minute, the rules,
  the quote at the decision and the quote after the latency.
* `EventRow` keeps what the code stores: live events of apifootball have no type.
* `worker` is the execution in memory, `lease` the named lock; they can part ways
  (`LoseLease`). `FailOrphans` is run by whatever process starts.

## 3. Runs

Deadlock is not checked: with every order closed, every transaction ended,
every match over and nobody calling, each of these systems is rightly idle.

| run | question | bounds |
|---|---|---|
| `pipeline_any` | Do money, order and decision stay consistent when two callers race for two decisions of one signal and slot, with crashes, database errors and an operator of any delay? Also that the pipeline implements `Escrow`. | two decisions with one key, two callers, one run, one crash, every reply but partial and reused ones |
| `pipeline_orderly` | With one caller per decision and a punctual operator, does a request leave once, is a rejected order never a bet, are interrupted orders and lost answers found, and does an order unknown for too long stop execution? | one order, one caller, two runs, one crash, errors |
| `pipeline_two` | Do the balances match the orders, and can a reused receipt back two bets? | two orders of stakes 2 and 1 on a balance of 3, partial acceptances |
| `pipeline_double_lost` | Finding: two calls on one decision, and the order is rejected while the operator holds the bet. | one order, two callers |
| `control` | Is money committed only under the row as it stands? Are modes earned gate by gate, raised one step at a time by somebody who saw the row, and audited without a hole? Does a stop get its lock although executors keep coming? Also that the control implements `KillSwitch`. | two administrators, two executors, every first row, one policy, three changes |
| `control_reactivation` | Finding: a stop of a stopped control outdates nobody's view of it. | one administrator, one executor |
| `risk` | Do journals replay to the rows, is what callers were told true, and do stakes, exposure and losses of a day stay within the limits, over midnight, refusals and lost stops? Does an undisturbed check of the invariant pass? | two accounts, two transactions, three keys, amounts 1 and 2, limits of 1, two days, four entries per journal |
| `reconciliation` | Does a run report every gap there was when it began, does an undisturbed run raise no false alarm, and is no account with orders left unwatched? | one order, two instances, one crash, late after one slot |
| `simulation` | Is the virtual bankroll never overdrawn, is a signal bet on once, at quotes known by then, and is nothing decided after a stop? | two instances, two signals of one match, one bookmaker, two odds, four instants |
| `sync` | Is a summary that does not call itself stale as fresh as the delays allow, parts that a sync left behind excepted? Does a cached answer differ from the rows only while their last change is recent? Does the pause of the breaker end? | two overlapping ticks, one part that is replaced (the events), the summary, no retry, a pause after one failure, a match that goes on; ages up to 4 with delays of 0 and 1 |
| `coupons` | Is no bet suggested after the match, are resolved coupons right, and does none stay pending? | one sync over HTTP at a time, without parts, one retry, the cron, the purge, one restart, one bet on the first half, a match of two halves |
| `walk_forward` | Do replays not look ahead, do ended runs stay as they are, and do only whole markets have fair probabilities? | one match of five instants, two syncs, two answers of odds, one import, one job, up to three folds |

Why the bounds are enough. Pipeline: every property speaks of one order, or of a pair of
orders; two callers, or two runs, give every interleaving of a step with a
conflicting step, one crash gives a crash at every point, and three ages past
"fresh" separate the three delays. The theorems of section 5 remove the bounds
for most of the properties. Control: three changes are a climb of one mode with
its policy and a way down, or a stop and a new start; stops are not bounded; the
theorems remove the bound. Risk: with a limit of one cent a second cent is too
many, so two transactions suffice to break a limit that is read too early; an
opening, a reservation, and the two movements that may end it fill a journal of
four. Reconciliation: its properties are about one order at a time and the
account; two instances are needed for the lock to matter. Simulation: the stakes
of two signals in one tick already exceed the exposure; two instances give a tick
that commits with an older time. Sync and coupons: delays differ from zero where
the order of events depends on them, and `MaxAge` exceeds their sum, so "too old"
is reached. The summary has everything an answer can have, a flag and parts; all answers
are invalidated together. A part that is replaced is the harder kind; one that is added to
skips the delete. Syncs over HTTP and retries, which take no part in what `sync` asks
but for more of the same, are in `coupons`, whose coupons depend on no part. The
theorem has any parts, kinds, syncs and delays.
Walk-forward: five instants hold a kick-off, two halves and the end, with ticks,
quotes and an import at each; the folds begin at one and three instants, the
last of them incomplete. The providers' other format, other signals and staking
rules are covered by constants of `ProviderFeed`, `Replay` and `Simulation`; the
runs use one value of each.

Pure parts. `MCWalkForward` states assumptions that TLC evaluates when
`walk_forward` starts: the run's answers meet the hypothesis of the theorem about
markets (`OrdinaryAnswers`), import windows cover their range without overlap
(`WindowsPartition`), folds test out of sample and each instant once
(`FoldsAreOutOfSample`), no sequence of three bets overdraws a bankroll
(`BankrollIsNeverOverdrawn`), markets that api-sports splits by period are
merged and thereby too long (`MergedBetsAreTooMany`), and base rates are
consistent, replaced as a whole and found at exactly their threshold
(`RatesAreConsistent`, `RatesAreReplaced`, `RatesAreFound`). They are about
chosen inputs, and no step of the system. `MCCoupons` states two: that the match of
`coupons` meets the hypothesis of the theorems about coupons
(`RegularIsPlayedThrough`), and what `resolveOutcome` makes of a row that is LIVE in
the second half (`LiveIsFirstHalf`).

## 4. Fairness

`pipeline_orderly`: a caller that has started goes
on by itself (weak fairness of `Proceed`; its timeout bounds the operator). A
stop is strongly fair: InnoDB grants locks in the order of the requests, so the
exclusive lock is not overtaken for ever by new shared ones. The scheduler runs
periodically, so recovery, cancellation and reconciliation are weakly fair, and
time passes. In this module a stop that gets its lock succeeds; one that fails is
in `Reconciliation` and `RiskEngine`. A lookup that is tried again and again is answered at last (strong
fairness of an answered `Lookup`): the operator is not down for ever. Nothing
else is assumed of it, and nothing of administrators.

`control` (and `control_reactivation`, which shares its specification): an
executor ends its transaction (its call to the operator has a timeout), a
stop that was asked for enters the lock queue and is granted its lock when it is
free. All are weakly fair. That new executors do not overtake a waiting stop is not
a fairness assumption but the lock queue of InnoDB, in the guard of `Engage`.
Administrators may never do anything.

`reconciliation`: time slots follow each other, some instance ticks, and what a
tick awaits ends, well or not; all weakly fair. Runs may fail for ever, and so may
ticks. A stop may fail too, but one that is asked for tick after tick succeeds at
last (strong fairness of `Stopped`): the database that the stop writes to is not down
for ever. Nothing in the code retries a stop; the next tick asks for it again.

`sync`: time passes, a tick comes after the pause (`Resume`), calls and reads
end. `coupons`: the same, evaluations and resolutions that have begun go on, the
purge runs, and the match is played to its end. Neither assumes that a call to the
provider ever succeeds, nor that the cron runs.

`risk`, `simulation`, `walk_forward`, `pipeline_any` and `pipeline_two` check safety
only and assume no fairness.

## 5. Proofs

A theorem holds for every value of the constants that satisfies the named
assumptions of its module: any number of decisions, accounts, writers, instances
and crashes, any amounts and delays. Each proof gives an invariant that is
inductive, which the property alone never is; what the invariant adds is what
the code relies on without saying so.

**Pipeline** (`OrderPipelineProofs`): `TypeOK`, `StakeAccounted`,
`AcceptedMatchesOperator`, `StopIsEffective`, `DecisionFollowsOrder`,
`OneOrderPerKey`, `TerminalOrdersStay`, `UnknownNotGivenUpEarly`, and that the
pipeline implements `Escrow` and `KillSwitch`. The interesting conjunct of `TypeOK` is that both
balances are natural numbers, whatever is appended, by whom and how often. The
invariant `IInv` has:

* `LedgerFollowsOrders`: which of the four ledger entries of an order exist, and
  with which amounts, status by status; a key without an order has none. This is
  why a replayed append is always the same movement, and a release never a
  second one.
* `OrderInHand`: past its reservation a caller has an order, and so has a
  request under way.
* `BookFollowsOrders`: the operator knows only keys of orders, for at most the
  requested stake.
* `RepliesAreTrue`, `LookupsAreTrue`: a result a caller or a run holds may be
  outdated but not untrue: the operator never takes back an acceptance, a
  refusal or a settlement. A run that is between the two settlement transactions
  has its entry written.

`StepIsOrderStep` shows that every step either leaves orders and
entries alone or makes one of five moves on one order (create, advance, accept,
cancel, settle or close), each with the ledger rows it writes. Everything
about money follows from these moves alone; the lemmas `StepKeeps...` then
handle one conjunct of `IInv` each, and `EscrowMoves` maps each move to an
action of `Escrow`.

`AccountMatchesOrders` (`AccountFollowsOrders`) adds up over all orders, which
are finitely many: a step books at most one entry of one order (`BooksOn`), so
both sums move by what this order does.

`SwitchIsRespected` maps a caller that begins a reservation or a placement to
`Enter`, its commit, its failure, the operator's answer and a crash to `Leave`, and
a stop or a change of mode, which wait for the exclusive lock, to `Move`. With
`SwitchIsKept`, the control and the pipeline meet at one specification: what the
first guarantees is what the second relies on. No run repeats this one, since
`StopIsEffective` covers the same locks on the instance.

`RejectedNeverPlaced` and `SubmittedOnce` do not hold of the code as it is
(`pipeline_double_lost`). They are proved under two hypotheses the run
`pipeline_orderly` meets: no two calls execute one decision
(`OneCallerPerDecision`), and a request is handled or lost before the grace
delay (`Punctual`). Their invariant `OnceInv` says what each party may still
believe: a request under way is the only one of its order (`OneRequest`), a
caller that has not yet called has nothing at the operator (`CallIsHonest`), an
order that is old enough to be given up has no request left (`OrderIsHonest`),
and a run that is about to give one up has seen that (`RunIsHonest`).

**Control** (`ExecutionControlProofs`): type correctness and every safety
property of the control runs: `PermitsAreCurrent`, `GatesProven`,
`VersionsIdentifyRows`, `AuditIsComplete`, `RaisedKnowingly`,
`PolicyFixedWhileRunning`, and the refinement of `KillSwitch`. The invariant adds
`PolicyExists` (the row never names a policy that does not exist) and
`ViewsAreOld` (what an administrator has seen is the row as it stands or a row of
an earlier version); without the latter, an accepted version would say nothing
about the row. The lemma everything rests on, `RowMovesOrStays`, is that a step
leaves the row alone or writes it under a new version.

**Ledger** (`RiskEngineProofs`, first part): tables and transactions keep their types, no balance
being negative (`LedgerTypes`, `TypeOK`), `JournalReplays`, `OneEntryPerKey`,
`AnswersAreTrue` and `NothingRewritten`. What is committed says nothing about what
is about to be, so the invariant extends each property to the open transactions:
a transaction alone holds its account (`LocksExclude`), its entries go on where
the journal ends (`PendingReplays`), its keys are nobody else's
(`PendingKeysAreNew`), an opening key stays with its account (`OpenKeysStay`), and
what it was told is in the journal or in what it writes (`ToldIsTrue`).
`openAccount` and `append` are one kind of step, `Grows`, treated once. The
assumption `KeysAssumption` says that callers never choose a key of the form
`open:<account>`. That the rows are the sums of their journals (`AccountIsSum`)
follows from `JournalReplays` by `FoldTheorems`. `UndisturbedChecksPass`: a
version identifies a state of the journal, so reads made under one version
(`ReadsAreOfVersions`) were made of one state.

**Risk engine** (`RiskEngineProofs`, second part): every step is a step of `Ledger` or leaves
the ledger alone (`RiskImplementsLedger`: `RiskSpec => Spec`), so that the
theorems above hold under the limits too. `ExposureHolds` needs two facts about
what is not committed: an open transaction never has more at stake than the limit
(`PendingExposureHolds`), and a reservation that was permitted still fits when it
is booked (`JudgedFits`), which is where the lock of the account is used.
`DailyStakeHolds` and `NoBetAfterLoss` are about sums over the entries of a day
(`DaySum`); their invariant `DayInv` says that committed and open journals keep the
limits of every day (`KeepsLimits`) and that what was judged has room in them
(`HasRoom`), also when midnight passes between the sum and the entry. The
assumptions are `PolicyAssumption` (the limits are natural numbers) and
`PayoutsAssumption`, with those of `Ledger`.

**Simulation** (`SimulationProofs`): `BankrollHolds`, `OneBetPerSignal`,
`NoHindsight` and `NothingDecidedAfterStop`. The third pass of a tick is a fold over
the signals; `StepOf` is one step of it and `PassStays`, by `LeftFoldExists`, carries
a sound journal (`GoodJournals`) through any number of them: types, stakes the bankroll covers,
quotes known by the decision. `SimInv` adds that nothing is written before
the start, and that the signals a tick noted are those of live matches. The assumptions
about the strategy are what the request's validation lets pass.

**Reconciliation** (`ReconciliationProofs`): `GapsAreReported` and
`QuietRunsAgree`. `RecInv` says what a run may believe of each of its reads at each
stage: orders and operator move on only forward (`Evolves`), so a gap that was
there when the run began is still there, or reported, however old the reads
(`GapsSeen`); and a run during which nothing moved knows both as they are
(`Undisturbed`). `OneAtATime` is what the named lock gives.

**Feed and coupons** (`CouponsProofs`): `AnswersAreFresh`, by an
invariant on ages (`FeedInv`): a row lags its `lastSyncedAt` by at most a sync, a
part that is not behind lags it by at most two, since its rows were fetched by a
sync that had written the row before (`RowsInv`); and what a reading under way, or a cached
answer, shows is bounded by what was there when it was read and the time it has had
since (`Reads`, `Keeps`), or the rows have changed within that time. Two parts of
the property: `FlagsAreHonest` is about the flag, `AnswersFollowTheRows` about every
answer.
Every step of `Coupons` is a step of the feed or leaves it alone
(`CouponsRunTheFeed`), so this holds under the recommendations. `CouponsAreTrue` and
`SuggestedInPlay` are proved for matches that are played through, under statuses
that tell the halves apart (`PlayedThrough`; the course of the run `coupons` is
one). The hypothesis is needed: section 6 tells of rows that are LIVE in both halves
and of interrupted matches, and either makes `CouponsAreTrue` false. The heart is `OutcomesStand`: what a row of
any age decided is what every later state of such a match decides;
`SavesDecided` carries it to resolutions that hold coupons in memory, and
`FoundInPlay` bounds how long ago the match can have ended for an evaluation that has found a bet.

**Replays, runs and markets** (`WalkForwardProofs`): the three properties of
`walk_forward` for any match, provider, answers, strategy and limits, and three
statements about pure parts that TLC evaluates on chosen inputs only.

* `RunsEndOnce`: the invariant `RunInv` says that a run whose lock is held is
  running. An orphan is therefore failed by another process only when nobody holds
  the lock, and an execution whose run has ended has lost it.
* `NothingIsForeseen`: whatever a step records is dated with the clock
  (`IsAddition`), and a verdict whose latency is over read only rows dated before,
  so that what is added is in none of the sets it was chosen from
  (`DecidedIsKept`).
* `MarketsStoredWhole`: rows are written a tick at a time, all under one instant,
  so it is enough that the rows of one answer are whole (`RowsAreWhole`), group by
  group and for each provider's format; the sum of the fair probabilities is
  `SharesAddUp`. The hypothesis `AnswersAreOrdinary` says that an answer names a
  bookmaker once and an outcome of a market once, with odds of at most a million
  (in thousandths): the code has no check for either.
* `FoldsTestOutOfSample`: the folds of any request (`IsRequest`: instants are
  integers, lengths natural numbers, as the request's validation lets pass) are
  out of sample. `LaterFoldsAreLater` is the arithmetic.
* `BankrollStaysSolvent`: `Accounts` is what staking keeps, bet after bet, for any
  strategy and any sequence of bets that pay at least the stake back
  (`ArePayable`). This is the "jamais de solde négatif" of
  `backtest/kpis-calculator.ts:24`. `Chronological` sorts the bets by a recursive
  definition of the library, and the theorem holds for every order, thus for this one.
* `WindowsCoverOnce`: the windows of any import cover its range once.

**Sums** (`FoldTheorems`): the provers cannot take an induction principle as a
theorem with an operator parameter, so the lemmas argue by a smallest
counterexample among the subsets of a finite set (`SmallestSubset`), and from it
show that the folds of the community modules do not depend on the order of
choice and how a sum moves with one of its terms. The same argument over the
prefixes of a sequence gives `LeftFoldExists`: what each step keeps in a set, the
fold of any sequence keeps in it. `SharesAddUp` bounds what rounding may lose:
the shares per mille of n positive terms, rounded down, make up 1000 - n to 1000.

Only model-checked: the liveness properties (`NoOrderLeftBehind`,
`LostAnswersAreFound`, `TooOldStops`, `StopsGetThrough`, `WatchedOrStopped`,
`PausesEnd`, `CouponsEnd`), which are out of the provers' reach, as is ENABLED; the
base rates, whose statements compare chosen inputs with chosen answers; and the
two statements the findings refute. Every invariant and every action property of
a run that passes is proved.

## 6. Findings

* Two `executeDecision` calls on one decision can both send the order: the
  recheck transaction of the second returns the order it finds
  (`order-execution.service.ts:410`), and the test after it only stops orders
  that are not `SUBMITTING` (`:471`), whoever moved them there. The call that is
  then refused withdraws the order and returns its stake while the request of
  the other is on its way; the operator may hold a bet for an order that is
  rejected (`pipeline_double_lost`).
* A stop that finds the control stopped already returns without an audit event and
  without a new version (`execution-control.service.ts:297`), although every stop
  should write an audit and ask for a versioned reactivation
  (PLAN_EXECUTION_PARIS.md:526). Whoever read the control before that stop
  can reactivate from that view.
* `verifyInvariant` reads the account, the sums and the last entry in three
  queries and no transaction (`ledger.service.ts:472`, `:477`, `:484`). An append that
  commits between them looks like a divergence, and `checkLedgerInvariant` stops
  execution for it.

Nothing in the repository calls `executeDecision` yet, so nothing says that a
decision has one caller. `pipeline_orderly` shows that one caller per decision
is enough.

Observations that no run is devoted to; the models contain them, and the
properties are stated around them where needed:

* `failOrphanedRuns` says that an active run whose lock is free has no executor
  (`backtest/walk-forward.service.ts:198`). If the connection that holds the lock
  dies, the execution goes on unnoticed: another process that starts fails the
  run, and the execution writes COMPLETED over it. `EndedOnce` leaves out exactly
  this (`Deserted`). A backtest whose process dies stays RUNNING: nothing looks for it.
* Live events of apifootball are stored without a type
  (`fixtures/fixtures-ingestion.service.ts:708`), so a replay and the base rates
  see no goal in what was recorded live, and a sync after an import replaces the
  typed goals of the import.
* `isStale` speaks of the row: `lastSyncedAt` is written
  (`fixtures/fixtures-ingestion.service.ts:557`) before the parts are fetched (`:76` to `:112`).
  When a sync fails after that write, or is given nothing for a part, a summary that
  does not call itself stale shows momentum and recent events of any age.
  `AnswersAreFresh` leaves out exactly these parts (`behind`).
* Two syncs that both delete the events of a match before either inserts leave
  them twice (`replaceFixtureEvents`); no unique key prevents it.
* A quote has three times, observed, received and captured, which ingestion writes
  equal (`odds/odds-ingestion.service.ts:317`, `:364`); the order the code checks
  between them cannot fail, and `Replay` has one time for them.
* Goals are stored with their minute only; a replay knows a goal at the minute it
  fell, not when the program learnt of it. `NoLookAhead` speaks of steps that
  add no goal.
* `lookupRate` promises the nearest threshold above the one asked for
  (`analytics/base-rates.service.ts:202`) and looks for exactly that threshold.
* api-sports bets on a half are merged into the market of the match, which is
  then dropped as too long. A market is recognised as incomplete or too long by the
  number of its outcomes alone (`odds/odds-ingestion.service.ts:325`): an "Over" of
  the match and an "Over" of its first half, with nothing else, would pass for a whole
  market of goals. `AnswersAreOrdinary` leaves out exactly such answers; with the four
  outcomes of two complete bets the market is dropped, as `MergedBetsAreTooMany` shows.
* Statistics imported from api-sports carry no team, so a replay of such an import
  has no signal.
* Imported statistics are dated midnight and 45 and 90 minutes past, so that no
  recorded quote is fresh at their ticks.
* Two evaluations that run at once save the same coupon twice: the key of a
  coupon is an index, not a unique one.
* A coupon on the first half that no resolution met at half time is judged, in
  the second half, by a status that apifootball's rows have in both halves
  (`recommendations/rules/rules-evaluator.ts:7`, `common/utils/status.utils.ts:23`)
  and by the score of that moment (`recommendations/rules/outcome-resolver.ts:67`),
  although the row holds the half-time score: the first goal of the second half
  makes it WON (`LiveIsFirstHalf`, which TLC evaluates; the intent, "WON dès qu'un
  but est marqué pendant la 1H", is at `:63`). `resolveSettlement` settles simulated bets the same way.
* A coupon of a match that is interrupted or suspended is LOST at once
  (`recommendations/rules/outcome-resolver.ts:58`; the comment at `:31` has
  only those in mind that are interrupted for good) and stays so when the match
  goes on, since only PENDING coupons are read again. `CouponsAreTrue` is therefore
  proved for matches that are played through.
* A run of reconciliation that reads an order after it looked it up may call it
  missing at the operator when it was accepted in between.

## 7. Plan

Done: the whole execution side (`OrderPipeline`, `Escrow`, `ExecutionControl`,
`KillSwitch`, `Ledger`, `RiskEngine`, `Reconciliation`), the simulation, the
synchronisation and the coupons, and the recording with its replays. Left, in
this order:

1. Runs of `walk_forward` with the other signals, whose rules the theorems cover
   as they cover any verdict.
2. The reconciliation started over HTTP, outside the named lock.

## 8. Not modelled

* Goals that are annulled: the score of a match only grows in `MatchGoesOn`. With a
  goal taken back, a coupon won in play stays WON whatever the final score, and
  `CouponsAreTrue` would have to leave it out.
* The reconciliation an administrator starts over HTTP (`start`), which runs the
  same code outside the named lock.
* The clock of the database, which dates ledger entries, apart from the clock of
  the process, which dates the day.
* Overlapping ticks of the odds scheduler, and its budget: the ticks of `Replay`
  are atomic. `FixtureSync` has both for the fixtures, from the same code.
* The paper operator, redaction of receipts, the execution API.
* Authentication (sessions, login attempts, the audit of requests) and the
  settings document: the rest of the system depends on the role a request has,
  which the models take as given, and on the configuration, which is a constant.
* Formatting, validation of requests, HTTP itself, logging, listings for display,
  the user interface; scores of confidence and ratings in words; leagues and
  teams, which are data of one more write, and what the parts of a match hold.

Each component left out is listed in `PROJECT.json` with its reason.
