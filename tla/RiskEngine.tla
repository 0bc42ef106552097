----------------------------- MODULE RiskEngine -----------------------------
(***************************************************************************)
(* The limits of the risk policy (RiskEngineService), over the ledger.  A  *)
(* reservation is one READ COMMITTED transaction: the control row shared,  *)
(* the key looked up, the account locked, the day added up and judged, the *)
(* entry appended.  Settlements, releases and openings append without the  *)
(* control; the grave causes stop execution after the transaction.         *)
(***************************************************************************)
EXTENDS Ledger, FiniteSetsExt

CONSTANTS
    MaxStakePerBet, MaxDailyStake, MaxDailyLoss, MaxOpenExposure,  \* the active policy
    Payouts,      \* bound: what settlements pay
    LastDay,      \* bound: UTC days
    NoKey

ASSUME PolicyAssumption ==
    {MaxStakePerBet, MaxDailyStake, MaxDailyLoss, MaxOpenExposure, LastDay} \subseteq Nat
ASSUME PayoutsAssumption == Payouts \subseteq Cents \cup {0}
ASSUME NoKeyAssumption == NoKey \notin EntryKeys

VARIABLES
    day,          \* the UTC day
    created,      \* the day each entry was written, LastDay + 1 when there is none
    execution,    \* whether the control row lets stakes be committed
    claim         \* what each transaction is doing for the risk engine

riskVars == <<vars, day, created, execution, claim>>

NoDay   == LastDay + 1
NoClaim == [stage |-> "none", key |-> NoKey, stake |-> 0, stop |-> FALSE]

RiskInit ==
    /\ Init
    /\ day = 0
    /\ created = [key \in EntryKeys |-> NoDay]
    /\ execution = TRUE
    /\ claim = [w \in Writers |-> NoClaim]

-----------------------------------------------------------------------------
(* The day, as dailyAggregates adds it up: entries of the account written  *)
(* since midnight, those of the transaction itself included.               *)

Today(w) == {e \in EntriesOf(journal[txn[w].on]) \cup WrittenBy(w) :
                 created[e.key] # NoDay /\ created[e.key] >= day}

DailyStaked(w) == MapThenSumSet(LAMBDA e : e.delta, {e \in Today(w) : e.type = "RESERVE"})

DailyPnl(w) == MapThenSumSet(LAMBDA e : e.amount + e.delta, {e \in Today(w) : e.type = "SETTLE"})

(* Mutant: the limit is passed only beyond it.                             *)
LossExceeded(w) == -DailyPnl(w) > MaxDailyLoss

(* A gain is no loss; a limit of nothing is reached at once.               *)
LossReached(w) == MaxDailyLoss = 0 \/ -DailyPnl(w) >= MaxDailyLoss

(* Mutant: the stake itself is not counted.                                *)
BudgetNotUsedUp(w, stake) == DailyStaked(w) <= MaxDailyStake

(* Reaching a limit is allowed, a cent more is not.                        *)
WithinDailyStake(w, stake) == DailyStaked(w) + stake <= MaxDailyStake

(* Mutant: the exposure is what the account had committed before.          *)
WithinPastExposure(w, stake) == txn[w].row.reserved <= MaxOpenExposure

WithinExposure(w, stake) == txn[w].row.reserved + stake <= MaxOpenExposure

(* evaluateRisk, for a quote that is fresh.                                *)
Permitted(w, stake) ==
    /\ stake <= MaxStakePerBet
    /\ ~ LossReached(w)
    /\ WithinDailyStake(w, stake)
    /\ WithinExposure(w, stake)
    /\ stake <= txn[w].row.available

(* The refusals that stop execution: a stale quote, the day lost, the      *)
(* budget of the day used up.  The others are for this bet only.           *)
StopsExecution(w, stake, stale) ==
    \/ stale
    \/ stake <= MaxStakePerBet /\ (LossReached(w) \/ DailyStaked(w) >= MaxDailyStake)

-----------------------------------------------------------------------------
(* Reservations: reserveStake, reserveWithin *)

(* lockForExecution, the control row shared; execution must be allowed.    *)
BeginReserve(w) ==
    /\ txn[w] = Idle /\ claim[w] = NoClaim
    /\ execution
    /\ claim' = [claim EXCEPT ![w].stage = "control"]
    /\ UNCHANGED <<vars, day, created, execution>>

LockForReserve(w, a) ==
    /\ claim[w].stage = "control"
    /\ LockAccount(w, a)
    /\ UNCHANGED <<day, created, execution, claim>>

(* The key has an entry: nothing is judged again.                          *)
ReplayReserve(w, key, stake) ==
    /\ claim[w].stage = "control"
    /\ Replay(w, key, "RESERVE", stake, 0)
    /\ claim' = [claim EXCEPT ![w].stage = "booked"]
    /\ UNCHANGED <<day, created, execution>>

Judge(w, key, stake) ==
    /\ claim[w].stage = "control" /\ Writing(w)
    /\ IsFree(w, key)
    /\ Permitted(w, stake)
    /\ claim' = [claim EXCEPT ![w] = [@ EXCEPT !.stage = "judged", !.key = key, !.stake = stake]]
    /\ UNCHANGED <<vars, day, created, execution>>

(* The refusal is an answer: the transaction ends without an entry.        *)
Refuse(w, stake, stale) ==
    /\ claim[w].stage = "control" /\ Writing(w)
    /\ stale \/ ~ Permitted(w, stake)
    /\ txn' = [txn EXCEPT ![w] = Idle]
    /\ claim' = [claim EXCEPT ![w] = IF StopsExecution(w, stake, stale)
                                     THEN [NoClaim EXCEPT !.stage = "stopping"] ELSE NoClaim]
    /\ UNCHANGED <<account, journal, answers, check, day, created, execution>>

(* The entry is dated when it is written.                                  *)
BookReserve(w) ==
    /\ claim[w].stage = "judged"
    /\ AppendEntry(w, claim[w].key, "RESERVE", claim[w].stake, 0)
    /\ created' = [created EXCEPT ![claim[w].key] = day]
    /\ claim' = [claim EXCEPT ![w] = [NoClaim EXCEPT !.stage = "booked"]]
    /\ UNCHANGED <<day, execution>>

-----------------------------------------------------------------------------
(* What asks for no permission *)

OpenAccount(w, a) ==
    /\ claim[w] = NoClaim
    /\ Open(w, a)
    /\ created' = [created EXCEPT ![OpenKey(a)] = day]
    /\ UNCHANGED <<day, execution, claim>>

LockForEntry(w, a) ==
    /\ claim[w] = NoClaim
    /\ LockAccount(w, a)
    /\ UNCHANGED <<day, created, execution, claim>>

(* releaseStake, or a batch of releases.                                   *)
ReleaseStake(w, key, stake) ==
    /\ claim[w] = NoClaim
    /\ AppendEntry(w, key, "RELEASE", stake, 0)
    /\ created' = [created EXCEPT ![key] = day]
    /\ UNCHANGED <<day, execution, claim>>

(* settleStake                                                             *)
SettleStake(w, key, stake, paid) ==
    /\ claim[w] = NoClaim
    /\ AppendEntry(w, key, "SETTLE", stake, paid)
    /\ created' = [created EXCEPT ![key] = day]
    /\ claim' = [claim EXCEPT ![w].stage = "settled"]
    /\ UNCHANGED <<day, execution>>

ReplayEntry(w, key, type, stake, paid) ==
    /\ claim[w] = NoClaim
    /\ type # "RESERVE"
    /\ Replay(w, key, type, stake, paid)
    /\ UNCHANGED <<day, created, execution, claim>>

(* The day is added up after the settlement; the loss that reaches the     *)
(* limit stops execution once the transaction is committed.                *)
AddUpDay(w) ==
    /\ claim[w].stage = "settled"
    /\ claim' = [claim EXCEPT ![w] = [NoClaim EXCEPT !.stage = "added", !.stop = LossReached(w)]]
    /\ UNCHANGED <<vars, day, created, execution>>

-----------------------------------------------------------------------------
CommitClaim(w) ==
    /\ claim[w].stage \in {"none", "booked", "added"}
    /\ Commit(w)
    /\ claim' = [claim EXCEPT ![w] = IF claim[w].stop THEN [NoClaim EXCEPT !.stage = "stopping"]
                                     ELSE NoClaim]
    /\ UNCHANGED <<day, created, execution>>

(* An error, or a crash: before the transaction ends, or before the stop.  *)
Abandon(w) ==
    /\ txn[w] # Idle \/ claim[w] # NoClaim
    /\ txn' = [txn EXCEPT ![w] = Idle]
    /\ created' = [key \in EntryKeys |-> IF \E e \in WrittenBy(w) : e.key = key THEN NoDay
                                                                             ELSE created[key]]
    /\ claim' = [claim EXCEPT ![w] = NoClaim]
    /\ UNCHANGED <<account, journal, answers, check, day, execution>>

ControlIsShared ==
    \E w \in Writers : \/ claim[w].stage \in {"control", "judged"}
                       \/ claim[w].stage = "booked" /\ txn[w] # Idle

(* control.autoStop waits for the reservations that share the row.         *)
RaiseStop(w) ==
    /\ claim[w].stage = "stopping"
    /\ ~ ControlIsShared
    /\ execution' = FALSE
    /\ claim' = [claim EXCEPT ![w] = NoClaim]
    /\ UNCHANGED <<vars, day, created>>

(* An administrator, and midnight.                                         *)
Reactivate ==
    /\ ~ execution /\ ~ ControlIsShared
    /\ execution' = TRUE
    /\ UNCHANGED <<vars, day, created, claim>>

Midnight ==
    /\ day < LastDay
    /\ day' = day + 1
    /\ UNCHANGED <<vars, created, execution, claim>>

CheckStep(c) == ReadSums(c) \/ ReadLast(c) \/ Rest(c)

RiskNext ==
    \/ \E w \in Writers : \/ BeginReserve(w) \/ BookReserve(w) \/ AddUpDay(w)
                          \/ CommitClaim(w) \/ Abandon(w) \/ RaiseStop(w)
    \/ \E w \in Writers, a \in Accounts : LockForReserve(w, a) \/ OpenAccount(w, a) \/ LockForEntry(w, a)
    \/ \E w \in Writers, stake \in Cents :
           \/ \E stale \in BOOLEAN : Refuse(w, stake, stale)
           \/ \E key \in Keys : ReplayReserve(w, key, stake) \/ Judge(w, key, stake) \/ ReleaseStake(w, key, stake)
           \/ \E key \in Keys, paid \in Payouts : SettleStake(w, key, stake, paid)
           \/ \E key \in Keys, type \in OrderTypes, paid \in Payouts : ReplayEntry(w, key, type, stake, paid)
    \/ /\ \/ \E c \in Checkers, a \in Accounts : ReadAccount(c, a)
          \/ \E c \in Checkers : CheckStep(c)
       /\ UNCHANGED <<day, created, execution, claim>>
    \/ Reactivate \/ Midnight

RiskSpec == RiskInit /\ [][RiskNext]_riskVars

-----------------------------------------------------------------------------
(* Properties *)

StakedOn(a, d) ==
    MapThenSumSet(LAMBDA e : e.delta,
        {e \in EntriesOf(journal[a]) : e.type = "RESERVE" /\ created[e.key] = d})

(* The stakes of a day never exceed its budget, whatever reservations run  *)
(* at once, and over midnight between the sum and the entry                *)
(* (risk-engine.service.ts:99: with a sum read before the lock they did).  *)
DailyStakeHolds == \A a \in Accounts, d \in 0 .. LastDay : StakedOn(a, d) <= MaxDailyStake

(* No account has more at stake than the policy allows.                    *)
ExposureHolds == \A a \in Accounts : account[a].reserved <= MaxOpenExposure

PnlBefore(a, i) ==
    MapThenSumSet(LAMBDA j : journal[a][j].amount + journal[a][j].delta,
        {j \in 1 .. i - 1 : journal[a][j].type = "SETTLE"
                               /\ created[journal[a][j].key] = created[journal[a][i].key]})

(* Nothing is staked on a day that has lost its limit, also when the stop  *)
(* that should follow the loss was lost in a crash, or undone.             *)
NoBetAfterLoss ==
    \A a \in Accounts : \A i \in 1 .. Len(journal[a]) :
        journal[a][i].type = "RESERVE" => MaxDailyLoss > 0 /\ -PnlBefore(a, i) < MaxDailyLoss
=============================================================================
