--------------------------- MODULE Reconciliation ---------------------------
(***************************************************************************)
(* The periodic reconciliation of an account with its operator             *)
(* (reconciliation.scheduler.ts, reconciliation.service.ts): instances     *)
(* that tick under a named lock, one run per time slot, its lookups,       *)
(* resolutions and comparisons, each a query or a transaction of its own,  *)
(* while the order pipeline goes on; gaps stop execution.                  *)
(*                                                                         *)
(* The pipeline (OrderPipeline has it in full) is seen through what it     *)
(* commits: ledger entries and receipts are written with the status of     *)
(* their order.  Stakes are one unit; a won bet pays two.                  *)
(***************************************************************************)
EXTENDS Naturals, FiniteSets

CONSTANTS
    Orders,       \* orders of the account, all within the look-back
    Account,      \* what an item is about when it is about no order
    Instances,    \* processes with a scheduler
    Late,         \* LATE_FACTOR
    MaxCrashes    \* bound: crashes of instances

ASSUME AccountAssumption == Account \notin Orders
ASSUME LateAssumption == Late \in Nat \ {0} /\ MaxCrashes \in Nat

VARIABLES
    order,        \* status of each order, and its age: 1 past the short delays, 2 too old
    operator,     \* what the operator has under the key of each order
    execution,    \* whether the control lets orders be executed
    slot,         \* the run of the current time slot
    lag,          \* slots since a run completed, too many when none has
    tick,         \* what each instance is doing
    crashes

vars == <<order, operator, execution, slot, lag, tick, crashes>>

Statuses == {"NONE", "RESERVED", "SUBMITTING", "UNKNOWN", "ACCEPTED", "REJECTED", "SETTLED",
             "RECONCILIATION_REQUIRED"}
Open     == {"RESERVED", "SUBMITTING", "UNKNOWN", "ACCEPTED", "RECONCILIATION_REQUIRED"}
LookedUp == {"UNKNOWN", "ACCEPTED", "SETTLED", "REJECTED", "RECONCILIATION_REQUIRED"}

(* A request in flight is nothing the operator can find.  "other" is a bet *)
(* on other terms than were asked for.                                     *)
AtOperator == {"none", "flying", "placed", "other", "settled", "refused"}
Found      == {"placed", "other", "settled", "refused"}
Bets       == {"placed", "other", "settled"}

Idle == [at |-> "idle", rows |-> <<>>, looked |-> <<>>, todo |-> {}, fresh |-> <<>>, proofs |-> <<>>,
         books |-> <<>>, items |-> {}, late |-> FALSE, past |-> FALSE, quiet |-> TRUE, before |-> {}]

Init ==
    /\ order = [o \in Orders |-> [status |-> "NONE", age |-> 0]]
    /\ operator = [o \in Orders |-> "none"]
    /\ execution = TRUE
    /\ slot = "none" /\ lag = Late + 1
    /\ tick = [i \in Instances |-> Idle]
    /\ crashes = 0

Existing  == {o \in Orders : order[o].status # "NONE"}
Status(o) == order[o].status

(* What a run should find out about an order.                              *)
Gap(o) ==
    \/ Status(o) = "REJECTED" /\ operator[o] \in Bets
    \/ Status(o) = "RECONCILIATION_REQUIRED"

(* autoStop never throws: a stop that fails is logged, and execution goes  *)
(* on as it did.                                                           *)
AutoStop == execution' \in {FALSE, execution}

AutoStopIf(cause) == IF cause THEN AutoStop ELSE UNCHANGED execution

-----------------------------------------------------------------------------
(* The pipeline and the operator, meanwhile *)

Disturbed == [i \in Instances |-> [tick[i] EXCEPT !.quiet = FALSE]]

Move(o, from, to) ==
    /\ Status(o) \in from
    /\ order' = [order EXCEPT ![o] = [status |-> to, age |-> 0]]
    /\ tick' = Disturbed
    /\ UNCHANGED <<slot, lag, crashes>>

Reserve(o) == execution /\ Move(o, {"NONE"}, "RESERVED") /\ UNCHANGED <<operator, execution>>
Submit(o)  == execution /\ Move(o, {"RESERVED"}, "SUBMITTING") /\ UNCHANGED <<operator, execution>>

(* The request of placeOrder leaves.                                       *)
Send(o) ==
    /\ Status(o) = "SUBMITTING" /\ operator[o] = "none"
    /\ operator' = [operator EXCEPT ![o] = "flying"]
    /\ tick' = Disturbed
    /\ UNCHANGED <<order, execution, slot, lag, crashes>>

(* The call returns, or a late answer is applied.                          *)
Accept(o) == operator[o] = "placed" /\ Move(o, {"SUBMITTING", "UNKNOWN"}, "ACCEPTED")
                 /\ UNCHANGED <<operator, execution>>
Violate(o) == operator[o] = "other" /\ Move(o, {"SUBMITTING", "UNKNOWN"}, "RECONCILIATION_REQUIRED")
                 /\ AutoStop /\ UNCHANGED operator
GetRefusal(o) == operator[o] = "refused" /\ Move(o, {"SUBMITTING"}, "REJECTED")
                 /\ UNCHANGED <<operator, execution>>
TimeOut(o) == Move(o, {"SUBMITTING"}, "UNKNOWN") /\ UNCHANGED <<operator, execution>>

(* The recheck or the permit fails: a second call on the same decision     *)
(* withdraws the order although the request of the first is under way.     *)
Withdraw(o) == ~ execution /\ Move(o, {"RESERVED", "SUBMITTING"}, "REJECTED")
                 /\ UNCHANGED <<operator, execution>>

(* External: the operator handles requests and settles bets.               *)
Operate(o) ==
    /\ \/ operator[o] = "flying" /\ \E s \in {"placed", "other", "refused"} : operator' = [operator EXCEPT ![o] = s]
       \/ operator[o] = "placed" /\ operator' = [operator EXCEPT ![o] = "settled"]
    /\ tick' = Disturbed
    /\ UNCHANGED <<order, execution, slot, lag, crashes>>

Age(o) ==
    /\ Status(o) \in {"RESERVED", "SUBMITTING", "UNKNOWN"}
    /\ order[o].age < (IF Status(o) = "UNKNOWN" THEN 2 ELSE 1)
    /\ order' = [order EXCEPT ![o].age = @ + 1]
    /\ UNCHANGED <<operator, execution, slot, lag, tick, crashes>>

(* An administrator.                                                       *)
Reactivate ==
    /\ ~ execution
    /\ execution' = TRUE
    /\ UNCHANGED <<order, operator, slot, lag, tick, crashes>>

-----------------------------------------------------------------------------
(* The tick of an instance *)

At(i, at) == tick[i].at = at
Goes(i, rec) == tick' = [tick EXCEPT ![i] = rec]

(* What a tick still knows once its run is over.                           *)
Left(i, at) == [Idle EXCEPT !.at = at, !.late = tick[i].late]

(* GET_LOCK with no waiting; who does not get it is done.  Lateness will   *)
(* be judged at the time the tick begins.                                  *)
BeginTick(i) ==
    /\ \A j \in Instances : At(j, "idle")
    /\ Existing # {}
    /\ Goes(i, [Idle EXCEPT !.at = "open", !.late = lag > Late])
    /\ UNCHANGED <<order, operator, execution, slot, lag, crashes>>

(* openBatch: the run of this slot, unless there is one already.           *)
OpenRun(i) ==
    /\ At(i, "open")
    /\ IF slot = "none"
       THEN /\ slot' = "RUNNING"
            /\ Goes(i, [tick[i] EXCEPT !.at = "recover", !.quiet = TRUE, !.before = {o \in Orders : Gap(o)}])
       ELSE /\ slot' = slot
            /\ Goes(i, Left(i, "lateness"))
    /\ UNCHANGED <<order, operator, execution, lag, crashes>>

(* recoverStaleSubmissions: unknown since they were submitted.             *)
Recover(i) ==
    /\ At(i, "recover")
    /\ order' = [o \in Orders |-> IF Status(o) = "SUBMITTING" /\ order[o].age >= 1
                                  THEN [status |-> "UNKNOWN", age |-> 0] ELSE order[o]]
    /\ Goes(i, [tick[i] EXCEPT !.at = "cancel"])
    /\ UNCHANGED <<operator, execution, slot, lag, crashes>>

(* cancelAbandonedReservations                                             *)
CancelAbandoned(i) ==
    /\ At(i, "cancel")
    /\ order' = [o \in Orders |-> IF Status(o) = "RESERVED" /\ order[o].age >= 1
                                  THEN [status |-> "REJECTED", age |-> 0] ELSE order[o]]
    /\ Goes(i, [tick[i] EXCEPT !.at = "read"])
    /\ UNCHANGED <<operator, execution, slot, lag, crashes>>

ReadOrders(i) ==
    /\ At(i, "read")
    /\ Goes(i, [tick[i] EXCEPT !.at = "lookup", !.rows = [o \in Existing |-> Status(o)]])
    /\ UNCHANGED <<order, operator, execution, slot, lag, crashes>>

Item(o, type) == [order |-> o, type |-> type]

(* lookupOperatorOrders: one call, an answer per key, some of them missing.*)
Lookup(i) ==
    LET asked == {o \in DOMAIN tick[i].rows : tick[i].rows[o] \in LookedUp} IN
    /\ At(i, "lookup")
    /\ \E failed \in SUBSET asked :
           Goes(i, [tick[i] EXCEPT
               !.at = "resolve",
               !.looked = [o \in asked |-> IF o \in failed THEN "failed"
                                           ELSE IF operator[o] \in Found THEN operator[o] ELSE "none"],
               !.todo = {o \in asked \ failed : tick[i].rows[o] \in {"UNKNOWN", "ACCEPTED"}},
               !.items = {Item(o, "LOOKUP") : o \in failed},
               !.quiet = @ /\ failed = {}])
    /\ UNCHANGED <<order, operator, execution, slot, lag, crashes>>

(* resolveUnknown, settleFromOperator: what becomes of the order, which    *)
(* may have moved since it was read.                                       *)
Resolved(was, found, now) ==
    LET accepted == IF now.status \notin {"UNKNOWN", "SUBMITTING", "RESERVED"} THEN now.status
                    ELSE IF found = "other" THEN "RECONCILIATION_REQUIRED" ELSE "ACCEPTED"
    IN  CASE was = "UNKNOWN" /\ found \in Bets ->
                 IF found = "settled" /\ accepted = "ACCEPTED" THEN "SETTLED" ELSE accepted
          [] was = "ACCEPTED" /\ found = "settled" /\ now.status = "ACCEPTED" -> "SETTLED"
          [] was = "UNKNOWN" /\ now.status = "UNKNOWN" /\ (found = "refused" \/ (found = "none" /\ now.age = 1)) ->
                 "REJECTED"
          [] OTHER -> now.status

Resolve(i, o) ==
    LET was == tick[i].rows[o]   found == tick[i].looked[o]
        is  == Resolved(was, found, order[o])
        old == was = "UNKNOWN" /\ found = "none" /\ order[o].age = 2
        bad == was = "UNKNOWN" /\ found \in Bets /\ is = "RECONCILIATION_REQUIRED"
    IN
    /\ At(i, "resolve") /\ o \in tick[i].todo
    /\ order' = [order EXCEPT ![o] = IF is = @.status THEN @ ELSE [status |-> is, age |-> 0]]
    /\ AutoStopIf(old \/ bad)
    /\ Goes(i, [tick[i] EXCEPT !.todo = @ \ {o},
                              !.items = @ \cup (IF old \/ bad THEN {Item(o, "ORDER")} ELSE {})])
    /\ UNCHANGED <<operator, slot, lag, crashes>>

EndResolve(i) ==
    /\ At(i, "resolve") /\ tick[i].todo = {}
    /\ Goes(i, [tick[i] EXCEPT !.at = "again"])
    /\ UNCHANGED <<order, operator, execution, slot, lag, crashes>>

-----------------------------------------------------------------------------
(* Comparisons *)

(* Orders, and receipts with entries, are read again by parallel queries.  *)
ReadFresh(i) ==
    /\ At(i, "again") /\ tick[i].fresh = <<>>
    /\ Goes(i, [tick[i] EXCEPT !.fresh = [o \in DOMAIN tick[i].rows |-> Status(o)]])
    /\ UNCHANGED <<order, operator, execution, slot, lag, crashes>>

ReadProofs(i) ==
    /\ At(i, "again") /\ tick[i].proofs = <<>>
    /\ Goes(i, [tick[i] EXCEPT !.proofs = [o \in DOMAIN tick[i].rows |-> Status(o)]])
    /\ UNCHANGED <<order, operator, execution, slot, lag, crashes>>

(* Mutant: what was refused needs no comparison.                           *)
CompareAccepted(o, status, found, proof) ==
    LET sure == status \in {"ACCEPTED", "SETTLED"} IN
       (IF sure /\ found \notin {"placed", "settled"} THEN {Item(o, "ORDER")} ELSE {})
    \cup (IF sure /\ proof \notin {"ACCEPTED", "SETTLED"} THEN {Item(o, "RECEIPT")} ELSE {})
    \cup (IF status = "SETTLED" /\ proof # "SETTLED" THEN {Item(o, "LEDGER")} ELSE {})
    \cup (IF status = "SETTLED" /\ found \in {"placed", "other", "refused"} THEN {Item(o, "SETTLEMENT")} ELSE {})
    \cup (IF status = "RECONCILIATION_REQUIRED" THEN {Item(o, "ORDER")} ELSE {})

(* compareOrder, the critical items: the order as read again, what the     *)
(* operator was found to have before, and the status that the receipts and *)
(* entries that were read belong to.                                       *)
CompareOrder(o, status, found, proof) ==
    LET sure == status \in {"ACCEPTED", "SETTLED"}
        gaps == [ORDER      |-> \/ sure /\ found \notin {"placed", "settled"}
                                \/ status = "REJECTED" /\ found \in Bets
                                \/ status = "RECONCILIATION_REQUIRED",
                 RECEIPT    |-> sure /\ proof \notin {"ACCEPTED", "SETTLED"},
                 LEDGER     |-> \/ status = "SETTLED" /\ proof # "SETTLED"
                                \/ status = "REJECTED" /\ proof # "REJECTED",
                 SETTLEMENT |-> status = "SETTLED" /\ found \in {"placed", "other", "refused"}]
    IN  {Item(o, type) : type \in {t \in DOMAIN gaps : gaps[t]}}

(* An order that was not looked up counts as not found.                    *)
FoundFor(t, o) == IF o \in DOMAIN t.looked THEN t.looked[o] ELSE "none"

Compare(i) ==
    LET t == tick[i]
        compared == {o \in DOMAIN t.fresh : t.fresh[o] # "UNKNOWN" /\ FoundFor(t, o) # "failed"}
    IN
    /\ At(i, "again") /\ t.fresh # <<>> /\ t.proofs # <<>>
    /\ Goes(i, [t EXCEPT !.at = "account",
                         !.items = @ \cup UNION {CompareOrder(o, t.fresh[o], FoundFor(t, o), t.proofs[o]) : o \in compared}])
    /\ UNCHANGED <<order, operator, execution, slot, lag, crashes>>

(* Reserved stakes, and bets that were paid.                               *)
LocalBooks == [exposure |-> Cardinality({o \in Orders : Status(o) \in Open}),
               paid     |-> Cardinality({o \in Orders : Status(o) = "SETTLED"})]
OperatorBooks == [exposure |-> Cardinality({o \in Orders : operator[o] \in {"placed", "other"}}),
                  paid     |-> Cardinality({o \in Orders : operator[o] = "settled"})]

ReadAccount(i) ==
    /\ At(i, "account")
    /\ Goes(i, [tick[i] EXCEPT !.at = "balance", !.books = LocalBooks])
    /\ UNCHANGED <<order, operator, execution, slot, lag, crashes>>

(* Mutant: a reserved stake is expected at the operator.                   *)
AmbiguousOnceSent(status) == status \in {"SUBMITTING", "UNKNOWN"}

Ambiguous(status) == status \in {"RESERVED", "SUBMITTING", "UNKNOWN"}

(* The balance of the operator, when it can be compared, may be unreadable.*)
ReadBalance(i) ==
    LET t == tick[i]
        compares == \A o \in DOMAIN t.fresh : ~ Ambiguous(t.fresh[o])
    IN
    /\ At(i, "balance")
    /\ \E readable \in BOOLEAN :
           Goes(i, [t EXCEPT
               !.at = "invariant",
               !.items = @ \cup (IF compares /\ (~ readable \/ t.books # OperatorBooks)
                                 THEN {Item(Account, "BALANCE")} ELSE {}),
               !.quiet = @ /\ readable])
    /\ UNCHANGED <<order, operator, execution, slot, lag, crashes>>

(* verifyInvariant; what commits between its reads may look like a gap.    *)
CheckInvariant(i) ==
    /\ At(i, "invariant")
    /\ \E broken \in {FALSE, ~ tick[i].quiet} :
           Goes(i, [tick[i] EXCEPT !.at = "complete",
                                  !.items = @ \cup (IF broken THEN {Item(Account, "LEDGER")} ELSE {})])
    /\ UNCHANGED <<order, operator, execution, slot, lag, crashes>>

(* Items and status of the run in one transaction.                         *)
Complete(i) ==
    /\ At(i, "complete")
    /\ slot' = IF tick[i].past THEN slot ELSE "COMPLETED"
    /\ lag' = 0
    /\ Goes(i, [tick[i] EXCEPT !.at = "completed"])
    /\ UNCHANGED <<order, operator, execution, crashes>>

-----------------------------------------------------------------------------
(* stopTriggerFor names a cause when there is a critical item.  An account *)
(* whose run has just completed is not late.                               *)
StopForGaps(i) ==
    /\ At(i, "completed")
    /\ AutoStopIf(tick[i].items # {})
    /\ Goes(i, [Idle EXCEPT !.at = "lateness"])
    /\ UNCHANGED <<order, operator, slot, lag, crashes>>

Executing(i) == tick[i].at \in {"recover", "cancel", "read", "lookup", "resolve", "again", "account",
                               "balance", "invariant", "complete"}

(* A query of the run fails: execute catches it and marks the run.         *)
Fail(i) ==
    /\ Executing(i)
    /\ slot' = IF tick[i].past THEN slot ELSE "FAILED"
    /\ Goes(i, Left(i, "failed"))
    /\ UNCHANGED <<order, operator, execution, lag, crashes>>

(* Execution stops, and the tick goes on to the lateness of the account.   *)
StopForFailedRun(i) ==
    /\ At(i, "failed")
    /\ AutoStop
    /\ Goes(i, Left(i, "lateness"))
    /\ UNCHANGED <<order, operator, slot, lag, crashes>>

(* What a tick does outside the run; and the run, where it is looked up or *)
(* marked as failed, which leaves it running for ever.                     *)
OutsideTheRun(i) == tick[i].at \in {"open", "lateness"} \/ Executing(i)

(* Mutant: nothing is done about a tick that failed.                       *)
FailTickSilently(i) ==
    /\ OutsideTheRun(i)
    /\ Goes(i, [Idle EXCEPT !.at = "unlock"])
    /\ UNCHANGED <<order, operator, execution, slot, lag, crashes>>

(* The tick fails outside the run: runTick catches it.                     *)
FailTick(i) ==
    /\ OutsideTheRun(i)
    /\ Goes(i, [Idle EXCEPT !.at = "stop"])
    /\ UNCHANGED <<order, operator, execution, slot, lag, crashes>>

StopForFailure(i) ==
    /\ At(i, "stop")
    /\ AutoStop
    /\ Goes(i, [Idle EXCEPT !.at = "unlock"])
    /\ UNCHANGED <<order, operator, slot, lag, crashes>>

(* An account with no completed run is late from its first tick on.        *)
CheckLateness(i) ==
    /\ At(i, "lateness")
    /\ AutoStopIf(tick[i].late)
    /\ Goes(i, [Idle EXCEPT !.at = "unlock"])
    /\ UNCHANGED <<order, operator, slot, lag, crashes>>

Unlock(i) ==
    /\ At(i, "unlock")
    /\ Goes(i, Idle)
    /\ UNCHANGED <<order, operator, execution, slot, lag, crashes>>

(* An instance dies, and its connection with it: the lock is free, and the *)
(* run, if any, is left running for ever.                                  *)
Crash(i) ==
    /\ crashes < MaxCrashes /\ ~ At(i, "idle")
    /\ Goes(i, Idle)
    /\ crashes' = crashes + 1
    /\ UNCHANGED <<order, operator, execution, slot, lag>>

(* The next time slot; lag counts no further than too late.                *)
NextSlot ==
    /\ slot' = "none"
    /\ lag' = IF lag > Late THEN lag ELSE lag + 1
    /\ tick' = [i \in Instances |-> [tick[i] EXCEPT !.past = Executing(i)]]
    /\ UNCHANGED <<order, operator, execution, crashes>>

Run(i) ==
    \/ OpenRun(i) \/ Recover(i) \/ CancelAbandoned(i) \/ ReadOrders(i) \/ Lookup(i)
    \/ (\E o \in Orders : Resolve(i, o)) \/ EndResolve(i)
    \/ ReadFresh(i) \/ ReadProofs(i) \/ Compare(i) \/ ReadAccount(i) \/ ReadBalance(i)
    \/ CheckInvariant(i) \/ Complete(i) \/ StopForGaps(i)
    \/ StopForFailedRun(i) \/ StopForFailure(i) \/ CheckLateness(i) \/ Unlock(i)

Pipeline(o) ==
    \/ Reserve(o) \/ Submit(o) \/ Send(o) \/ Accept(o) \/ Violate(o) \/ GetRefusal(o)
    \/ TimeOut(o) \/ Withdraw(o) \/ Operate(o) \/ Age(o)

Next ==
    \/ \E o \in Orders : Pipeline(o)
    \/ \E i \in Instances : BeginTick(i) \/ Run(i) \/ Fail(i) \/ FailTick(i) \/ Crash(i)
    \/ NextSlot \/ Reactivate

Spec == Init /\ [][Next]_vars

(* A stop for want of a completed run that does its work.                  *)
Stopped(i) ==
    /\ StopForFailedRun(i) \/ StopForFailure(i) \/ CheckLateness(i)
    /\ execution /\ ~ execution'

(* Timers fire, and what a tick awaits ends, well or not.  A stop may fail,*)
(* but not every time it is asked for, tick after tick.                    *)
FairSpec ==
    /\ Spec
    /\ WF_vars(NextSlot)
    /\ WF_vars(\E i \in Instances : BeginTick(i))
    /\ \A i \in Instances : WF_vars(Run(i))
    /\ SF_vars(\E i \in Instances : Stopped(i))

-----------------------------------------------------------------------------
(* Properties *)

(* A run that completes has an item about every order that was in a gap    *)
(* when it began, whatever moved meanwhile and whichever lookups failed:   *)
(* a rejected order that is a bet is found out.                            *)
GapsAreReported ==
    \A i \in Instances : At(i, "completed") =>
        \A o \in tick[i].before : \E item \in tick[i].items : item.order = o

(* A run that nothing disturbs and whose calls succeed stops execution     *)
(* only for a gap, or an order that has been unknown too long.             *)
QuietRunsAgree ==
    \A i \in Instances : At(i, "completed") /\ tick[i].quiet /\ tick[i].items # {} =>
        \E o \in Orders : Gap(o) \/ (Status(o) = "UNKNOWN" /\ order[o].age = 2)

(* While there are orders, runs complete or execution stops: neither       *)
(* failing runs, dying instances nor stops that fail leave it unwatched    *)
(* (reconciliation.scheduler.ts:119-142).                                  *)
WatchedOrStopped == (execution /\ Existing # {}) ~> (~ execution \/ lag = 0)
=============================================================================
