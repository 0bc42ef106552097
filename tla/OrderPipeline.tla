--------------------------- MODULE OrderPipeline ---------------------------
(***************************************************************************)
(* The order pipeline (order-execution.service.ts) with what it shares     *)
(* state with: the kill switch, the bankroll account and its entries, the  *)
(* operator on the other side of placeOrder, and the transactions that     *)
(* reconciliation runs on orders.                                          *)
(*                                                                         *)
(* A step is one database transaction, one read outside a transaction, or  *)
(* one event at the operator.  A caller (one executeDecision in progress)  *)
(* keeps its place in pc; a transaction that stays open across a step      *)
(* ("reserving", "placing") holds the shared lock on the control row.      *)
(***************************************************************************)
EXTENDS LedgerRules, Functions

CONSTANTS
    Decisions,            \* bet decisions; at most one order each (unique decision_id)
    Keys,                 \* order idempotency keys
    NoDecision, NoKey,    \* the absent decision and the absent key or receipt
    KeyOf,                \* the key each decision hashes to
    Stake,                \* requested stake of each decision, in cents
    Unpriced,             \* decisions recorded without odd, stake or observation time
    InitialBalance,       \* opening balance of the account, in cents
    Callers,              \* executeDecision calls that may be in progress at once
    Reconcilers,          \* reconciliation runs that may be in progress at once
    ExecModes,            \* execution modes that have an operator adapter
    AccountMode,          \* the mode of the one account modelled
    Replies,              \* what the operator may do with a request it receives
    OneCallerPerDecision, \* TRUE: nobody executes a decision that is being executed
    Punctual,             \* TRUE: a submission is over before the delays that judge it
    Faults,               \* TRUE: a transaction may fail on a database error
    MaxCrashes            \* bound on process crashes

ReplyKinds == {"ACCEPT", "PARTIAL", "ACCEPT_UNSEEN", "CONTRACT_BREACH",
               "DUPLICATE_RECEIPT", "REJECT", "REJECT_RECORDED", "LOST"}

ASSUME KeysAssumption    == KeyOf \in [Decisions -> Keys]
ASSUME AbsentAssumption  == NoDecision \notin Decisions /\ NoKey \notin Keys
ASSUME StakeAssumption   == Stake \in [Decisions -> Nat \ {0}]
ASSUME UnpricedAssumption == Unpriced \subseteq Decisions
ASSUME BalanceAssumption == InitialBalance \in Nat \ {0}
ASSUME ModesAssumption   == AccountMode \in ExecModes /\ "DISABLED" \notin ExecModes
ASSUME RepliesAssumption == Replies \subseteq ReplyKinds
ASSUME SwitchesAssumption ==
    OneCallerPerDecision \in BOOLEAN /\ Punctual \in BOOLEAN /\ Faults \in BOOLEAN
ASSUME BoundAssumption   == MaxCrashes \in Nat
ASSUME ActorsAssumption  == Callers \cap Reconcilers = {}

VARIABLES
    mode,       \* execution_controls.mode
    decision,   \* bet_decisions.status
    order,      \* bet_orders row of each decision (status "NONE": no row)
    account,    \* bankroll_accounts balances
    entries,    \* bankroll_ledger_entries: entry key -> effect, NoEntry if absent
    book,       \* the operator's record of each idempotency key
    wire,       \* placement requests the operator has not handled yet
    pc,         \* where each caller is
    on,         \* the decision each caller works on
    reply,      \* the placement result a caller is about to apply
    stopping,   \* actors that owe an automatic stop
    age,        \* class of the age of an order's last timestamp
    held,       \* operator lookups held by each reconciliation run
    crashes     \* crashes so far

orderVars  == <<decision, order, age>>
ledgerVars == <<account, entries>>
callerVars == <<pc, on, reply>>
vars == <<mode, decision, order, account, entries, book, wire, pc, on, reply,
          stopping, age, held, crashes>>

-----------------------------------------------------------------------------
(* States *)

Actors == Callers \cup Reconcilers
Key(d) == KeyOf[d]

Modes            == {"DISABLED"} \cup ExecModes
DecisionStatuses == {"ELIGIBLE", "ORDER_RESERVED", "REJECTED", "COMPLETED"}
OrderStatuses    == {"NONE", "RESERVED", "SUBMITTING", "ACCEPTED", "REJECTED",
                     "UNKNOWN", "SETTLED", "VOIDED", "RECONCILIATION_REQUIRED"}
Open     == {"RESERVED", "SUBMITTING", "UNKNOWN", "ACCEPTED", "RECONCILIATION_REQUIRED"}
Terminal == {"REJECTED", "SETTLED", "VOIDED", "RECONCILIATION_REQUIRED"}
Held     == {"ACCEPTED", "SETTLED", "VOIDED"}   \* the order exists as a bet

EntryKinds == {"reserve", "release", "release-partial", "settle"}
EntryKeys  == EntryKinds \X Keys
NoEntry    == [type |-> "NONE", amount |-> 0, delta |-> 0]
Entry(type, effect) == [type |-> type, amount |-> effect.amount, delta |-> effect.delta]

(* The operator's view of a key.  `ref` stands for both the receipt hash   *)
(* and the external identifier; `sound` is FALSE when the acceptance       *)
(* breaches the contract (odd under the minimum, stake above the request,  *)
(* missing receipt).                                                       *)
NoBet == [status |-> "NONE", stake |-> 0, payout |-> 0, ref |-> NoKey, sound |-> TRUE]
Bet(s, r, ok) ==
    [status |-> "ACCEPTED", stake |-> s, payout |-> 0, ref |-> r, sound |-> ok]
BetAfter(bet, status, payout) ==
    [status |-> status, stake |-> bet.stake, payout |-> payout, ref |-> bet.ref,
     sound |-> bet.sound]

NoOrder  == [status |-> "NONE", stake |-> 0, payout |-> 0, ref |-> NoKey]

(* What a run holds of an order: read, then looked up, then being settled. *)
NoLookup == [stage |-> "none", age |-> 0, bet |-> NoBet]
OnceRead == [READ_UNKNOWN |-> "UNKNOWN", READ_ACCEPTED |-> "ACCEPTED"]
ReadAs(status, a) ==
    [stage |-> IF status = "UNKNOWN" THEN "READ_UNKNOWN" ELSE "READ_ACCEPTED",
     age |-> a, bet |-> NoBet]
Found(row, bet) == [stage |-> OnceRead[row.stage], age |-> row.age, bet |-> bet]

(* Ages: 0 fresh, 1 past SUBMITTING_STALE_MS, 2 past UNKNOWN_GRACE_MS,     *)
(* 3 past UNKNOWN_MAX_AGE_MS.                                              *)
Stale == 1
Grace == 2
TooOld == 3
Ages == 0 .. TooOld

PCs == {"idle", "reserving", "refused", "submit", "recheck", "cancelling",
        "permit", "placing", "withdrawing", "apply"}

(* lockForExecution holds the shared lock to the end of its transaction;   *)
(* a stop or a mode change needs the exclusive one.                        *)
Executable     == mode \in ExecModes
SharedHolders  == {c \in Callers : pc[c] \in {"reserving", "placing"}}
ControlNotLocked == TRUE  \* mutant: a stop that does not wait
ControlIsFree  == SharedHolders = {}

Init ==
    /\ mode = AccountMode
    /\ decision = [d \in Decisions |-> "ELIGIBLE"]
    /\ order = [d \in Decisions |-> NoOrder]
    /\ account = [available |-> InitialBalance, reserved |-> 0]
    /\ entries = [e \in EntryKeys |-> NoEntry]
    /\ book = [k \in Keys |-> NoBet]
    /\ wire = {}
    /\ pc = [c \in Callers |-> "idle"]
    /\ on = [c \in Callers |-> NoDecision]
    /\ reply = [c \in Callers |-> "none"]
    /\ stopping = {}
    /\ age = [d \in Decisions |-> 0]
    /\ held = [r \in Reconcilers |-> [d \in Decisions |-> NoLookup]]
    /\ crashes = 0

-----------------------------------------------------------------------------
(* Building blocks shared by the transactions *)

(* Mutant of AppendEntry: no lookup of the key before writing.             *)
AppendAgain(kind, k, type, stake, paid) ==
    LET effect == MovementEffect(type, stake, paid) IN
    /\ account' = After(account, effect)
    /\ entries' = [entries EXCEPT ![<<kind, k>>] = Entry(type, effect)]

(* LedgerService.append on the locked account: a key already used with the *)
(* same effect is a replay; another effect, or a movement planEntry        *)
(* refuses, aborts the transaction (the action is not enabled).            *)
AppendEntry(kind, k, type, stake, paid) ==
    LET effect == MovementEffect(type, stake, paid)
        row    == Entry(type, effect)
    IN  /\ ValidMovement(type, stake, paid)
        /\ entries[<<kind, k>>] \in {NoEntry, row}
        /\ IF entries[<<kind, k>>] = row
             THEN UNCHANGED ledgerVars
             ELSE /\ Plannable(type, account, effect)
                  /\ account' = After(account, effect)
                  /\ entries' = [entries EXCEPT ![<<kind, k>>] = row]

SetStatus(d, s) == order' = [order EXCEPT ![d].status = s]

(* Mutant of Cancel: the order is rejected, its stake stays reserved.       *)
CancelKeepingStake(d, from) ==
    /\ UNCHANGED <<ledgerVars, age>>
    /\ IF order[d].status \notin from
         THEN UNCHANGED <<order, decision>>
         ELSE SetStatus(d, "REJECTED") /\ decision' = [decision EXCEPT ![d] = "REJECTED"]

(* cancel(): under the order lock, only from the statuses given; the stake *)
(* is released when it was reserved, order and decision are rejected.      *)
Cancel(d, from) ==
    IF order[d].status \notin from
      THEN UNCHANGED <<orderVars, ledgerVars>>
      ELSE /\ IF entries[<<"reserve", Key(d)>>] = NoEntry
                THEN UNCHANGED ledgerVars
                ELSE AppendEntry("release", Key(d), "RELEASE", Stake[d], 0)
           /\ SetStatus(d, "REJECTED")
           /\ decision' = [decision EXCEPT ![d] = "REJECTED"]
           /\ UNCHANGED age

(* What an acceptance, and what a refused or withdrawn placement, may still *)
(* change.                                                                 *)
AwaitingOrRejected == {"SUBMITTING", "UNKNOWN", "RESERVED", "REJECTED"}  \* mutant
AwaitingAnswer     == {"SUBMITTING", "UNKNOWN", "RESERVED"}
Withdrawable       == {"SUBMITTING", "RESERVED"}

RefNeverTaken(r) == FALSE  \* mutant: the receipt is not looked up
RefTaken(r) == \E d \in Decisions : order[d].ref = r

(* Mutant: the stake the operator took is not recorded.                     *)
AcceptedWithoutStake(row, bet) ==
    [status |-> "ACCEPTED", stake |-> row.stake, payout |-> row.payout, ref |-> bet.ref]

AcceptedOrder(row, bet) ==
    [status |-> "ACCEPTED", stake |-> bet.stake, payout |-> row.payout, ref |-> bet.ref]

(* applyAcceptance(): inscribes the receipt and the accepted stake and     *)
(* returns what was not used; a breach or a receipt already used leaves    *)
(* the order for an operator to reconcile and asks for a stop.             *)
ApplyAcceptance(actor, d, bet) ==
    IF order[d].status \notin AwaitingAnswer
      THEN UNCHANGED <<order, ledgerVars, stopping>>
    ELSE IF ~bet.sound \/ RefTaken(bet.ref)
      THEN /\ SetStatus(d, "RECONCILIATION_REQUIRED")
           /\ stopping' = stopping \cup {actor}
           /\ UNCHANGED ledgerVars
      ELSE /\ order' = [order EXCEPT ![d] = AcceptedOrder(@, bet)]
           /\ IF bet.stake < Stake[d]
                THEN AppendEntry("release-partial", Key(d), "RELEASE", Stake[d] - bet.stake, 0)
                ELSE UNCHANGED ledgerVars
           /\ UNCHANGED stopping

Goto(c, place) == pc' = [pc EXCEPT ![c] = place]

Finish(c) ==
    /\ Goto(c, "idle")
    /\ on' = [on EXCEPT ![c] = NoDecision]
    /\ reply' = [reply EXCEPT ![c] = "none"]

At(c, place) == pc[c] = place /\ c \notin stopping

-----------------------------------------------------------------------------
(* The kill switch *)

(* autoStop -> stop: takes the exclusive lock, so it waits for every       *)
(* reservation and every placement under way.  Owed by an actor after its  *)
(* own transaction; the rejection of the decision (pc "refused") precedes. *)
AutoStop(a) ==
    /\ a \in stopping
    /\ a \in Callers => pc[a] # "refused"
    /\ ControlIsFree
    /\ mode' = "DISABLED"
    /\ stopping' = stopping \ {a}
    /\ UNCHANGED <<orderVars, ledgerVars, callerVars, book, wire, held, crashes>>

(* An administrator stops, or changes mode (ExecutionControl has the       *)
(* conditions of each transition).                                         *)
ChangeMode(m) ==
    /\ ControlIsFree
    /\ m # mode
    /\ mode' = m
    /\ UNCHANGED <<orderVars, ledgerVars, callerVars, book, wire, stopping, held, crashes>>

-----------------------------------------------------------------------------
(* executeDecision: reserve() *)

MayExecute(c, d) ==
    /\ At(c, "idle")
    /\ OneCallerPerDecision => \A x \in Callers : on[x] # d

Start(c, d, place) ==
    /\ Goto(c, place)
    /\ on' = [on EXCEPT ![c] = d]
    /\ UNCHANGED reply

(* The decision already has an order: a RESERVED one is handed to submit,  *)
(* any other is returned as it is.                                         *)
ReserveExisting(c, d) ==
    /\ MayExecute(c, d)
    /\ order[d].status = "RESERVED"
    /\ Start(c, d, "submit")
    /\ UNCHANGED <<mode, orderVars, ledgerVars, book, wire, stopping, held, crashes>>

(* The control refuses execution: the transaction rolls back and the       *)
(* decision is rejected afterwards, in a transaction of its own.  With     *)
(* Faults, the control may also be unreadable, which asks for a stop.      *)
ReserveBlocked(c, d) ==
    /\ MayExecute(c, d)
    /\ order[d].status = "NONE"
    /\ Start(c, d, "refused")
    /\ \/ ~Executable /\ UNCHANGED stopping
       \/ Faults /\ stopping' = stopping \cup {c}
    /\ UNCHANGED <<mode, orderVars, ledgerVars, book, wire, held, crashes>>

DecisionIsFree(d) == \A x \in Callers : ~(pc[x] = "reserving" /\ on[x] = d)
KeyIsUsed(k) == \E d \in Decisions : order[d].status # "NONE" /\ Key(d) = k

(* The decision carries no odd, or an order of the same signal and time    *)
(* slot exists: the decision is rejected and no order is created.          *)
ReserveDeclined(c, d) ==
    /\ MayExecute(c, d)
    /\ order[d].status = "NONE"
    /\ Executable
    /\ decision[d] = "ELIGIBLE"
    /\ DecisionIsFree(d)
    /\ d \in Unpriced \/ KeyIsUsed(Key(d))
    /\ decision' = [decision EXCEPT ![d] = "REJECTED"]
    /\ UNCHANGED <<mode, order, age, ledgerVars, callerVars, book, wire, stopping,
                   held, crashes>>

(* Control, decision and key checked; the transaction stays open.          *)
ReserveBegin(c, d) ==
    /\ MayExecute(c, d)
    /\ order[d].status = "NONE"
    /\ Executable
    /\ decision[d] = "ELIGIBLE"
    /\ DecisionIsFree(d)
    /\ d \notin Unpriced
    /\ ~KeyIsUsed(Key(d))
    /\ Start(c, d, "reserving")
    /\ UNCHANGED <<mode, orderVars, ledgerVars, book, wire, stopping, held, crashes>>

(* The order and its stake, in one transaction: reserveWithin accepts.     *)
ReserveStake(c) ==
    LET d == on[c] IN
    /\ At(c, "reserving")
    /\ ~KeyIsUsed(Key(d))
    /\ mode = AccountMode
    /\ Stake[d] <= account.available
    /\ AppendEntry("reserve", Key(d), "RESERVE", Stake[d], 0)
    /\ SetStatus(d, "RESERVED")
    /\ decision' = [decision EXCEPT ![d] = "ORDER_RESERVED"]
    /\ age' = [age EXCEPT ![d] = 0]
    /\ Goto(c, "submit")
    /\ UNCHANGED <<mode, on, reply, book, wire, stopping, held, crashes>>

(* reserveWithin refuses (a risk limit, or an account of another mode):    *)
(* the order is kept, rejected; some limits also ask for a stop.           *)
ReserveRefused(c) ==
    LET d == on[c] IN
    /\ At(c, "reserving")
    /\ ~KeyIsUsed(Key(d))
    /\ SetStatus(d, "REJECTED")
    /\ decision' = [decision EXCEPT ![d] = "REJECTED"]
    /\ stopping' \in {stopping, stopping \cup {c}}
    /\ Finish(c)
    /\ UNCHANGED <<mode, age, ledgerVars, book, wire, held, crashes>>

(* The transaction fails: the key was inserted by another decision since   *)
(* it was checked (unique violation), or a database error.  Either asks    *)
(* for a stop.                                                             *)
ReserveFailed(c) ==
    /\ At(c, "reserving")
    /\ KeyIsUsed(Key(on[c])) \/ Faults
    /\ Goto(c, "refused")
    /\ stopping' = stopping \cup {c}
    /\ UNCHANGED <<mode, orderVars, ledgerVars, on, reply, book, wire, held, crashes>>

(* Mutant of RejectDecision: whatever the decision has become.              *)
RejectAnyDecision(c) ==
    /\ pc[c] = "refused"
    /\ decision' = [decision EXCEPT ![on[c]] = "REJECTED"]
    /\ Finish(c)
    /\ UNCHANGED <<mode, order, age, ledgerVars, book, wire, stopping, held, crashes>>

(* rejectDecision(..., 'ELIGIBLE') after a rolled back reservation.        *)
RejectDecision(c) ==
    LET d == on[c] IN
    /\ pc[c] = "refused"
    /\ decision' = [decision EXCEPT ![d] = IF @ = "ELIGIBLE" THEN "REJECTED" ELSE @]
    /\ Finish(c)
    /\ UNCHANGED <<mode, order, age, ledgerVars, book, wire, stopping, held, crashes>>

-----------------------------------------------------------------------------
(* executeDecision: submit() *)

(* First read of submit(), then the quote; only a RESERVED order goes on.  *)
SubmitRead(c) ==
    /\ At(c, "submit")
    /\ IF order[on[c]].status = "RESERVED"
         THEN Goto(c, "recheck") /\ UNCHANGED <<on, reply>>
         ELSE Finish(c)
    /\ UNCHANGED <<mode, orderVars, ledgerVars, book, wire, stopping, held, crashes>>

(* The transaction that rechecks before the call and moves the order to    *)
(* SUBMITTING.  An order another caller already moved to SUBMITTING is     *)
(* returned as it is, and the caller goes on with it.                      *)
Recheck(c) ==
    LET d == on[c] IN
    /\ At(c, "recheck")
    /\ \/ /\ Executable
          /\ order[d].status = "RESERVED"
          /\ mode = AccountMode
          /\ SetStatus(d, "SUBMITTING")
          /\ age' = [age EXCEPT ![d] = 0]
          /\ Goto(c, "permit")
          /\ UNCHANGED <<decision, on, reply, stopping>>
       \/ /\ Executable
          /\ order[d].status = "SUBMITTING"
          /\ Goto(c, "permit")
          /\ UNCHANGED <<orderVars, on, reply, stopping>>
       \/ /\ Executable
          /\ order[d].status \notin {"RESERVED", "SUBMITTING"}
          /\ Finish(c)
          /\ UNCHANGED <<orderVars, stopping>>
    /\ UNCHANGED <<mode, ledgerVars, book, wire, held, crashes>>

(* The recheck refuses: stopped or other mode, no quote, odd moved, stale  *)
(* quote (asks for a stop), or the transaction failed.                     *)
RecheckRefused(c) ==
    /\ At(c, "recheck")
    /\ \/ ~Executable \/ Faults
       \/ order[on[c]].status = "RESERVED"
    /\ stopping' \in IF Executable THEN {stopping, stopping \cup {c}} ELSE {stopping}
    /\ Goto(c, "cancelling")
    /\ UNCHANGED <<mode, orderVars, ledgerVars, on, reply, book, wire, held, crashes>>

CancelReserved(c) ==
    /\ At(c, "cancelling")
    /\ Cancel(on[c], {"RESERVED"})
    /\ Finish(c)
    /\ UNCHANGED <<mode, book, wire, stopping, held, crashes>>

(* withSubmissionPermit grants the shared lock in the order's mode: the    *)
(* request leaves.                                                         *)
PlaceOrder(c) ==
    /\ At(c, "permit")
    /\ mode = AccountMode
    /\ wire' = wire \cup {<<c, on[c]>>}
    /\ Goto(c, "placing")
    /\ UNCHANGED <<mode, orderVars, ledgerVars, on, reply, book, stopping, held, crashes>>

(* The permit is refused (stopped, other mode, control unreadable): the    *)
(* order is withdrawn, after the stop an unreadable control asks for.      *)
PermitRefused(c) ==
    /\ At(c, "permit")
    /\ \/ mode # AccountMode /\ UNCHANGED stopping
       \/ Faults /\ stopping' = stopping \cup {c}
    /\ Goto(c, "withdrawing")
    /\ UNCHANGED <<mode, orderVars, ledgerVars, on, reply, book, wire, held, crashes>>

CancelSubmitting(c) ==
    /\ At(c, "withdrawing")
    /\ Cancel(on[c], Withdrawable)
    /\ Finish(c)
    /\ UNCHANGED <<mode, book, wire, stopping, held, crashes>>

(* boundedSubmission gives up, or placeOrder throws: UNKNOWN, whatever the *)
(* operator makes of the request.                                          *)
PlaceOrderFails(c) ==
    /\ At(c, "placing")
    /\ Goto(c, "apply")
    /\ reply' = [reply EXCEPT ![c] = "UNKNOWN"]
    /\ UNCHANGED <<mode, orderVars, ledgerVars, on, book, wire, stopping, held, crashes>>

ApplyPlacementResult(c) ==
    LET d == on[c] IN
    /\ At(c, "apply")
    /\ \/ /\ reply[c] = "ACCEPTED"
          /\ ApplyAcceptance(c, d, book[Key(d)])
          /\ UNCHANGED <<decision, age>>
       \/ /\ reply[c] = "REJECTED"
          /\ Cancel(d, Withdrawable)
          /\ UNCHANGED stopping
       \/ /\ reply[c] = "UNKNOWN"
          /\ IF order[d].status = "SUBMITTING"
               THEN SetStatus(d, "UNKNOWN") /\ age' = [age EXCEPT ![d] = 0]
               ELSE UNCHANGED <<order, age>>
          /\ UNCHANGED <<decision, ledgerVars, stopping>>
    /\ Finish(c)
    /\ UNCHANGED <<mode, book, wire, held, crashes>>

-----------------------------------------------------------------------------
(* The operator *)

(* A reply reaches the caller only while it still waits for it.            *)
Answer(c, d, result) ==
    IF pc[c] = "placing" /\ on[c] = d /\ result # "none"
      THEN Goto(c, "apply") /\ reply' = [reply EXCEPT ![c] = result]
      ELSE UNCHANGED <<pc, reply>>

OtherRefs(k) == {book[x].ref : x \in {y \in Keys \ {k} : book[y].status \in Held}}

(* The bets a request may turn into.  ACCEPT_UNSEEN: accepted, but the     *)
(* answer is lost, malformed or only an acknowledgement.                   *)
NewBets(d) ==
    {Bet(Stake[d], Key(d), TRUE) : x \in Replies \cap {"ACCEPT", "ACCEPT_UNSEEN"}}
    \cup {Bet(s, Key(d), TRUE) : s \in IF "PARTIAL" \in Replies THEN 1 .. Stake[d] ELSE {}}
    \cup {Bet(Stake[d], Key(d), FALSE) : x \in Replies \cap {"CONTRACT_BREACH"}}
    \cup {Bet(Stake[d], r, TRUE) :
            r \in IF "DUPLICATE_RECEIPT" \in Replies THEN OtherRefs(Key(d)) ELSE {}}

(* The operator handles a request, at any time after it was sent: it       *)
(* deduplicates by key, accepts, refuses (with or without a trace), or the *)
(* request is lost.                                                        *)
OperatorHandles(c, d) ==
    LET k == Key(d) IN
    /\ <<c, d>> \in wire
    /\ wire' = wire \ {<<c, d>>}
    /\ \/ /\ book[k].status # "NONE"
          /\ Answer(c, d, IF book[k].status = "REJECTED" THEN "REJECTED" ELSE "ACCEPTED")
          /\ UNCHANGED book
       \/ /\ book[k].status = "NONE"
          /\ \E bet \in NewBets(d) : book' = [book EXCEPT ![k] = bet]
          /\ \/ Answer(c, d, "ACCEPTED")
             \/ "ACCEPT_UNSEEN" \in Replies /\ Answer(c, d, "UNKNOWN")
       \/ /\ book[k].status = "NONE"
          /\ \/ "REJECT" \in Replies /\ UNCHANGED book
             \/ "REJECT_RECORDED" \in Replies
                  /\ book' = [book EXCEPT ![k] = BetAfter(@, "REJECTED", 0)]
          /\ Answer(c, d, "REJECTED")
       \/ /\ "LOST" \in Replies
          /\ UNCHANGED <<book, pc, reply>>
    /\ UNCHANGED <<mode, orderVars, ledgerVars, on, stopping, held, crashes>>

(* The event ends: won, lost, or void.                                     *)
OperatorSettles(k) ==
    /\ book[k].status = "ACCEPTED"
    /\ \/ book' = [book EXCEPT ![k] = BetAfter(@, "VOIDED", @.stake)]
       \/ book' = [book EXCEPT ![k] = BetAfter(@, "SETTLED", 0)]
       \/ book' = [book EXCEPT ![k] = BetAfter(@, "SETTLED", 2 * @.stake)]
    /\ UNCHANGED <<mode, orderVars, ledgerVars, callerVars, wire, stopping, held, crashes>>

-----------------------------------------------------------------------------
(* What reconciliation runs do to orders *)

(* Mutants of RecoverStaleSubmission: hand the order back for submission,   *)
(* or do not look for it.                                                  *)
RetryStaleSubmission(d) ==
    /\ order[d].status = "SUBMITTING"
    /\ age[d] >= Stale
    /\ SetStatus(d, "RESERVED")
    /\ UNCHANGED <<mode, decision, age, ledgerVars, callerVars, book, wire, stopping,
                   held, crashes>>
IgnoreStaleSubmission(d) == FALSE

(* recoverStaleSubmissions: unknownSince is the time of submission.        *)
RecoverStaleSubmission(d) ==
    /\ order[d].status = "SUBMITTING"
    /\ age[d] >= Stale
    /\ SetStatus(d, "UNKNOWN")
    /\ UNCHANGED <<mode, decision, age, ledgerVars, callerVars, book, wire, stopping,
                   held, crashes>>

(* cancelAbandonedBatch: only reservations the ledger knows.               *)
CancelAbandoned(d) ==
    /\ order[d].status = "RESERVED"
    /\ age[d] >= Stale
    /\ entries[<<"reserve", Key(d)>>] # NoEntry
    /\ Cancel(d, {"RESERVED"})
    /\ UNCHANGED <<mode, callerVars, book, wire, stopping, held, crashes>>

LookedUpAccepted == {"ACCEPTED"}  \* mutant
LookedUp         == {"UNKNOWN", "ACCEPTED"}

(* A run reads the order.                                                  *)
ReadOrder(r, d) ==
    /\ r \notin stopping
    /\ held[r][d] = NoLookup
    /\ order[d].status \in LookedUp
    /\ held' = [held EXCEPT ![r][d] = ReadAs(order[d].status, age[d])]
    /\ UNCHANGED <<mode, orderVars, ledgerVars, callerVars, book, wire, stopping, crashes>>

(* Then it reads the operator with the same key.  A lookup that fails      *)
(* leaves the order alone and asks for a stop.                             *)
Lookup(r, d) ==
    LET row == held[r][d] IN
    /\ r \notin stopping
    /\ row.stage \in DOMAIN OnceRead
    /\ \/ /\ held' = [held EXCEPT ![r][d] = Found(row, book[Key(d)])]
          /\ UNCHANGED stopping
       \/ /\ Faults
          /\ stopping' = stopping \cup {r}
          /\ held' = [held EXCEPT ![r][d] = NoLookup]
    /\ UNCHANGED <<mode, orderVars, ledgerVars, callerVars, book, wire, crashes>>

Release(r, d) == held' = [held EXCEPT ![r][d] = NoLookup]
MoveTo(r, d, stage) ==
    held' = [held EXCEPT ![r][d] = [stage |-> stage, age |-> @.age, bet |-> @.bet]]

GivenUpAtOnce(a) == a < TooOld  \* mutant: no grace delay
GivenUp(a)       == a >= Grace /\ a < TooOld
OlderThanTooOld(a) == a > TooOld  \* mutant
IsTooOld(a)      == a >= TooOld

(* resolveUnknown, with the order and the operator as they were read.      *)
ResolveUnknown(r, d) ==
    LET bet == held[r][d].bet IN
    /\ r \notin stopping
    /\ held[r][d].stage = "UNKNOWN"
    /\ \/ /\ bet.status = "REJECTED"
          /\ Cancel(d, {"UNKNOWN"})
          /\ UNCHANGED stopping
          /\ Release(r, d)
       \/ /\ bet.status \in Held
          /\ ApplyAcceptance(r, d, bet)
          /\ UNCHANGED <<decision, age>>
          /\ IF order'[d].status = "RECONCILIATION_REQUIRED"
               THEN Release(r, d)
               ELSE MoveTo(r, d, "ACCEPTED")
       \/ /\ bet.status = "NONE"
          /\ IsTooOld(held[r][d].age)
          /\ stopping' = stopping \cup {r}
          /\ UNCHANGED <<orderVars, ledgerVars>>
          /\ Release(r, d)
       \/ /\ bet.status = "NONE"
          /\ GivenUp(held[r][d].age)
          /\ Cancel(d, {"UNKNOWN"})
          /\ UNCHANGED stopping
          /\ Release(r, d)
       \/ /\ bet.status = "NONE"
          /\ held[r][d].age < Grace
          /\ UNCHANGED <<orderVars, ledgerVars, stopping>>
          /\ Release(r, d)
    /\ UNCHANGED <<mode, callerVars, book, wire, crashes>>

(* settleFromOperator, first transaction: the SETTLE entry.  The day's     *)
(* loss may ask for a stop.                                                *)
SettleStake(r, d) ==
    LET bet == held[r][d].bet IN
    /\ r \notin stopping
    /\ held[r][d].stage = "ACCEPTED"
    /\ order[d].status = "ACCEPTED"
    /\ bet.status \in {"SETTLED", "VOIDED"}
    /\ AppendEntry("settle", Key(d), "SETTLE", order[d].stake, bet.payout)
    /\ MoveTo(r, d, "SETTLING")
    /\ stopping' \in {stopping, stopping \cup {r}}
    /\ UNCHANGED <<mode, orderVars, callerVars, book, wire, crashes>>

SettledOrder(row, payout) ==
    [status |-> IF payout = row.stake THEN "VOIDED" ELSE "SETTLED",
     stake |-> row.stake, payout |-> payout, ref |-> row.ref]

(* settleFromOperator, second transaction: order and decision.             *)
SettleOrder(r, d) ==
    LET bet == held[r][d].bet IN
    /\ r \notin stopping
    /\ held[r][d].stage = "SETTLING"
    /\ IF order[d].status # "ACCEPTED"
         THEN UNCHANGED orderVars
         ELSE /\ order' = [order EXCEPT ![d] = SettledOrder(@, bet.payout)]
              /\ decision' = [decision EXCEPT ![d] = "COMPLETED"]
              /\ UNCHANGED age
    /\ Release(r, d)
    /\ UNCHANGED <<mode, ledgerVars, callerVars, book, wire, stopping, crashes>>

(* Nothing to settle: the run moves on.                                    *)
LeaveAccepted(r, d) ==
    /\ r \notin stopping
    /\ held[r][d].stage = "ACCEPTED"
    /\ \/ order[d].status # "ACCEPTED"
       \/ held[r][d].bet.status \notin {"SETTLED", "VOIDED"}
    /\ Release(r, d)
    /\ UNCHANGED <<mode, orderVars, ledgerVars, callerVars, book, wire, stopping, crashes>>

-----------------------------------------------------------------------------
(* Time and failures *)

BeingSubmitted(d) == \E c \in Callers : on[c] = d /\ pc[c] \in {"permit", "placing"}
InFlight(d)       == \E c \in Callers : <<c, d>> \in wire

(* An order's age passes the next delay.  Punctual: a live caller is done  *)
(* with the call (SUBMISSION_TIMEOUT_MS, 20 s) before the order looks      *)
(* stale (60 s), and the operator has handled the request, or never will,  *)
(* before the grace delay (5 min) ends.                                    *)
Tick(d) ==
    /\ order[d].status \in {"RESERVED", "SUBMITTING", "UNKNOWN"}
    /\ age[d] < TooOld
    /\ Punctual => /\ age[d] + 1 >= Stale => ~BeingSubmitted(d)
                   /\ age[d] + 1 >= Grace => ~InFlight(d)
    /\ age' = [age EXCEPT ![d] = @ + 1]
    /\ UNCHANGED <<mode, decision, order, ledgerVars, callerVars, book, wire, stopping,
                   held, crashes>>

(* The process dies: open transactions roll back, callers, runs and the    *)
(* stops they owed are gone; requests already sent are not.                *)
Crash ==
    /\ crashes < MaxCrashes
    /\ crashes' = crashes + 1
    /\ pc' = [c \in Callers |-> "idle"]
    /\ on' = [c \in Callers |-> NoDecision]
    /\ reply' = [c \in Callers |-> "none"]
    /\ stopping' = {}
    /\ held' = [r \in Reconcilers |-> [d \in Decisions |-> NoLookup]]
    /\ UNCHANGED <<mode, orderVars, ledgerVars, book, wire>>

-----------------------------------------------------------------------------
ExecuteDecision(c, d) ==
    \/ ReserveExisting(c, d)
    \/ ReserveBlocked(c, d)
    \/ ReserveDeclined(c, d)
    \/ ReserveBegin(c, d)

(* What a caller does once it has started: every step is taken without     *)
(* waiting for anything but locks.                                         *)
Proceed(c) ==
    \/ ReserveStake(c)
    \/ ReserveRefused(c)
    \/ ReserveFailed(c)
    \/ RejectDecision(c)
    \/ SubmitRead(c)
    \/ Recheck(c)
    \/ RecheckRefused(c)
    \/ CancelReserved(c)
    \/ PlaceOrder(c)
    \/ PermitRefused(c)
    \/ CancelSubmitting(c)
    \/ PlaceOrderFails(c)
    \/ ApplyPlacementResult(c)

Reconcile(r, d) ==
    \/ ReadOrder(r, d)
    \/ Lookup(r, d)
    \/ ResolveUnknown(r, d)
    \/ SettleStake(r, d)
    \/ SettleOrder(r, d)
    \/ LeaveAccepted(r, d)

Next ==
    \/ \E a \in Actors : AutoStop(a)
    \/ \E m \in Modes : ChangeMode(m)
    \/ \E c \in Callers, d \in Decisions : ExecuteDecision(c, d)
    \/ \E c \in Callers : Proceed(c)
    \/ \E c \in Callers, d \in Decisions : OperatorHandles(c, d)
    \/ \E k \in Keys : OperatorSettles(k)
    \/ \E d \in Decisions : RecoverStaleSubmission(d)
    \/ \E d \in Decisions : CancelAbandoned(d)
    \/ \E r \in Reconcilers, d \in Decisions : Reconcile(r, d)
    \/ \E d \in Decisions : Tick(d)
    \/ Crash

Spec == Init /\ [][Next]_vars

-----------------------------------------------------------------------------
(* Properties *)

OrderRows == [status : OrderStatuses, stake : Nat, payout : Nat, ref : Keys \cup {NoKey}]
Balances  == [available : Nat, reserved : Nat]
EntryRows == [type : EntryTypes \cup {"NONE"}, amount : Int, delta : Int]
Bets      == [status : {"NONE", "REJECTED"} \cup Held, stake : Nat, payout : Nat,
              ref : Keys \cup {NoKey}, sound : BOOLEAN]
Stages    == {"none", "READ_UNKNOWN", "READ_ACCEPTED", "UNKNOWN", "ACCEPTED", "SETTLING"}
Lookups   == [stage : Stages, age : Ages, bet : Bets]

(* Types of every variable.  Balances never go below zero (ledger.service  *)
(* planEntry), whatever movements callers and runs append.                 *)
TypeOK ==
    /\ mode \in Modes
    /\ decision \in [Decisions -> DecisionStatuses]
    /\ order \in [Decisions -> OrderRows]
    /\ account \in Balances
    /\ entries \in [EntryKeys -> EntryRows]
    /\ book \in [Keys -> Bets]
    /\ wire \subseteq Callers \X Decisions
    /\ pc \in [Callers -> PCs]
    /\ on \in [Callers -> Decisions \cup {NoDecision}]
    /\ reply \in [Callers -> {"none", "ACCEPTED", "REJECTED", "UNKNOWN"}]
    /\ stopping \subseteq Actors
    /\ age \in [Decisions -> Ages]
    /\ held \in [Reconcilers -> [Decisions -> Lookups]]
    /\ crashes \in 0 .. MaxCrashes

(* The stake an order still ties up.  An ACCEPTED order whose SETTLE entry *)
(* is written ties up nothing more, whatever its row still says.           *)
StakeTiedUp(d) ==
    CASE order[d].status \in {"RESERVED", "SUBMITTING", "UNKNOWN", "RECONCILIATION_REQUIRED"}
           -> Stake[d]
      [] order[d].status = "ACCEPTED" /\ entries[<<"settle", Key(d)>>] = NoEntry
           -> order[d].stake
      [] OTHER -> 0

(* What the entries of one order leave reserved.                           *)
ReservedFor(d) ==
    entries[<<"reserve", Key(d)>>].delta + entries[<<"release", Key(d)>>].delta
      + entries[<<"release-partial", Key(d)>>].delta + entries[<<"settle", Key(d)>>].delta

HasOrder(d) == order[d].status # "NONE"

(* order-execution.service.ts: whatever path an order took, in whatever    *)
(* order callers, runs and crashes left it, its ledger entries keep        *)
(* reserved exactly the stake the order still ties up: nothing is released *)
(* twice, nothing stays reserved behind a closed order.                    *)
StakeAccounted == \A d \in Decisions : HasOrder(d) => ReservedFor(d) = StakeTiedUp(d)

(* The phase of an order's money, and what its entries leave reserved of it. *)
PhaseOf(d) ==
    CASE order[d].status = "NONE" -> "none"
      [] order[d].status \in {"RESERVED", "SUBMITTING", "UNKNOWN"} -> "pending"
      [] order[d].status = "REJECTED" -> "returned"
      [] order[d].status = "RECONCILIATION_REQUIRED" -> "disputed"
      [] OTHER -> IF entries[<<"settle", Key(d)>>] = NoEntry THEN "placed" ELSE "paid"

TiedBy(d) == IF HasOrder(d) THEN ReservedFor(d) ELSE 0

Money == INSTANCE Escrow WITH
    Orders  <- Decisions,
    StakeOf <- Stake,
    phase   <- [d \in Decisions |-> PhaseOf(d)],
    tied    <- [d \in Decisions |-> TiedBy(d)]

(* ledger.service.ts and order-execution.service.ts together implement the *)
(* escrow: the entries of an order move its money only along the phases of *)
(* Escrow, each once, whichever caller, run, retry or crash writes them.   *)
KeepsEscrow == Money!Spec

(* Who holds the lock of the control: a reservation until it commits, a    *)
(* placement until the operator has answered.                              *)
Switch == INSTANCE KillSwitch WITH
    Parties   <- Callers,
    Levels    <- ExecModes,
    level     <- mode,
    committed <- {c \in Callers : pc[c] \in {"reserving", "placing"}}

(* order-execution.service.ts uses the control as execution-control.service*)
(* offers it: whatever callers, runs and crashes do, money is committed in *)
(* one mode, which does not move before whoever commits it is done.        *)
KeepsSwitch == Switch!Spec

Profit(d) == LET e == entries[<<"settle", Key(d)>>] IN
    IF HasOrder(d) THEN e.amount + e.delta ELSE 0

(* ledger.service.ts, append: the account row agrees with the orders; what *)
(* is reserved is what open orders tie up, and the rest of the money is    *)
(* available, with the profits and losses settled so far.                  *)
AccountMatchesOrders ==
    LET tied   == SumFunction([d \in Decisions |-> StakeTiedUp(d)])
        profit == SumFunction([d \in Decisions |-> Profit(d)])
    IN  /\ account.reserved = tied
        /\ account.available = InitialBalance - tied + profit

(* order-execution.service.ts:1081 and :729: an order is only rejected     *)
(* when it is certain that the operator did not take it: a rejected order, *)
(* whose stake is spendable again, is never a bet at the operator.         *)
RejectedNeverPlaced ==
    \A d \in Decisions :
        order[d].status = "REJECTED" => book[Key(d)].status \notin Held

(* order-execution.service.ts:178 "soumission UNIQUE": a request leaves    *)
(* only for a SUBMITTING order none of whose requests was ever sent: none  *)
(* is on its way and the operator knows nothing of the key.                *)
SubmittedOnce ==
    [][\A c \in Callers, d \in Decisions : <<c, d>> \in wire' \ wire =>
            /\ order[d].status = "SUBMITTING"
            /\ ~InFlight(d)
            /\ book[Key(d)].status = "NONE"]_vars

(* applyAcceptance and settleFromOperator: an order recorded as a bet is   *)
(* the operator's bet, stake for stake and receipt for receipt, its        *)
(* receipt backs no other order, and its payout is the operator's.         *)
AcceptedMatchesOperator ==
    \A d \in Decisions : order[d].status \in Held =>
        /\ book[Key(d)].status \in Held
        /\ book[Key(d)].sound
        /\ order[d].stake = book[Key(d)].stake
        /\ order[d].ref = book[Key(d)].ref
        /\ order[d].status # "ACCEPTED" => /\ book[Key(d)].status # "ACCEPTED"
                                           /\ order[d].payout = book[Key(d)].payout
        /\ \A x \in Decisions \ {d} : order[x].ref # order[d].ref

(* execution-control.service.ts:218: a stop, or any change of mode, is not *)
(* effective in the middle of a placement: nobody waits for the operator   *)
(* under another mode than the order's.                                    *)
StopIsEffective == \A c \in Callers : pc[c] = "placing" => mode = AccountMode

(* order-execution.service.ts: order and decision tell the same story,     *)
(* also when two calls on one decision fail and succeed at the same time.  *)
DecisionFollowsOrder ==
    \A d \in Decisions : HasOrder(d) =>
        decision[d] = CASE order[d].status \in Open -> "ORDER_RESERVED"
                        [] order[d].status = "REJECTED" -> "REJECTED"
                        [] OTHER -> "COMPLETED"

(* Unique idempotency_key with the check before it: one signal in one time *)
(* slot makes one order, whatever the interleaving of two reservations.    *)
OneOrderPerKey ==
    \A d, x \in Decisions : HasOrder(d) /\ HasOrder(x) /\ Key(d) = Key(x) => d = x

(* Rejected, settled, voided orders and those left to an operator are      *)
(* never touched again, by a late answer, a retry or another run.          *)
TerminalOrdersStay ==
    [][\A d \in Decisions : order[d].status \in Terminal => order'[d] = order[d]]_vars

(* order-execution.service.ts:728: an UNKNOWN order is not given up before *)
(* the grace delay, unless the operator itself says it refused it.         *)
UnknownNotGivenUpEarly ==
    [][\A d \in Decisions :
            order[d].status = "UNKNOWN" /\ order'[d].status = "REJECTED" =>
                age[d] >= Grace \/ book[Key(d)].status = "REJECTED"]_vars

-----------------------------------------------------------------------------
(* Liveness *)

(* A started call goes on by itself.  InnoDB queues lock requests in       *)
(* order, so a stop waiting for the exclusive lock is not overtaken for    *)
(* ever by new shared locks.  The reconciliation scheduler runs            *)
(* periodically.  Time passes.  A lookup that is tried again and again is   *)
(* answered at last; nothing else is assumed of the operator, and nothing  *)
(* of administrators.                                                      *)
Fairness ==
    /\ \A c \in Callers : WF_vars(Proceed(c))
    /\ \A a \in Actors : SF_vars(AutoStop(a))
    /\ \A d \in Decisions : /\ WF_vars(RecoverStaleSubmission(d))
                            /\ WF_vars(CancelAbandoned(d))
                            /\ WF_vars(Tick(d))
    /\ \A r \in Reconcilers, d \in Decisions :
           /\ WF_vars(Reconcile(r, d))
           /\ SF_vars(Lookup(r, d) /\ UNCHANGED stopping)

FairSpec == Spec /\ Fairness

(* No stake is left behind an order nobody works on: a reservation or a    *)
(* submission interrupted by a crash is cancelled or found out.            *)
NoOrderLeftBehind ==
    \A d \in Decisions :
        order[d].status \in {"RESERVED", "SUBMITTING"} ~>
            order[d].status \notin {"RESERVED", "SUBMITTING"}

(* A bet the operator took although the answer was lost is found.          *)
LostAnswersAreFound ==
    \A d \in Decisions :
        order[d].status = "UNKNOWN" /\ book[Key(d)].status \in Held ~>
            order[d].status # "UNKNOWN"

(* order-execution.service.ts:730 "trop ancien : arrêt": an order that     *)
(* stays unknown past UNKNOWN_MAX_AGE_MS stops execution.                  *)
TooOldStops ==
    \A d \in Decisions :
        order[d].status = "UNKNOWN" /\ age[d] = TooOld ~>
            order[d].status # "UNKNOWN" \/ mode = "DISABLED"

=============================================================================
