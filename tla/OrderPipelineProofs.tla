------------------------ MODULE OrderPipelineProofs ------------------------
(***************************************************************************)
(* The safety of the order pipeline, proved for any number of decisions,   *)
(* keys, callers, reconciliation runs and crashes: type correctness, an    *)
(* inductive invariant that relates orders, ledger entries, the operator's *)
(* book and what runs hold of it, and what follows from it, for all orders *)
(* together and for the operator: the account row adds up over the orders; *)
(* and an order is submitted once and rejected only when it is no bet, if  *)
(* no two calls execute one decision and submissions keep to their delays. *)
(***************************************************************************)
EXTENDS OrderPipeline, FoldTheorems, TLAPS

-----------------------------------------------------------------------------
(* Type correctness *)

(* A caller with work in hand works on a decision.                         *)
WorkInHand == \A c \in Callers : pc[c] # "idle" => on[c] \in Decisions

(* ledger.service.ts append: whatever the movement, account and entries    *)
(* keep their types; planEntry keeps both balances at zero or above.       *)
LEMMA AppendKeepsTypes ==
    ASSUME TypeOK,
           NEW kind \in EntryKinds, NEW k \in Keys,
           NEW type \in EntryTypes, NEW stake \in Nat, NEW paid \in Nat,
           AppendEntry(kind, k, type, stake, paid)
    PROVE  /\ account' \in Balances
           /\ entries' \in [EntryKeys -> EntryRows]
<1> DEFINE effect == MovementEffect(type, stake, paid)
<1>1. effect \in [amount : Int, delta : Int]
  BY DEF MovementEffect, EntryTypes
<1>2. Entry(type, effect) \in EntryRows
  BY <1>1 DEF Entry, EntryRows
<1>3. CASE UNCHANGED ledgerVars
  BY <1>3 DEF ledgerVars, TypeOK
<1>4. CASE /\ Plannable(type, account, effect)
           /\ account' = After(account, effect)
           /\ entries' = [entries EXCEPT ![<<kind, k>>] = Entry(type, effect)]
  <2>1. After(account, effect) \in Balances
    BY <1>1, <1>4 DEF Plannable, After, Balances, TypeOK
  <2> QED
    BY <1>2, <1>4, <2>1 DEF TypeOK
<1> QED
  BY <1>3, <1>4 DEF AppendEntry

(* The order row keeps its type when its status changes.                   *)
LEMMA SetStatusKeepsTypes ==
    ASSUME TypeOK, NEW d \in Decisions, NEW s \in OrderStatuses, SetStatus(d, s)
    PROVE  order' \in [Decisions -> OrderRows]
BY DEF SetStatus, TypeOK, OrderRows

(* cancel() keeps the types of everything it may write.                    *)
LEMMA CancelKeepsTypes ==
    ASSUME TypeOK, NEW d \in Decisions, NEW from, Cancel(d, from)
    PROVE  /\ order' \in [Decisions -> OrderRows]
           /\ decision' \in [Decisions -> DecisionStatuses]
           /\ age' \in [Decisions -> Ages]
           /\ account' \in Balances
           /\ entries' \in [EntryKeys -> EntryRows]
<1>1. CASE UNCHANGED <<orderVars, ledgerVars>>
  BY <1>1 DEF orderVars, ledgerVars, TypeOK
<1>2. CASE order[d].status \in from
  <2>1. order' \in [Decisions -> OrderRows]
    BY <1>2, SetStatusKeepsTypes DEF Cancel, OrderStatuses
  <2>2. Key(d) \in Keys /\ Stake[d] \in Nat
    BY KeysAssumption, StakeAssumption DEF Key
  <2>3. account' \in Balances /\ entries' \in [EntryKeys -> EntryRows]
    <3>1. CASE UNCHANGED ledgerVars
      BY <3>1 DEF ledgerVars, TypeOK
    <3>2. CASE AppendEntry("release", Key(d), "RELEASE", Stake[d], 0)
      BY <2>2, <3>2, AppendKeepsTypes DEF EntryKinds, EntryTypes
    <3> QED
      BY <1>2, <3>1, <3>2 DEF Cancel
  <2> QED
    BY <1>2, <2>1, <2>3 DEF Cancel, TypeOK, DecisionStatuses
<1> QED
  BY <1>1, <1>2 DEF Cancel

(* applyAcceptance() keeps the types of everything it may write.           *)
LEMMA AcceptanceKeepsTypes ==
    ASSUME TypeOK, NEW a \in Actors, NEW d \in Decisions, NEW bet \in Bets,
           ApplyAcceptance(a, d, bet)
    PROVE  /\ order' \in [Decisions -> OrderRows]
           /\ account' \in Balances
           /\ entries' \in [EntryKeys -> EntryRows]
           /\ stopping' \subseteq Actors
<1>1. CASE UNCHANGED <<order, ledgerVars, stopping>>
  BY <1>1 DEF ledgerVars, TypeOK
<1>2. CASE /\ SetStatus(d, "RECONCILIATION_REQUIRED")
           /\ stopping' = stopping \cup {a}
           /\ UNCHANGED ledgerVars
  BY <1>2, SetStatusKeepsTypes DEF ledgerVars, TypeOK, OrderStatuses
<1>3. CASE /\ order' = [order EXCEPT ![d] = AcceptedOrder(@, bet)]
           /\ IF bet.stake < Stake[d]
                THEN AppendEntry("release-partial", Key(d), "RELEASE", Stake[d] - bet.stake, 0)
                ELSE UNCHANGED ledgerVars
           /\ UNCHANGED stopping
  <2>1. order' \in [Decisions -> OrderRows]
    BY <1>3 DEF TypeOK, OrderRows, OrderStatuses, Bets, AcceptedOrder
  <2>2. Key(d) \in Keys /\ Stake[d] \in Nat /\ bet.stake \in Nat
    BY KeysAssumption, StakeAssumption DEF Key, Bets
  <2>3. account' \in Balances /\ entries' \in [EntryKeys -> EntryRows]
    <3>1. CASE UNCHANGED ledgerVars
      BY <3>1 DEF ledgerVars, TypeOK
    <3>2. CASE bet.stake < Stake[d]
      <4>1. Stake[d] - bet.stake \in Nat
        BY <2>2, <3>2
      <4> QED
        BY <1>3, <2>2, <3>2, <4>1, AppendKeepsTypes DEF EntryKinds, EntryTypes
    <3> QED
      BY <1>3, <3>1, <3>2
  <2> QED
    BY <1>3, <2>1, <2>3 DEF TypeOK
<1> QED
  BY <1>1, <1>2, <1>3 DEF ApplyAcceptance

-----------------------------------------------------------------------------
(* Types *)

(* A call that returns leaves nothing behind.                              *)
LEMMA FinishKeepsTypes ==
    ASSUME TypeOK, WorkInHand, NEW c \in Callers, Finish(c)
    PROVE  /\ pc' \in [Callers -> PCs]
           /\ on' \in [Callers -> Decisions \cup {NoDecision}]
           /\ reply' \in [Callers -> {"none", "ACCEPTED", "REJECTED", "UNKNOWN"}]
           /\ WorkInHand'
BY DEF Finish, Goto, TypeOK, WorkInHand, PCs

(* A call that moves on keeps its decision.                                *)
LEMMA GotoKeepsTypes ==
    ASSUME TypeOK, WorkInHand, NEW c \in Callers, NEW place \in PCs,
           pc[c] # "idle", Goto(c, place), UNCHANGED on
    PROVE  pc' \in [Callers -> PCs] /\ WorkInHand'
BY DEF Goto, TypeOK, WorkInHand

(* What a run holds of an order stays a lookup.                            *)
LEMMA HoldKeepsTypes ==
    ASSUME TypeOK, NEW r \in Reconcilers, NEW d \in Decisions, NEW l \in Lookups,
           held' = [held EXCEPT ![r][d] = l]
    PROVE  held' \in [Reconcilers -> [Decisions -> Lookups]]
BY DEF TypeOK

LEMMA NoLookupIsLookup == NoLookup \in Lookups
BY DEF NoLookup, Lookups, Stages, NoBet, Bets, Ages, TooOld

LEMMA ReleaseKeepsTypes ==
    ASSUME TypeOK, NEW r \in Reconcilers, NEW d \in Decisions, Release(r, d)
    PROVE  held' \in [Reconcilers -> [Decisions -> Lookups]]
BY NoLookupIsLookup, HoldKeepsTypes DEF Release

LEMMA MoveKeepsTypes ==
    ASSUME TypeOK, NEW r \in Reconcilers, NEW d \in Decisions,
           NEW s \in {"ACCEPTED", "SETTLING"}, MoveTo(r, d, s)
    PROVE  held' \in [Reconcilers -> [Decisions -> Lookups]]
<1> DEFINE l == [stage |-> s, age |-> held[r][d].age, bet |-> held[r][d].bet]
<1>1. l \in Lookups
  BY DEF TypeOK, Lookups, Stages
<1>2. held' = [held EXCEPT ![r][d] = l]
  BY DEF MoveTo
<1> QED
  BY <1>1, <1>2, HoldKeepsTypes

(* bet_orders, bankroll_accounts, execution_controls and the rest keep     *)
(* their types, the balances stay at zero or above, and a call in progress *)
(* has a decision in hand.                                                 *)
LEMMA StepKeepsTypes ==
    ASSUME TypeOK, WorkInHand, [Next]_vars
    PROVE  TypeOK' /\ WorkInHand'
<1> USE DEF orderVars, ledgerVars, callerVars
<1>1. CASE UNCHANGED vars
  BY <1>1 DEF vars, TypeOK, WorkInHand
<1>2. ASSUME NEW a \in Actors, AutoStop(a) PROVE TypeOK' /\ WorkInHand'
  BY <1>2 DEF AutoStop, Modes, ControlIsFree, TypeOK, WorkInHand
<1>3. ASSUME NEW m \in Modes, ChangeMode(m) PROVE TypeOK' /\ WorkInHand'
  BY <1>3 DEF ChangeMode, Modes, TypeOK, WorkInHand
<1>4. ASSUME NEW c \in Callers, NEW d \in Decisions, ReserveExisting(c, d) PROVE TypeOK' /\ WorkInHand'
  BY <1>4 DEF ReserveExisting, Start, Goto, PCs, TypeOK, WorkInHand
<1>5. ASSUME NEW c \in Callers, NEW d \in Decisions, ReserveBlocked(c, d) PROVE TypeOK' /\ WorkInHand'
  BY <1>5 DEF ReserveBlocked, MayExecute, At, Start, Goto, PCs, Actors, TypeOK, WorkInHand
<1>6. ASSUME NEW c \in Callers, NEW d \in Decisions, ReserveDeclined(c, d) PROVE TypeOK' /\ WorkInHand'
  BY <1>6 DEF ReserveDeclined, DecisionStatuses, TypeOK, WorkInHand
<1>7. ASSUME NEW c \in Callers, NEW d \in Decisions, ReserveBegin(c, d) PROVE TypeOK' /\ WorkInHand'
  BY <1>7 DEF ReserveBegin, Start, Goto, PCs, TypeOK, WorkInHand
<1>8. ASSUME NEW c \in Callers, ReserveStake(c) PROVE TypeOK' /\ WorkInHand'
  <2> DEFINE d == on[c]
  <2>1. pc[c] # "idle" /\ d \in Decisions
    BY <1>8 DEF ReserveStake, At, WorkInHand
  <2>2. Key(d) \in Keys /\ Stake[d] \in Nat
    BY <2>1, KeysAssumption, StakeAssumption DEF Key
  <2>3. account' \in Balances /\ entries' \in [EntryKeys -> EntryRows]
    BY <1>8, <2>2, AppendKeepsTypes DEF ReserveStake, EntryKinds, EntryTypes
  <2>4. order' \in [Decisions -> OrderRows]
    BY <1>8, <2>1, SetStatusKeepsTypes DEF ReserveStake, OrderStatuses
  <2>5. pc' \in [Callers -> PCs] /\ WorkInHand'
    BY <1>8, <2>1, GotoKeepsTypes DEF ReserveStake, PCs
  <2>6. decision' \in [Decisions -> DecisionStatuses] /\ age' \in [Decisions -> Ages]
    BY <1>8, <2>1 DEF ReserveStake, TypeOK, DecisionStatuses, Ages, TooOld
  <2> QED
    BY <1>8, <2>3, <2>4, <2>5, <2>6 DEF ReserveStake, TypeOK
<1>9. ASSUME NEW c \in Callers, ReserveRefused(c) PROVE TypeOK' /\ WorkInHand'
  <2>1. on[c] \in Decisions
    BY <1>9 DEF ReserveRefused, At, WorkInHand
  <2>2. order' \in [Decisions -> OrderRows]
    BY <1>9, <2>1, SetStatusKeepsTypes DEF ReserveRefused, OrderStatuses
  <2> QED
    BY <1>9, <2>1, <2>2, FinishKeepsTypes DEF ReserveRefused, TypeOK, DecisionStatuses, Actors
<1>10. ASSUME NEW c \in Callers, ReserveFailed(c) PROVE TypeOK' /\ WorkInHand'
  BY <1>10, GotoKeepsTypes DEF ReserveFailed, At, PCs, Actors, TypeOK
<1>11. ASSUME NEW c \in Callers, RejectDecision(c) PROVE TypeOK' /\ WorkInHand'
  BY <1>11 DEF RejectDecision, Finish, Goto, PCs, DecisionStatuses, TypeOK, WorkInHand
<1>12. ASSUME NEW c \in Callers, SubmitRead(c) PROVE TypeOK' /\ WorkInHand'
  BY <1>12 DEF SubmitRead, At, Finish, Goto, PCs, TypeOK, WorkInHand
<1>13. ASSUME NEW c \in Callers, Recheck(c) PROVE TypeOK' /\ WorkInHand'
  <2>1. on[c] \in Decisions /\ pc[c] # "idle"
    BY <1>13 DEF Recheck, At, WorkInHand
  <2>2. order' \in [Decisions -> OrderRows]
    BY <1>13, <2>1, SetStatusKeepsTypes DEF Recheck, OrderStatuses, TypeOK
  <2>3. /\ pc' \in [Callers -> PCs]
        /\ on' \in [Callers -> Decisions \cup {NoDecision}]
        /\ reply' \in [Callers -> {"none", "ACCEPTED", "REJECTED", "UNKNOWN"}]
        /\ WorkInHand'
    <3>1. CASE Goto(c, "permit") /\ UNCHANGED <<on, reply>>
      BY <2>1, <3>1, GotoKeepsTypes DEF PCs, TypeOK
    <3>2. CASE Finish(c)
      BY <3>2, FinishKeepsTypes
    <3> QED
      BY <1>13, <3>1, <3>2 DEF Recheck
  <2>4. stopping' = stopping /\ decision' \in [Decisions -> DecisionStatuses]
        /\ age' \in [Decisions -> Ages]
    BY <1>13, <2>1 DEF Recheck, TypeOK, Ages, TooOld
  <2> QED
    BY <1>13, <2>2, <2>3, <2>4 DEF Recheck, TypeOK
<1>14. ASSUME NEW c \in Callers, RecheckRefused(c) PROVE TypeOK' /\ WorkInHand'
  BY <1>14 DEF RecheckRefused, At, Goto, PCs, Actors, TypeOK, WorkInHand
<1>15. ASSUME NEW c \in Callers, CancelReserved(c) PROVE TypeOK' /\ WorkInHand'
  BY <1>15, CancelKeepsTypes DEF CancelReserved, At, Finish, Goto, PCs, TypeOK, WorkInHand
<1>16. ASSUME NEW c \in Callers, PlaceOrder(c) PROVE TypeOK' /\ WorkInHand'
  BY <1>16 DEF PlaceOrder, At, Goto, PCs, TypeOK, WorkInHand
<1>17. ASSUME NEW c \in Callers, PermitRefused(c) PROVE TypeOK' /\ WorkInHand'
  BY <1>17 DEF PermitRefused, At, Goto, PCs, Actors, TypeOK, WorkInHand
<1>18. ASSUME NEW c \in Callers, CancelSubmitting(c) PROVE TypeOK' /\ WorkInHand'
  BY <1>18, CancelKeepsTypes DEF CancelSubmitting, At, Finish, Goto, PCs, TypeOK, WorkInHand
<1>19. ASSUME NEW c \in Callers, PlaceOrderFails(c) PROVE TypeOK' /\ WorkInHand'
  BY <1>19 DEF PlaceOrderFails, At, Goto, PCs, TypeOK, WorkInHand
<1>20. ASSUME NEW c \in Callers, ApplyPlacementResult(c) PROVE TypeOK' /\ WorkInHand'
  <2> DEFINE d == on[c]
  <2>1. d \in Decisions /\ Key(d) \in Keys
    BY <1>20, KeysAssumption DEF ApplyPlacementResult, At, WorkInHand, Key
  <2>2. /\ order' \in [Decisions -> OrderRows]
        /\ decision' \in [Decisions -> DecisionStatuses]
        /\ age' \in [Decisions -> Ages]
        /\ account' \in Balances
        /\ entries' \in [EntryKeys -> EntryRows]
        /\ stopping' \subseteq Actors
    <3>1. CASE /\ ApplyAcceptance(c, d, book[Key(d)])
               /\ UNCHANGED <<decision, age>>
      <4>1. c \in Actors /\ book[Key(d)] \in Bets
        BY <2>1 DEF Actors, TypeOK
      <4> QED
        BY <2>1, <3>1, <4>1, AcceptanceKeepsTypes DEF TypeOK
    <3>2. CASE Cancel(d, Withdrawable) /\ UNCHANGED stopping
      BY <2>1, <3>2, CancelKeepsTypes DEF TypeOK
    <3>3. CASE /\ SetStatus(d, "UNKNOWN") /\ age' = [age EXCEPT ![d] = 0]
               /\ UNCHANGED <<decision, ledgerVars, stopping>>
      BY <2>1, <3>3, SetStatusKeepsTypes DEF TypeOK, OrderStatuses, Ages, TooOld
    <3>4. CASE UNCHANGED <<order, age, decision, ledgerVars, stopping>>
      BY <3>4 DEF TypeOK
    <3> QED
      BY <1>20, <3>1, <3>2, <3>3, <3>4 DEF ApplyPlacementResult
  <2> QED
    BY <1>20, <2>2, FinishKeepsTypes DEF ApplyPlacementResult, TypeOK
<1>21. ASSUME NEW c \in Callers, NEW d \in Decisions, OperatorHandles(c, d) PROVE TypeOK' /\ WorkInHand'
  <2>1. /\ pc' \in [Callers -> PCs]
        /\ reply' \in [Callers -> {"none", "ACCEPTED", "REJECTED", "UNKNOWN"}]
        /\ WorkInHand'
    <3>1. ASSUME NEW result \in {"ACCEPTED", "REJECTED", "UNKNOWN"}, Answer(c, d, result)
          PROVE  /\ pc' \in [Callers -> PCs]
                 /\ reply' \in [Callers -> {"none", "ACCEPTED", "REJECTED", "UNKNOWN"}]
                 /\ WorkInHand'
      BY <1>21, <3>1 DEF OperatorHandles, Answer, Goto, TypeOK, WorkInHand, PCs
    <3>2. CASE UNCHANGED <<pc, reply>>
      BY <1>21, <3>2 DEF OperatorHandles, TypeOK, WorkInHand
    <3> QED
      BY <1>21, <3>1, <3>2 DEF OperatorHandles
  <2>2. Key(d) \in Keys /\ Stake[d] \in Nat
    BY KeysAssumption, StakeAssumption DEF Key
  <2>3. ASSUME NEW bet \in NewBets(d) PROVE bet \in Bets
    <3>1. ASSUME NEW s \in Nat, NEW ref \in Keys \cup {NoKey}, NEW ok \in BOOLEAN
          PROVE  Bet(s, ref, ok) \in Bets
      BY <3>1 DEF Bet, Bets, Held
    <3>2. OtherRefs(Key(d)) \subseteq Keys \cup {NoKey}
      BY DEF OtherRefs, TypeOK, Bets
    <3>3. PICK s \in 1 .. Stake[d] \cup {Stake[d]}, ref \in Keys \cup {NoKey}, ok \in BOOLEAN :
            bet = Bet(s, ref, ok)
      BY <2>2, <2>3, <3>2 DEF NewBets
    <3> QED
      BY <2>2, <3>1, <3>3
  <2>4. BetAfter(book[Key(d)], "REJECTED", 0) \in Bets
    BY <2>2 DEF BetAfter, Bets, TypeOK
  <2>5. book' \in [Keys -> Bets]
    BY <1>21, <2>2, <2>3, <2>4 DEF OperatorHandles, TypeOK
  <2> QED
    BY <1>21, <2>1, <2>5 DEF OperatorHandles, TypeOK
<1>22. ASSUME NEW k \in Keys, OperatorSettles(k) PROVE TypeOK' /\ WorkInHand'
  BY <1>22 DEF OperatorSettles, BetAfter, Bets, Held, TypeOK, WorkInHand
<1>23. ASSUME NEW d \in Decisions, RecoverStaleSubmission(d) PROVE TypeOK' /\ WorkInHand'
  BY <1>23, SetStatusKeepsTypes DEF RecoverStaleSubmission, OrderStatuses, TypeOK, WorkInHand
<1>24. ASSUME NEW d \in Decisions, CancelAbandoned(d) PROVE TypeOK' /\ WorkInHand'
  BY <1>24, CancelKeepsTypes DEF CancelAbandoned, TypeOK, WorkInHand
<1>32. ASSUME NEW r \in Reconcilers, NEW d \in Decisions, ReadOrder(r, d) PROVE TypeOK' /\ WorkInHand'
  <2>1. ReadAs(order[d].status, age[d]) \in Lookups
    BY NoLookupIsLookup DEF ReadAs, NoLookup, Lookups, Stages, TypeOK
  <2>2. held' \in [Reconcilers -> [Decisions -> Lookups]]
    BY <1>32, <2>1, HoldKeepsTypes DEF ReadOrder
  <2> QED
    BY <1>32, <2>2 DEF ReadOrder, TypeOK, WorkInHand
<1>25. ASSUME NEW r \in Reconcilers, NEW d \in Decisions, Lookup(r, d) PROVE TypeOK' /\ WorkInHand'
  <2>1. held[r][d] \in Lookups /\ book[Key(d)] \in Bets
    BY KeysAssumption DEF Key, TypeOK
  <2>2. held[r][d].stage \in DOMAIN OnceRead => Found(held[r][d], book[Key(d)]) \in Lookups
    BY <2>1 DEF OnceRead, Found, Lookups, Stages
  <2>3. held' \in [Reconcilers -> [Decisions -> Lookups]] /\ stopping' \subseteq Actors
    BY <1>25, <2>2, NoLookupIsLookup, HoldKeepsTypes DEF Lookup, TypeOK, Actors
  <2> QED
    BY <1>25, <2>3 DEF Lookup, TypeOK, WorkInHand
<1>26. ASSUME NEW r \in Reconcilers, NEW d \in Decisions, ResolveUnknown(r, d) PROVE TypeOK' /\ WorkInHand'
  <2> DEFINE bet == held[r][d].bet
  <2>1. held[r][d] \in Lookups /\ bet \in Bets /\ r \in Actors
    BY DEF TypeOK, Lookups, Actors
  <2>2. held' \in [Reconcilers -> [Decisions -> Lookups]]
    BY <1>26, ReleaseKeepsTypes, MoveKeepsTypes DEF ResolveUnknown
  <2>3. /\ order' \in [Decisions -> OrderRows]
        /\ decision' \in [Decisions -> DecisionStatuses]
        /\ age' \in [Decisions -> Ages]
        /\ account' \in Balances
        /\ entries' \in [EntryKeys -> EntryRows]
        /\ stopping' \subseteq Actors
    <3>1. CASE Cancel(d, {"UNKNOWN"}) /\ UNCHANGED stopping
      BY <3>1, CancelKeepsTypes DEF TypeOK
    <3>2. CASE ApplyAcceptance(r, d, bet) /\ UNCHANGED <<decision, age>>
      BY <2>1, <3>2, AcceptanceKeepsTypes DEF TypeOK
    <3>3. CASE UNCHANGED <<orderVars, ledgerVars>> /\ stopping' \in {stopping, stopping \cup {r}}
      BY <2>1, <3>3 DEF TypeOK
    <3> QED
      BY <1>26, <3>1, <3>2, <3>3 DEF ResolveUnknown
  <2> QED
    BY <1>26, <2>2, <2>3 DEF ResolveUnknown, TypeOK, WorkInHand
<1>27. ASSUME NEW r \in Reconcilers, NEW d \in Decisions, SettleStake(r, d) PROVE TypeOK' /\ WorkInHand'
  <2>1. /\ held[r][d].bet.payout \in Nat
        /\ order[d].stake \in Nat
        /\ Key(d) \in Keys
    BY KeysAssumption DEF TypeOK, Lookups, Bets, OrderRows, Key
  <2>2. account' \in Balances /\ entries' \in [EntryKeys -> EntryRows]
    BY <1>27, <2>1, AppendKeepsTypes DEF SettleStake, EntryKinds, EntryTypes
  <2>3. held' \in [Reconcilers -> [Decisions -> Lookups]]
    BY <1>27, MoveKeepsTypes DEF SettleStake
  <2> QED
    BY <1>27, <2>2, <2>3 DEF SettleStake, TypeOK, WorkInHand, Actors
<1>28. ASSUME NEW r \in Reconcilers, NEW d \in Decisions, SettleOrder(r, d) PROVE TypeOK' /\ WorkInHand'
  <2>1. held' \in [Reconcilers -> [Decisions -> Lookups]]
    BY <1>28, ReleaseKeepsTypes DEF SettleOrder
  <2>2. SettledOrder(order[d], held[r][d].bet.payout) \in OrderRows
    BY DEF SettledOrder, OrderRows, OrderStatuses, TypeOK, Lookups, Bets
  <2>3. /\ order' \in [Decisions -> OrderRows]
        /\ decision' \in [Decisions -> DecisionStatuses]
        /\ age' \in [Decisions -> Ages]
    BY <1>28, <2>2 DEF SettleOrder, TypeOK, DecisionStatuses
  <2> QED
    BY <1>28, <2>1, <2>3 DEF SettleOrder, TypeOK, WorkInHand
<1>29. ASSUME NEW r \in Reconcilers, NEW d \in Decisions, LeaveAccepted(r, d) PROVE TypeOK' /\ WorkInHand'
  BY <1>29, ReleaseKeepsTypes DEF LeaveAccepted, TypeOK, WorkInHand
<1>30. ASSUME NEW d \in Decisions, Tick(d) PROVE TypeOK' /\ WorkInHand'
  BY <1>30 DEF Tick, Ages, TooOld, TypeOK, WorkInHand
<1>31. ASSUME Crash PROVE TypeOK' /\ WorkInHand'
  <2>1. held' \in [Reconcilers -> [Decisions -> Lookups]]
    BY <1>31, NoLookupIsLookup DEF Crash
  <2>2. crashes' \in 0 .. MaxCrashes
    BY <1>31, BoundAssumption DEF Crash, TypeOK
  <2> QED
    BY <1>31, <2>1, <2>2 DEF Crash, PCs, TypeOK, WorkInHand
<1> QED
  BY <1>1, <1>2, <1>3, <1>4, <1>5, <1>6, <1>7, <1>8, <1>9, <1>10, <1>11, <1>12, <1>13, <1>14,
     <1>15, <1>16, <1>17, <1>18, <1>19, <1>20, <1>21, <1>22, <1>23, <1>24, <1>32, <1>25, <1>26,
     <1>27, <1>28, <1>29, <1>30, <1>31 DEF Next, ExecuteDecision, Proceed, Reconcile

LEMMA InitKeepsTypes ==
    ASSUME Init
    PROVE  TypeOK /\ WorkInHand
<1>1. account \in Balances
  BY BalanceAssumption DEF Init, Balances
<1>2. entries \in [EntryKeys -> EntryRows]
  BY DEF Init, EntryRows, NoEntry
<1>3. order \in [Decisions -> OrderRows] /\ book \in [Keys -> Bets]
  BY DEF Init, NoOrder, OrderRows, OrderStatuses, NoBet, Bets
<1>4. held \in [Reconcilers -> [Decisions -> Lookups]]
  BY NoLookupIsLookup DEF Init
<1> QED
  BY <1>1, <1>2, <1>3, <1>4, ModesAssumption, BoundAssumption
  DEF Init, TypeOK, WorkInHand, Modes, DecisionStatuses, PCs, Ages, TooOld

(* TypeOK for every number of callers, runs, decisions and crashes: no     *)
(* interleaving of appends makes a balance negative.                       *)
THEOREM TypesAreKept == Spec => []TypeOK
<1>1. Init => TypeOK /\ WorkInHand
  BY InitKeepsTypes
<1>2. TypeOK /\ WorkInHand /\ [Next]_vars => TypeOK' /\ WorkInHand'
  BY StepKeepsTypes
<1> QED
  BY <1>1, <1>2, PTL DEF Spec

-----------------------------------------------------------------------------
(* The inductive invariant, part by part *)

ReserveRow(d) == [type |-> "RESERVE", amount |-> -Stake[d], delta |-> Stake[d]]
ReleaseRow(s) == [type |-> "RELEASE", amount |-> s, delta |-> -s]
SettleRow(s, paid) == [type |-> "SETTLE", amount |-> paid, delta |-> -s]

EntryOf(kind, d) == entries[<<kind, Key(d)>>]
Unanswered == {"RESERVED", "SUBMITTING", "UNKNOWN"}

(* The ledger entries an order has, status by status.                      *)
EntriesFollowOrder(d) ==
    /\ order[d].status \in Unanswered \cup {"RECONCILIATION_REQUIRED"} =>
         /\ EntryOf("reserve", d) = ReserveRow(d)
         /\ EntryOf("release", d) = NoEntry
         /\ EntryOf("release-partial", d) = NoEntry
         /\ EntryOf("settle", d) = NoEntry
    /\ order[d].status = "REJECTED" =>
         /\ \/ EntryOf("reserve", d) = NoEntry /\ EntryOf("release", d) = NoEntry
            \/ /\ EntryOf("reserve", d) = ReserveRow(d)
               /\ EntryOf("release", d) = ReleaseRow(Stake[d])
         /\ EntryOf("release-partial", d) = NoEntry
         /\ EntryOf("settle", d) = NoEntry
    /\ order[d].status \in Held =>
         /\ order[d].stake \in 1 .. Stake[d]
         /\ EntryOf("reserve", d) = ReserveRow(d)
         /\ EntryOf("release", d) = NoEntry
         /\ EntryOf("release-partial", d) =
              IF order[d].stake < Stake[d] THEN ReleaseRow(Stake[d] - order[d].stake)
                                           ELSE NoEntry
         /\ \/ order[d].status = "ACCEPTED" /\ EntryOf("settle", d) = NoEntry
            \/ \E paid \in Nat : EntryOf("settle", d) = SettleRow(order[d].stake, paid)

(* A key without an order has no entry.                                    *)
EntriesNeedOrder ==
    \A k \in Keys : ~KeyIsUsed(k) => \A kind \in EntryKinds : entries[<<kind, k>>] = NoEntry

LedgerFollowsOrders ==
    /\ OneOrderPerKey
    /\ EntriesNeedOrder
    /\ \A d \in Decisions : EntriesFollowOrder(d)

(* Past its reservation a call has an order; so has a request under way.   *)
OrderInHand ==
    /\ \A c \in Callers :
         pc[c] \in {"submit", "recheck", "cancelling", "permit", "placing",
                    "withdrawing", "apply"} => HasOrder(on[c])
    /\ \A w \in wire : HasOrder(w[2])

(* The operator only knows keys of orders, for at most the stake asked.    *)
BookFollowsOrders ==
    /\ \A k \in Keys : book[k].status # "NONE" => KeyIsUsed(k)
    /\ \A d \in Decisions : HasOrder(d) /\ book[Key(d)].status \in Held =>
         /\ book[Key(d)].stake \in 1 .. Stake[d]
         /\ book[Key(d)].ref \in Keys

(* An acceptance in hand is the operator's.                                *)
RepliesAreTrue ==
    \A c \in Callers :
        /\ pc[c] # "apply" => reply[c] = "none"
        /\ reply[c] = "ACCEPTED" => book[Key(on[c])].status \in Held

(* What was looked up at the operator may be outdated, never untrue.       *)
StillTrue(bet, now) ==
    /\ bet.status = "REJECTED" => now.status = "REJECTED"
    /\ bet.status \in Held => /\ now.status \in Held
                              /\ now.stake = bet.stake
                              /\ now.ref = bet.ref
                              /\ now.sound = bet.sound
    /\ bet.status \in {"SETTLED", "VOIDED"} => /\ now.status = bet.status
                                               /\ now.payout = bet.payout

LookupsAreTrue ==
    \A r \in Reconcilers, d \in Decisions : held[r][d].stage # "none" =>
        /\ HasOrder(d)
        /\ StillTrue(held[r][d].bet, book[Key(d)])
        /\ order[d].status \notin {"RESERVED", "SUBMITTING"}
        /\ order[d].status = "UNKNOWN" => held[r][d].age <= age[d]
        /\ held[r][d].stage = "SETTLING" =>
             /\ EntryOf("settle", d) # NoEntry
             /\ order[d].status \in Held
             /\ held[r][d].bet.status \in {"SETTLED", "VOIDED"}

IInv ==
    /\ TypeOK
    /\ WorkInHand
    /\ LedgerFollowsOrders
    /\ OrderInHand
    /\ BookFollowsOrders
    /\ RepliesAreTrue
    /\ LookupsAreTrue
    /\ StopIsEffective
    /\ DecisionFollowsOrder
    /\ AcceptedMatchesOperator

-----------------------------------------------------------------------------
(* What a step may do to an order and to its entries *)

Writes(kind, d, row) == entries' = [entries EXCEPT ![<<kind, Key(d)>>] = row]

Creates(d) ==
    /\ ~KeyIsUsed(Key(d))
    /\ \/ SetStatus(d, "RESERVED") /\ Writes("reserve", d, ReserveRow(d))
       \/ SetStatus(d, "REJECTED") /\ UNCHANGED entries

Advances(d) ==
    /\ \/ order[d].status = "RESERVED" /\ SetStatus(d, "SUBMITTING")
       \/ order[d].status = "SUBMITTING" /\ SetStatus(d, "UNKNOWN")
       \/ order[d].status \in Unanswered /\ SetStatus(d, "RECONCILIATION_REQUIRED")
    /\ UNCHANGED entries

Withdraws(d) ==
    /\ order[d].status \in Unanswered
    /\ SetStatus(d, "REJECTED")
    /\ Writes("release", d, ReleaseRow(Stake[d]))

Accepts(d) ==
    /\ order[d].status \in Unanswered
    /\ \E bet \in Bets :
         /\ bet.status \in Held /\ bet.sound /\ ~RefTaken(bet.ref)
         /\ StillTrue(bet, book[Key(d)])
         /\ order' = [order EXCEPT ![d] = AcceptedOrder(@, bet)]
         /\ IF bet.stake < Stake[d]
              THEN Writes("release-partial", d, ReleaseRow(Stake[d] - bet.stake))
              ELSE UNCHANGED entries

WritesSettlement(d) ==
    /\ order[d].status = "ACCEPTED"
    /\ UNCHANGED order
    /\ \E paid \in Nat : Writes("settle", d, SettleRow(order[d].stake, paid))

Closes(d) ==
    /\ order[d].status = "ACCEPTED"
    /\ EntryOf("settle", d) # NoEntry
    /\ \E bet \in Bets :
         /\ bet.status \in {"SETTLED", "VOIDED"}
         /\ StillTrue(bet, book[Key(d)])
         /\ order' = [order EXCEPT ![d] = SettledOrder(@, bet.payout)]
    /\ UNCHANGED entries

OrderStep(d) ==
    \/ Creates(d) \/ Advances(d) \/ Withdraws(d)
    \/ Accepts(d) \/ WritesSettlement(d) \/ Closes(d)

(* What a run leaves alone: callers, the operator and the control.         *)
LEMMA RunsLeaveCallers ==
    ASSUME NEW r \in Reconcilers, NEW d \in Decisions, Reconcile(r, d)
    PROVE  UNCHANGED <<mode, pc, on, reply, book, wire, crashes>>
BY DEF Reconcile, ReadOrder, Lookup, ResolveUnknown, SettleStake, SettleOrder, LeaveAccepted,
       callerVars

(* append() leaves the entry it was asked for, written now or before.      *)
LEMMA AppendWrites ==
    ASSUME TypeOK,
           NEW kind \in EntryKinds, NEW k \in Keys,
           NEW type, NEW stake, NEW paid, AppendEntry(kind, k, type, stake, paid)
    PROVE  entries' = [entries EXCEPT
                         ![<<kind, k>>] = Entry(type, MovementEffect(type, stake, paid))]
<1> DEFINE row == Entry(type, MovementEffect(type, stake, paid))
<1>1. CASE entries[<<kind, k>>] = row
  <2>1. entries' = entries
    BY <1>1 DEF AppendEntry, ledgerVars
  <2>2. <<kind, k>> \in EntryKeys
    BY DEF EntryKeys
  <2>3. entries = [e \in EntryKeys |-> entries[e]]
    BY DEF TypeOK
  <2> QED
    BY <1>1, <2>1, <2>2, <2>3
<1>2. CASE entries[<<kind, k>>] # row
  BY <1>2 DEF AppendEntry
<1> QED
  BY <1>1, <1>2

LEMMA RowsOfMovements ==
    ASSUME NEW s \in Nat, NEW paid \in Nat
    PROVE  /\ Entry("RESERVE", MovementEffect("RESERVE", s, 0))
                 = [type |-> "RESERVE", amount |-> -s, delta |-> s]
           /\ Entry("RELEASE", MovementEffect("RELEASE", s, 0)) = ReleaseRow(s)
           /\ Entry("SETTLE", MovementEffect("SETTLE", s, paid)) = SettleRow(s, paid)
BY DEF Entry, MovementEffect, ReleaseRow, SettleRow

(* cancel() of an order that awaits an answer returns its stake.           *)
LEMMA CancelIsOrderStep ==
    ASSUME IInv, NEW d \in Decisions, NEW from, from \subseteq Unanswered, Cancel(d, from)
    PROVE  UNCHANGED <<order, entries>> \/ Withdraws(d)
<1>1. CASE order[d].status \notin from
  BY <1>1 DEF Cancel, orderVars, ledgerVars
<1>2. CASE order[d].status \in from
  <2>1. Key(d) \in Keys /\ Stake[d] \in Nat \ {0}
    BY KeysAssumption, StakeAssumption DEF Key
  <2>2. EntryOf("reserve", d) = ReserveRow(d)
    BY <1>2 DEF IInv, LedgerFollowsOrders, EntriesFollowOrder
  <2>3. EntryOf("reserve", d) # NoEntry
    BY <2>1, <2>2 DEF ReserveRow, NoEntry
  <2>4. AppendEntry("release", Key(d), "RELEASE", Stake[d], 0)
    BY <1>2, <2>3 DEF Cancel, EntryOf
  <2>5. Writes("release", d, ReleaseRow(Stake[d]))
    BY <2>1, <2>4, AppendWrites, RowsOfMovements DEF Writes, EntryKinds, IInv
  <2> QED
    BY <1>2, <2>5 DEF Cancel, Withdraws
<1> QED
  BY <1>1, <1>2

(* applyAcceptance() with the operator's bet.                              *)
LEMMA AcceptanceIsOrderStep ==
    ASSUME IInv, NEW a, NEW d \in Decisions, NEW bet \in Bets,
           bet.status \in Held, StillTrue(bet, book[Key(d)]),
           ApplyAcceptance(a, d, bet)
    PROVE  UNCHANGED <<order, entries>> \/ Advances(d) \/ Accepts(d)
<1>1. CASE order[d].status \notin AwaitingAnswer
  BY <1>1 DEF ApplyAcceptance, ledgerVars
<1>2. CASE order[d].status \in AwaitingAnswer /\ (~bet.sound \/ RefTaken(bet.ref))
  BY <1>2 DEF ApplyAcceptance, ledgerVars, Advances, AwaitingAnswer, Unanswered
<1>3. CASE order[d].status \in AwaitingAnswer /\ bet.sound /\ ~RefTaken(bet.ref)
  <2>1. Key(d) \in Keys /\ Stake[d] \in Nat /\ bet.stake \in Nat
    BY KeysAssumption, StakeAssumption DEF Key, Bets
  <2>2. ASSUME bet.stake < Stake[d]
        PROVE  Writes("release-partial", d, ReleaseRow(Stake[d] - bet.stake))
    <3>1. Stake[d] - bet.stake \in Nat
      BY <2>1, <2>2
    <3>2. AppendEntry("release-partial", Key(d), "RELEASE", Stake[d] - bet.stake, 0)
      BY <1>3, <2>2 DEF ApplyAcceptance
    <3> QED
      BY <2>1, <3>1, <3>2, AppendWrites, RowsOfMovements DEF Writes, EntryKinds, IInv
  <2> QED
    BY <1>3, <2>2 DEF ApplyAcceptance, Accepts, AwaitingAnswer, Unanswered, ledgerVars
<1> QED
  BY <1>1, <1>2, <1>3

(* Every step of the pipeline is one of these steps on one order, or       *)
(* leaves orders and entries alone.                                        *)
LEMMA StepIsOrderStep ==
    ASSUME IInv, [Next]_vars
    PROVE  UNCHANGED <<order, entries>> \/ \E d \in Decisions : OrderStep(d)
<1> DEFINE Goal == UNCHANGED <<order, entries>> \/ \E d \in Decisions : OrderStep(d)
<1> USE DEF orderVars, ledgerVars
<1>1. CASE UNCHANGED vars
  BY <1>1 DEF vars
<1>2. ASSUME NEW c \in Callers, NEW d \in Decisions, ExecuteDecision(c, d) PROVE Goal
  BY <1>2 DEF ExecuteDecision, ReserveExisting, ReserveBlocked, ReserveDeclined, ReserveBegin
<1>3. ASSUME NEW c \in Callers, ReserveStake(c) PROVE Goal
  <2> DEFINE d == on[c]
  <2>1. d \in Decisions
    BY <1>3 DEF ReserveStake, At, IInv, WorkInHand
  <2>2. Key(d) \in Keys /\ Stake[d] \in Nat
    BY <2>1, KeysAssumption, StakeAssumption DEF Key
  <2>3. Writes("reserve", d, ReserveRow(d))
    BY <1>3, <2>2, AppendWrites, RowsOfMovements
    DEF ReserveStake, Writes, ReserveRow, EntryKinds, IInv
  <2>4. Creates(d)
    BY <1>3, <2>3 DEF ReserveStake, Creates
  <2> QED
    BY <2>1, <2>4 DEF OrderStep
<1>4. ASSUME NEW c \in Callers, ReserveRefused(c) PROVE Goal
  <2>1. on[c] \in Decisions
    BY <1>4 DEF ReserveRefused, At, IInv, WorkInHand
  <2>2. Creates(on[c])
    BY <1>4 DEF ReserveRefused, Creates
  <2> QED
    BY <2>1, <2>2 DEF OrderStep
<1>5. ASSUME NEW c \in Callers, Recheck(c) PROVE Goal
  <2>1. on[c] \in Decisions
    BY <1>5 DEF Recheck, At, IInv, WorkInHand
  <2>2. UNCHANGED <<order, entries>> \/ Advances(on[c])
    BY <1>5 DEF Recheck, Advances
  <2> QED
    BY <2>1, <2>2 DEF OrderStep
<1>6. ASSUME NEW c \in Callers, CancelReserved(c) \/ CancelSubmitting(c) PROVE Goal
  <2>1. on[c] \in Decisions
    BY <1>6 DEF CancelReserved, CancelSubmitting, At, IInv, WorkInHand
  <2>2. \E from \in SUBSET Unanswered : Cancel(on[c], from)
    BY <1>6 DEF CancelReserved, CancelSubmitting, Withdrawable, Unanswered
  <2> QED
    BY <2>1, <2>2, CancelIsOrderStep DEF OrderStep
<1>7. ASSUME NEW c \in Callers, ApplyPlacementResult(c) PROVE Goal
  <2> DEFINE d == on[c]
  <2>1. d \in Decisions
    BY <1>7 DEF ApplyPlacementResult, At, IInv, WorkInHand
  <2>2. CASE reply[c] = "ACCEPTED"
    <3>1. book[Key(d)] \in Bets
      BY <2>1, KeysAssumption DEF Key, IInv, TypeOK
    <3>2. book[Key(d)].status \in Held
      BY <2>2 DEF IInv, RepliesAreTrue
    <3>3. StillTrue(book[Key(d)], book[Key(d)])
      BY DEF StillTrue
    <3>4. ApplyAcceptance(c, d, book[Key(d)])
      BY <1>7, <2>2 DEF ApplyPlacementResult
    <3> QED
      BY <2>1, <3>1, <3>2, <3>3, <3>4, AcceptanceIsOrderStep DEF OrderStep
  <2>3. CASE reply[c] = "REJECTED"
    <3>1. Cancel(d, Withdrawable)
      BY <1>7, <2>3 DEF ApplyPlacementResult
    <3> QED
      BY <2>1, <3>1, CancelIsOrderStep DEF OrderStep, Withdrawable, Unanswered
  <2>4. CASE reply[c] = "UNKNOWN"
    <3>1. UNCHANGED <<order, entries>> \/ Advances(d)
      BY <1>7, <2>4 DEF ApplyPlacementResult, Advances
    <3> QED
      BY <2>1, <3>1 DEF OrderStep
  <2> QED
    BY <1>7, <2>2, <2>3, <2>4 DEF ApplyPlacementResult
<1>8. ASSUME NEW d \in Decisions, RecoverStaleSubmission(d) \/ CancelAbandoned(d) PROVE Goal
  <2>1. CASE RecoverStaleSubmission(d)
    BY <2>1 DEF RecoverStaleSubmission, Advances, OrderStep
  <2>2. CASE CancelAbandoned(d)
    BY <2>2, CancelIsOrderStep DEF CancelAbandoned, Unanswered, OrderStep
  <2> QED
    BY <1>8, <2>1, <2>2
<1>9. ASSUME NEW r \in Reconcilers, NEW d \in Decisions, ResolveUnknown(r, d) PROVE Goal
  <2> DEFINE bet == held[r][d].bet
  <2>1. CASE Cancel(d, {"UNKNOWN"})
    BY <2>1, CancelIsOrderStep DEF Unanswered, OrderStep
  <2>2. CASE bet.status \in Held /\ ApplyAcceptance(r, d, bet)
    <3>1. bet \in Bets
      BY DEF IInv, TypeOK, Lookups
    <3>2. StillTrue(bet, book[Key(d)])
      BY <1>9 DEF ResolveUnknown, IInv, LookupsAreTrue
    <3> QED
      BY <2>2, <3>1, <3>2, AcceptanceIsOrderStep DEF OrderStep
  <2> QED
    BY <1>9, <2>1, <2>2 DEF ResolveUnknown
<1>10. ASSUME NEW r \in Reconcilers, NEW d \in Decisions, SettleStake(r, d) PROVE Goal
  <2>1. /\ Key(d) \in Keys
        /\ order[d].stake \in Nat
        /\ held[r][d].bet.payout \in Nat
    BY KeysAssumption DEF Key, IInv, TypeOK, OrderRows, Lookups, Bets
  <2>2. Writes("settle", d, SettleRow(order[d].stake, held[r][d].bet.payout))
    BY <1>10, <2>1, AppendWrites, RowsOfMovements DEF SettleStake, Writes, EntryKinds, IInv
  <2>3. WritesSettlement(d)
    BY <1>10, <2>1, <2>2 DEF SettleStake, WritesSettlement
  <2> QED
    BY <2>3 DEF OrderStep
<1>11. ASSUME NEW r \in Reconcilers, NEW d \in Decisions, SettleOrder(r, d) PROVE Goal
  <2> DEFINE bet == held[r][d].bet
  <2>1. bet \in Bets
    BY DEF IInv, TypeOK, Lookups
  <2>2. /\ EntryOf("settle", d) # NoEntry
        /\ StillTrue(bet, book[Key(d)])
        /\ bet.status \in {"SETTLED", "VOIDED"}
    BY <1>11 DEF SettleOrder, IInv, LookupsAreTrue
  <2>3. UNCHANGED <<order, entries>> \/ Closes(d)
    BY <1>11, <2>1, <2>2 DEF SettleOrder, Closes
  <2> QED
    BY <2>3 DEF OrderStep
<1>12. ASSUME NEW c \in Callers,
              \/ ReserveFailed(c) \/ RejectDecision(c) \/ SubmitRead(c) \/ RecheckRefused(c)
              \/ PlaceOrder(c) \/ PermitRefused(c) \/ PlaceOrderFails(c)
       PROVE  Goal
  BY <1>12 DEF ReserveFailed, RejectDecision, SubmitRead, RecheckRefused, PlaceOrder,
               PermitRefused, PlaceOrderFails
<1>13. ASSUME NEW r \in Reconcilers, NEW d \in Decisions,
              ReadOrder(r, d) \/ Lookup(r, d) \/ LeaveAccepted(r, d)
       PROVE  Goal
  BY <1>13 DEF ReadOrder, Lookup, LeaveAccepted
<1>14. CASE \/ \E a \in Actors : AutoStop(a)
            \/ \E m \in Modes : ChangeMode(m)
            \/ \E c \in Callers, d \in Decisions : OperatorHandles(c, d)
            \/ \E k \in Keys : OperatorSettles(k)
            \/ \E d \in Decisions : Tick(d)
            \/ Crash
  BY <1>14 DEF AutoStop, ChangeMode, OperatorHandles, OperatorSettles, Tick, Crash
<1> QED
  BY <1>1, <1>2, <1>3, <1>4, <1>5, <1>6, <1>7, <1>8, <1>9, <1>10, <1>11, <1>12, <1>13, <1>14
  DEF Next, Proceed, Reconcile

-----------------------------------------------------------------------------
(* The ledger follows the orders *)

(* An order step gives its decision an order, and leaves the orders of the *)
(* others and the entries of other keys as they were.                      *)
LEMMA OrderStepIsLocal ==
    ASSUME IInv, NEW d \in Decisions, OrderStep(d)
    PROVE  /\ HasOrder(d)'
           /\ \A x \in Decisions \ {d} : order'[x] = order[x]
           /\ \A x \in Decisions \ {d} : HasOrder(x) => Key(x) # Key(d)
           /\ \A kind \in EntryKinds, k \in Keys \ {Key(d)} :
                entries'[<<kind, k>>] = entries[<<kind, k>>]
<1> DEFINE Local == HasOrder(d)' /\ \A x \in Decisions \ {d} : order'[x] = order[x]
<1>1. order \in [Decisions -> OrderRows]
  BY DEF IInv, TypeOK
<1>2. Local
  <2>1. ASSUME NEW s \in OrderStatuses \ {"NONE"}, SetStatus(d, s) PROVE Local
    BY <1>1, <2>1 DEF SetStatus, HasOrder, OrderRows
  <2>2. CASE Creates(d) \/ Advances(d) \/ Withdraws(d)
    BY <2>1, <2>2 DEF Creates, Advances, Withdraws, OrderStatuses
  <2>3. CASE Accepts(d)
    BY <1>1, <2>3 DEF Accepts, AcceptedOrder, HasOrder
  <2>4. CASE WritesSettlement(d)
    BY <1>1, <2>4 DEF WritesSettlement, HasOrder
  <2>5. CASE Closes(d)
    BY <1>1, <2>5 DEF Closes, SettledOrder, HasOrder
  <2> QED
    BY <2>2, <2>3, <2>4, <2>5 DEF OrderStep
<1>3. \A x \in Decisions \ {d} : HasOrder(x) => Key(x) # Key(d)
  <2>1. CASE ~KeyIsUsed(Key(d))
    BY <2>1 DEF KeyIsUsed, HasOrder
  <2>2. CASE HasOrder(d)
    BY <2>2 DEF IInv, LedgerFollowsOrders, OneOrderPerKey
  <2> QED
    BY <2>1, <2>2 DEF OrderStep, Creates, Advances, Withdraws, Accepts, WritesSettlement,
                      Closes, HasOrder, Unanswered
<1>4. ASSUME NEW kind \in EntryKinds, NEW k \in Keys \ {Key(d)}
      PROVE  entries'[<<kind, k>>] = entries[<<kind, k>>]
  <2>1. UNCHANGED entries \/ \E own \in EntryKinds : \E row : Writes(own, d, row)
    BY DEF OrderStep, Creates, Advances, Withdraws, Accepts, WritesSettlement, Closes, EntryKinds
  <2>2. ASSUME NEW own \in EntryKinds, NEW row, Writes(own, d, row)
        PROVE  entries'[<<kind, k>>] = entries[<<kind, k>>]
    <3>1. <<own, Key(d)>> # <<kind, k>> /\ <<kind, k>> \in EntryKeys
      BY DEF EntryKeys
    <3> QED
      BY <2>2, <3>1 DEF Writes, IInv, TypeOK
  <2> QED
    BY <2>1, <2>2
<1> QED
  BY <1>2, <1>3, <1>4

(* What a write does to the entries of its own order.                      *)
LEMMA OwnEntries ==
    ASSUME TypeOK, NEW d \in Decisions, NEW kind \in EntryKinds, NEW row, Writes(kind, d, row)
    PROVE  /\ EntryOf(kind, d)' = row
           /\ \A other \in EntryKinds \ {kind} : EntryOf(other, d)' = EntryOf(other, d)
<1>1. \A k \in EntryKinds : <<k, Key(d)>> \in EntryKeys
  BY KeysAssumption DEF EntryKeys, Key
<1>2. \A other \in EntryKinds \ {kind} : <<other, Key(d)>> # <<kind, Key(d)>>
  OBVIOUS
<1> QED
  BY <1>1, <1>2 DEF Writes, EntryOf, TypeOK

(* Each order step takes the entries of its order where its status goes.   *)
LEMMA OwnEntriesFollow ==
    ASSUME IInv, NEW d \in Decisions, OrderStep(d)
    PROVE  EntriesFollowOrder(d)'
<1> USE DEF EntriesFollowOrder, Unanswered, Held, SetStatus
<1>1. /\ TypeOK /\ EntriesFollowOrder(d)
      /\ order \in [Decisions -> OrderRows]
      /\ Stake[d] \in Nat \ {0} /\ Key(d) \in Keys
  BY KeysAssumption, StakeAssumption DEF IInv, TypeOK, LedgerFollowsOrders, Key
<1>2. CASE Creates(d)
  <2>1. \A kind \in EntryKinds : EntryOf(kind, d) = NoEntry
    BY <1>1, <1>2 DEF Creates, IInv, LedgerFollowsOrders, EntriesNeedOrder, EntryOf
  <2>2. CASE SetStatus(d, "RESERVED") /\ Writes("reserve", d, ReserveRow(d))
    BY <1>1, <2>1, <2>2, OwnEntries DEF EntryKinds
  <2>3. CASE SetStatus(d, "REJECTED") /\ UNCHANGED entries
    BY <1>1, <2>1, <2>3 DEF EntryKinds, EntryOf
  <2> QED
    BY <1>2, <2>2, <2>3 DEF Creates
<1>3. CASE Advances(d)
  <2>1. order'[d].status \in {"SUBMITTING", "UNKNOWN", "RECONCILIATION_REQUIRED"}
    <3>1. ASSUME NEW s, SetStatus(d, s) PROVE order'[d].status = s
      BY <1>1, <3>1 DEF OrderRows
    <3> QED
      BY <1>3, <3>1 DEF Advances
  <2>2. \A kind \in EntryKinds : EntryOf(kind, d)' = EntryOf(kind, d)
    BY <1>3 DEF Advances, EntryOf
  <2>3. order[d].status \in Unanswered
    BY <1>3 DEF Advances
  <2> QED
    BY <1>1, <2>1, <2>2, <2>3 DEF EntryKinds
<1>4. CASE Withdraws(d)
  BY <1>1, <1>4, OwnEntries DEF Withdraws, EntryKinds
<1>5. CASE Accepts(d)
  <2>1. PICK bet \in Bets :
          /\ bet.status \in Held
          /\ StillTrue(bet, book[Key(d)])
          /\ order' = [order EXCEPT ![d] = AcceptedOrder(@, bet)]
          /\ IF bet.stake < Stake[d]
               THEN Writes("release-partial", d, ReleaseRow(Stake[d] - bet.stake))
               ELSE UNCHANGED entries
    BY <1>5 DEF Accepts
  <2>2. bet.stake \in 1 .. Stake[d]
    BY <1>5, <2>1 DEF IInv, BookFollowsOrders, StillTrue, HasOrder, Accepts
  <2>3. order'[d].status = "ACCEPTED" /\ order'[d].stake = bet.stake
    BY <1>1, <2>1 DEF AcceptedOrder
  <2>4. CASE bet.stake < Stake[d]
    BY <1>1, <1>5, <2>1, <2>2, <2>3, <2>4, OwnEntries DEF Accepts, EntryKinds
  <2>5. CASE ~(bet.stake < Stake[d])
    BY <1>1, <1>5, <2>1, <2>2, <2>3, <2>5 DEF Accepts, EntryOf
  <2> QED
    BY <2>4, <2>5
<1>6. CASE WritesSettlement(d)
  BY <1>1, <1>6, OwnEntries DEF WritesSettlement, EntryKinds
<1>7. CASE Closes(d)
  BY <1>1, <1>7 DEF Closes, EntryOf, SettledOrder
<1> QED
  BY <1>2, <1>3, <1>4, <1>5, <1>6, <1>7 DEF OrderStep

LEMMA StepKeepsLedger ==
    ASSUME IInv, [Next]_vars
    PROVE  LedgerFollowsOrders'
<1>1. CASE UNCHANGED <<order, entries>>
  BY <1>1 DEF IInv, LedgerFollowsOrders, OneOrderPerKey, HasOrder, EntriesNeedOrder, KeyIsUsed,
              EntriesFollowOrder, EntryOf
<1>2. ASSUME NEW d \in Decisions, OrderStep(d) PROVE LedgerFollowsOrders'
  <2>1. OneOrderPerKey'
    BY <1>2, OrderStepIsLocal DEF OneOrderPerKey, HasOrder, IInv, LedgerFollowsOrders
  <2>2. EntriesNeedOrder'
    <3> SUFFICES ASSUME NEW k \in Keys, ~KeyIsUsed(k)', NEW kind \in EntryKinds
                 PROVE  entries'[<<kind, k>>] = NoEntry
      BY DEF EntriesNeedOrder
    <3>1. k # Key(d)
      BY <1>2, OrderStepIsLocal DEF KeyIsUsed, HasOrder
    <3>2. ~KeyIsUsed(k)
      BY <1>2, <3>1, OrderStepIsLocal DEF KeyIsUsed
    <3> QED
      BY <1>2, <3>1, <3>2, OrderStepIsLocal DEF IInv, LedgerFollowsOrders, EntriesNeedOrder
  <2>3. ASSUME NEW x \in Decisions PROVE EntriesFollowOrder(x)'
    <3>1. CASE x = d
      BY <1>2, <3>1, OwnEntriesFollow
    <3>2. CASE x # d /\ ~HasOrder(x)
      <4>1. order'[x].status = "NONE"
        BY <1>2, <3>2, OrderStepIsLocal DEF HasOrder
      <4> QED
        BY <4>1 DEF EntriesFollowOrder, Unanswered, Held
    <3>3. CASE x # d /\ HasOrder(x)
      <4>1. order'[x] = order[x] /\ Key(x) \in Keys \ {Key(d)}
        BY <1>2, <3>3, OrderStepIsLocal, KeysAssumption DEF Key
      <4>2. \A kind \in EntryKinds : EntryOf(kind, x)' = EntryOf(kind, x)
        BY <1>2, <4>1, OrderStepIsLocal DEF EntryOf
      <4>3. EntriesFollowOrder(x)
        BY DEF IInv, LedgerFollowsOrders
      <4> QED
        BY <4>1, <4>2, <4>3 DEF EntriesFollowOrder, EntryKinds
    <3> QED
      BY <3>1, <3>2, <3>3
  <2> QED
    BY <2>1, <2>2, <2>3 DEF LedgerFollowsOrders
<1> QED
  BY <1>1, <1>2, StepIsOrderStep

-----------------------------------------------------------------------------
(* How orders, the operator's book and ages go on *)

Answered == OrderStatuses \ {"NONE", "RESERVED", "SUBMITTING"}

(* The only ways an order's status goes.                                   *)
StatusGoesOn(d) ==
    /\ HasOrder(d) => HasOrder(d)'
    /\ order[d].status \in Answered => order'[d].status \in Answered
    /\ order[d].status \in Answered /\ order'[d].status = "UNKNOWN" =>
         order[d].status = "UNKNOWN"
    /\ order[d].status \in Held => order'[d].status \in Held
    /\ order[d].status \in Terminal => order'[d] = order[d]
    /\ EntryOf("settle", d) # NoEntry /\ HasOrder(d) => EntryOf("settle", d)' # NoEntry

LEMMA OrderGoesOn ==
    ASSUME IInv, [Next]_vars, NEW d \in Decisions
    PROVE  StatusGoesOn(d)
<1>1. CASE UNCHANGED <<order, entries>>
  BY <1>1 DEF StatusGoesOn, HasOrder, EntryOf
<1>2. ASSUME NEW x \in Decisions \ {d}, OrderStep(x) PROVE StatusGoesOn(d)
  <2>1. order'[d] = order[d]
    BY <1>2, OrderStepIsLocal
  <2>2. HasOrder(d) => EntryOf("settle", d)' = EntryOf("settle", d)
    BY <1>2, OrderStepIsLocal, KeysAssumption DEF EntryOf, EntryKinds, Key
  <2> QED
    BY <2>1, <2>2 DEF StatusGoesOn, HasOrder
<1>3. ASSUME OrderStep(d) PROVE StatusGoesOn(d)
  <2> USE DEF StatusGoesOn, HasOrder, Answered, Held, Terminal, Unanswered
  <2>1. order \in [Decisions -> OrderRows] /\ TypeOK
    BY DEF IInv, TypeOK
  <2>2. ASSUME NEW s, SetStatus(d, s) PROVE order'[d].status = s
    BY <2>1, <2>2 DEF SetStatus, OrderRows
  <2>3. ASSUME UNCHANGED entries PROVE EntryOf("settle", d)' = EntryOf("settle", d)
    BY <2>3 DEF EntryOf
  <2>4. ASSUME NEW kind \in EntryKinds \ {"settle"}, NEW row, Writes(kind, d, row)
        PROVE  EntryOf("settle", d)' = EntryOf("settle", d)
    BY <2>1, <2>4, OwnEntries DEF EntryKinds
  <2>5. order[d].status \in OrderStatuses /\ order'[d].status # "NONE"
    BY <1>3, <2>1, OrderStepIsLocal DEF OrderRows
  <2>6. CASE Creates(d)
    <3>1. order[d].status = "NONE"
      BY <2>6 DEF Creates, KeyIsUsed
    <3> QED
      BY <2>5, <3>1
  <2>7. CASE Advances(d)
    BY <2>2, <2>3, <2>7 DEF Advances, OrderStatuses
  <2>8. CASE Withdraws(d)
    BY <2>2, <2>4, <2>8 DEF Withdraws, OrderStatuses, EntryKinds
  <2>9. CASE Accepts(d)
    <3>1. order'[d].status = "ACCEPTED"
      BY <2>1, <2>9 DEF Accepts, AcceptedOrder
    <3>2. EntryOf("settle", d)' = EntryOf("settle", d)
      BY <2>3, <2>4, <2>9 DEF Accepts, EntryKinds
    <3> QED
      BY <2>9, <3>1, <3>2 DEF Accepts, OrderStatuses
  <2>10. CASE WritesSettlement(d)
    <3>1. EntryOf("settle", d)' # NoEntry
      BY <2>1, <2>10, OwnEntries DEF WritesSettlement, EntryKinds, SettleRow, NoEntry
    <3> QED
      BY <2>5, <2>10, <3>1 DEF WritesSettlement
  <2>11. CASE Closes(d)
    <3>1. order'[d].status \in {"SETTLED", "VOIDED"}
      BY <2>1, <2>11 DEF Closes, SettledOrder
    <3> QED
      BY <2>3, <2>11, <3>1 DEF Closes, OrderStatuses
  <2> QED
    BY <1>3, <2>6, <2>7, <2>8, <2>9, <2>10, <2>11 DEF OrderStep
<1> QED
  BY <1>1, <1>2, <1>3, StepIsOrderStep

(* The operator never takes back what it said of a key.                    *)
LEMMA BookGoesOn ==
    ASSUME IInv, [Next]_vars, NEW k \in Keys
    PROVE  /\ book[k].status # "NONE" => book'[k].status # "NONE"
           /\ \A bet : StillTrue(bet, book[k]) => StillTrue(bet, book'[k])
<1> USE DEF StillTrue, Held
<1>1. CASE UNCHANGED book
  BY <1>1
<1>2. ASSUME NEW c \in Callers, NEW d \in Decisions, OperatorHandles(c, d), book' # book
      PROVE  /\ book[Key(d)].status = "NONE"
             /\ \E bet : book' = [book EXCEPT ![Key(d)] = bet] /\ bet.status # "NONE"
  <2>1. \A bet \in NewBets(d) : bet.status = "ACCEPTED"
    BY DEF NewBets, Bet
  <2>2. BetAfter(book[Key(d)], "REJECTED", 0).status = "REJECTED"
    BY DEF BetAfter
  <2> QED
    BY <1>2, <2>1, <2>2 DEF OperatorHandles
<1>3. ASSUME NEW c \in Callers, NEW d \in Decisions, OperatorHandles(c, d), book' # book
      PROVE  /\ book[k].status # "NONE" => book'[k].status # "NONE"
             /\ \A bet : StillTrue(bet, book[k]) => StillTrue(bet, book'[k])
  BY <1>2, <1>3, KeysAssumption DEF Key, IInv, TypeOK
<1>4. ASSUME NEW x \in Keys, OperatorSettles(x)
      PROVE  /\ book[k].status # "NONE" => book'[k].status # "NONE"
             /\ \A bet : StillTrue(bet, book[k]) => StillTrue(bet, book'[k])
  <2>1. book[x].status = "ACCEPTED"
    BY <1>4 DEF OperatorSettles
  <2>2. PICK status \in {"SETTLED", "VOIDED"} : \E paid :
          book' = [book EXCEPT ![x] = BetAfter(@, status, paid)]
    BY <1>4 DEF OperatorSettles
  <2>3. PICK paid : book' = [book EXCEPT ![x] = BetAfter(@, status, paid)]
    BY <2>2
  <2>4. CASE x = k
    <3>1. book'[k] = BetAfter(book[k], status, paid)
      BY <2>3, <2>4 DEF IInv, TypeOK
    <3> QED
      BY <2>1, <2>4, <3>1 DEF BetAfter
  <2>5. CASE x # k
    BY <2>3, <2>5 DEF IInv, TypeOK
  <2> QED
    BY <2>4, <2>5
<1>5. CASE \/ UNCHANGED vars
           \/ \E a \in Actors : AutoStop(a)
           \/ \E m \in Modes : ChangeMode(m)
           \/ \E c \in Callers, d \in Decisions : ExecuteDecision(c, d)
           \/ \E c \in Callers : Proceed(c)
           \/ \E d \in Decisions : RecoverStaleSubmission(d)
           \/ \E d \in Decisions : CancelAbandoned(d)
           \/ \E r \in Reconcilers, d \in Decisions : Reconcile(r, d)
           \/ \E d \in Decisions : Tick(d)
           \/ Crash
  <2>1. UNCHANGED book
    BY <1>5, RunsLeaveCallers, ZenonT(60)
    DEF vars, AutoStop, ChangeMode, ExecuteDecision, ReserveExisting, ReserveBlocked,
         ReserveDeclined, ReserveBegin, Proceed, ReserveStake, ReserveRefused, ReserveFailed,
         RejectDecision, SubmitRead, Recheck, RecheckRefused, CancelReserved, PlaceOrder,
         PermitRefused, CancelSubmitting, PlaceOrderFails, ApplyPlacementResult,
         RecoverStaleSubmission, CancelAbandoned, Tick, Crash
  <2> QED
    BY <1>1, <2>1
<1> QED
  BY <1>1, <1>3, <1>4, <1>5 DEF Next

(* The age of an order that is past its submission only grows.             *)
LEMMA AgeGoesOn ==
    ASSUME IInv, [Next]_vars, NEW d \in Decisions, order[d].status \in Answered
    PROVE  age[d] <= age'[d]
<1> USE DEF orderVars, Ages, TooOld
<1>1. age \in [Decisions -> Ages] /\ age[d] \in Ages
  BY DEF IInv, TypeOK
<1>2. CASE UNCHANGED age
  BY <1>1, <1>2
<1>3. ASSUME NEW x \in Decisions, order[x].status \notin Answered, age' = [age EXCEPT ![x] = 0]
      PROVE  age[d] <= age'[d]
  BY <1>1, <1>3
<1>4. ASSUME NEW c \in Callers, ReserveStake(c) PROVE age[d] <= age'[d]
  <2>1. on[c] \in Decisions
    BY <1>4 DEF ReserveStake, At, IInv, WorkInHand
  <2>2. order[on[c]].status = "NONE"
    BY <1>4, <2>1 DEF ReserveStake, KeyIsUsed
  <2> QED
    BY <1>3, <1>4, <2>1, <2>2 DEF ReserveStake, Answered
<1>5. ASSUME NEW c \in Callers, Recheck(c) PROVE age[d] <= age'[d]
  <2>1. on[c] \in Decisions
    BY <1>5 DEF Recheck, At, IInv, WorkInHand
  <2> QED
    BY <1>2, <1>3, <1>5, <2>1 DEF Recheck, Answered
<1>6. ASSUME NEW c \in Callers, ApplyPlacementResult(c) PROVE age[d] <= age'[d]
  <2>1. on[c] \in Decisions
    BY <1>6 DEF ApplyPlacementResult, At, IInv, WorkInHand
  <2> QED
    BY <1>2, <1>3, <1>6, <2>1 DEF ApplyPlacementResult, Cancel, Answered
<1>7. ASSUME NEW x \in Decisions, Tick(x) PROVE age[d] <= age'[d]
  BY <1>1, <1>7 DEF Tick
<1>8. CASE \/ UNCHANGED vars
           \/ \E a \in Actors : AutoStop(a)
           \/ \E m \in Modes : ChangeMode(m)
           \/ \E c \in Callers, x \in Decisions : ExecuteDecision(c, x)
           \/ \E c \in Callers : \/ ReserveRefused(c) \/ ReserveFailed(c) \/ RejectDecision(c)
                                 \/ SubmitRead(c) \/ RecheckRefused(c) \/ CancelReserved(c)
                                 \/ PlaceOrder(c) \/ PermitRefused(c) \/ CancelSubmitting(c)
                                 \/ PlaceOrderFails(c)
           \/ \E c \in Callers, x \in Decisions : OperatorHandles(c, x)
           \/ \E k \in Keys : OperatorSettles(k)
           \/ \E x \in Decisions : RecoverStaleSubmission(x) \/ CancelAbandoned(x)
           \/ \E r \in Reconcilers, x \in Decisions : Reconcile(r, x)
           \/ Crash
  <2>1. CASE \/ UNCHANGED vars
             \/ \E a \in Actors : AutoStop(a)
             \/ \E m \in Modes : ChangeMode(m)
             \/ \E c \in Callers, x \in Decisions : ExecuteDecision(c, x)
             \/ \E c \in Callers, x \in Decisions : OperatorHandles(c, x)
             \/ \E k \in Keys : OperatorSettles(k)
             \/ Crash
    BY <1>2, <2>1
    DEF vars, AutoStop, ChangeMode, ExecuteDecision, ReserveExisting, ReserveBlocked,
        ReserveDeclined, ReserveBegin, OperatorHandles, OperatorSettles, Crash
  <2>2. ASSUME NEW c \in Callers,
               \/ ReserveRefused(c) \/ ReserveFailed(c) \/ RejectDecision(c) \/ SubmitRead(c)
               \/ RecheckRefused(c) \/ CancelReserved(c) \/ PlaceOrder(c) \/ PermitRefused(c)
               \/ CancelSubmitting(c) \/ PlaceOrderFails(c)
        PROVE  age[d] <= age'[d]
    BY <1>2, <2>2
    DEF ReserveRefused, ReserveFailed, RejectDecision, SubmitRead, RecheckRefused,
        CancelReserved, PlaceOrder, PermitRefused, CancelSubmitting, PlaceOrderFails, Cancel
  <2>3. ASSUME NEW x \in Decisions, RecoverStaleSubmission(x) \/ CancelAbandoned(x)
        PROVE  age[d] <= age'[d]
    BY <1>2, <2>3 DEF RecoverStaleSubmission, CancelAbandoned, Cancel
  <2>4. ASSUME NEW r \in Reconcilers, NEW x \in Decisions, Reconcile(r, x)
        PROVE  age[d] <= age'[d]
    <3>1. \A from : Cancel(x, from) => UNCHANGED age
      BY DEF Cancel
    <3>2. UNCHANGED age
      BY <2>4, <3>1
      DEF Reconcile, ReadOrder, Lookup, ResolveUnknown, SettleStake, SettleOrder, LeaveAccepted
    <3> QED
      BY <1>2, <3>2
  <2> QED
    BY <1>8, <2>1, <2>2, <2>3, <2>4
<1> QED
  BY <1>4, <1>5, <1>6, <1>7, <1>8 DEF Next, Proceed

-----------------------------------------------------------------------------
(* The other parts of the invariant *)

(* A request leaves in PlaceOrder only, for the decision of the caller.     *)
LEMMA OnlyPermitsSend ==
    ASSUME [Next]_vars, NEW w \in wire', w \notin wire
    PROVE  \E c \in Callers : PlaceOrder(c) /\ w = <<c, on[c]>>
BY RunsLeaveCallers, ZenonT(60)
DEF Next, vars, callerVars, AutoStop, ChangeMode, ExecuteDecision, ReserveExisting,
    ReserveBlocked, ReserveDeclined, ReserveBegin, Proceed, ReserveStake, ReserveRefused,
    ReserveFailed, RejectDecision, SubmitRead, Recheck, RecheckRefused, CancelReserved,
    PlaceOrder, PermitRefused, CancelSubmitting, PlaceOrderFails, ApplyPlacementResult,
    OperatorHandles, OperatorSettles, RecoverStaleSubmission, CancelAbandoned, Tick, Crash

(* The operator alone writes its book.                                      *)
LEMMA OnlyOperatorWrites ==
    ASSUME [Next]_vars
    PROVE  \/ UNCHANGED book
           \/ \E c \in Callers, d \in Decisions : OperatorHandles(c, d)
           \/ \E k \in Keys : OperatorSettles(k)
BY RunsLeaveCallers, ZenonT(60)
DEF vars, Next, AutoStop, ChangeMode, ExecuteDecision, ReserveExisting, ReserveBlocked,
    ReserveDeclined, ReserveBegin, Proceed, ReserveStake, ReserveRefused, ReserveFailed,
    RejectDecision, SubmitRead, Recheck, RecheckRefused, CancelReserved, PlaceOrder,
    PermitRefused, CancelSubmitting, PlaceOrderFails, ApplyPlacementResult,
    RecoverStaleSubmission, CancelAbandoned, Tick, Crash

LEMMA StepKeepsOrderInHand ==
    ASSUME IInv, [Next]_vars
    PROVE  OrderInHand'
<1> DEFINE Busy == {"submit", "recheck", "cancelling", "permit", "placing",
                    "withdrawing", "apply"}
<1>1. \A d \in Decisions : HasOrder(d) => HasOrder(d)'
  BY OrderGoesOn DEF StatusGoesOn
<1>2. ASSUME NEW c \in Callers, pc'[c] \in Busy PROVE HasOrder(on[c])'
  <2>0. /\ pc \in [Callers -> PCs]
        /\ on \in [Callers -> Decisions \cup {NoDecision}]
    BY DEF IInv, TypeOK
  <2>1. CASE pc[c] \in Busy /\ on'[c] = on[c]
    <3>1. HasOrder(on[c]) /\ on[c] \in Decisions
      BY <2>1 DEF IInv, OrderInHand, WorkInHand
    <3> QED
      BY <1>1, <2>1, <3>1 DEF HasOrder
  <2>2. ASSUME NEW x \in Callers, NEW d \in Decisions, ExecuteDecision(x, d)
        PROVE  (pc[c] \in Busy /\ on'[c] = on[c]) \/ HasOrder(on[c])'
    BY <1>1, <1>2, <2>0, <2>2
    DEF ExecuteDecision, ReserveExisting, ReserveBlocked, ReserveDeclined, ReserveBegin,
        Start, Goto, callerVars, orderVars, HasOrder
  <2>3. ASSUME NEW x \in Callers, ReserveStake(x)
        PROVE  (pc[c] \in Busy /\ on'[c] = on[c]) \/ HasOrder(on[c])'
    <3>1. on[x] \in Decisions
      BY <2>3 DEF ReserveStake, At, IInv, WorkInHand
    <3>2. HasOrder(on[x])'
      BY <2>3, <3>1 DEF ReserveStake, SetStatus, HasOrder, IInv, TypeOK, OrderRows
    <3> QED
      BY <1>2, <2>0, <2>3, <3>2 DEF ReserveStake, Goto, HasOrder
  <2>4. ASSUME NEW x \in Callers, Proceed(x), ~ReserveStake(x)
        PROVE  pc[c] \in Busy /\ on'[c] = on[c]
    <3>1. CASE x = c
      BY <1>2, <2>0, <2>4, <3>1
      DEF Proceed, ReserveRefused, ReserveFailed, RejectDecision, SubmitRead, Recheck,
          RecheckRefused, CancelReserved, PlaceOrder, PermitRefused, CancelSubmitting,
          PlaceOrderFails, ApplyPlacementResult, Finish, Goto, At
    <3>2. CASE x # c
      BY <1>2, <2>0, <2>4, <3>2
      DEF Proceed, ReserveRefused, ReserveFailed, RejectDecision, SubmitRead, Recheck,
          RecheckRefused, CancelReserved, PlaceOrder, PermitRefused, CancelSubmitting,
          PlaceOrderFails, ApplyPlacementResult, Finish, Goto, At
    <3> QED
      BY <3>1, <3>2
  <2>5. CASE \E x \in Callers, d \in Decisions : OperatorHandles(x, d)
    <3>1. pc[c] \in Busy /\ on'[c] = on[c]
      BY <1>2, <2>0, <2>5 DEF OperatorHandles, Answer, Goto
    <3> QED
      BY <2>1, <3>1
  <2>6. CASE Crash
    BY <1>2, <2>6 DEF Crash
  <2>7. CASE \/ UNCHANGED vars
             \/ \E a \in Actors : AutoStop(a)
             \/ \E m \in Modes : ChangeMode(m)
             \/ \E k \in Keys : OperatorSettles(k)
             \/ \E x \in Decisions : RecoverStaleSubmission(x) \/ CancelAbandoned(x)
             \/ \E r \in Reconcilers, x \in Decisions : Reconcile(r, x)
             \/ \E x \in Decisions : Tick(x)
    <3>1. UNCHANGED <<pc, on>>
      BY <2>7, RunsLeaveCallers
      DEF vars, callerVars, AutoStop, ChangeMode, OperatorSettles, RecoverStaleSubmission,
          CancelAbandoned, Tick
    <3> QED
      BY <1>2, <2>1, <3>1
  <2> QED
    BY <2>1, <2>2, <2>3, <2>4, <2>5, <2>6, <2>7 DEF Next
<1>3. ASSUME NEW w \in wire' PROVE HasOrder(w[2])'
  <2>1. CASE w \in wire
    BY <1>1, <2>1 DEF IInv, OrderInHand, TypeOK
  <2>2. ASSUME NEW c \in Callers, PlaceOrder(c), w = <<c, on[c]>> PROVE HasOrder(w[2])'
    <3>1. on[c] \in Decisions /\ HasOrder(on[c])
      BY <2>2 DEF PlaceOrder, At, IInv, OrderInHand, WorkInHand
    <3> QED
      BY <1>1, <2>2, <3>1
  <2>3. w \in wire \/ \E c \in Callers : PlaceOrder(c) /\ w = <<c, on[c]>>
    BY <1>3, OnlyPermitsSend
  <2> QED
    BY <2>1, <2>2, <2>3
<1> QED
  BY <1>2, <1>3 DEF OrderInHand

LEMMA StepKeepsBook ==
    ASSUME IInv, [Next]_vars
    PROVE  BookFollowsOrders'
<1> USE DEF HasOrder
<1>1. ASSUME NEW k \in Keys, KeyIsUsed(k) PROVE KeyIsUsed(k)'
  BY <1>1, OrderGoesOn DEF KeyIsUsed, StatusGoesOn
<1>2. \/ UNCHANGED book
      \/ \E c \in Callers, d \in Decisions : OperatorHandles(c, d)
      \/ \E k \in Keys : OperatorSettles(k)
  BY OnlyOperatorWrites
<1>3. CASE UNCHANGED book
  <2>1. ASSUME NEW d \in Decisions, HasOrder(d)', book[Key(d)].status \in Held
        PROVE  HasOrder(d)
    <3>1. Key(d) \in Keys /\ KeyIsUsed(Key(d))
      BY <2>1, KeysAssumption DEF Key, Held, IInv, BookFollowsOrders
    <3>2. PICK x \in Decisions : HasOrder(x) /\ Key(x) = Key(d)
      BY <3>1 DEF KeyIsUsed
    <3>3. HasOrder(x)'
      BY <3>2, OrderGoesOn DEF StatusGoesOn
    <3> QED
      BY <2>1, <3>2, <3>3, StepKeepsLedger DEF LedgerFollowsOrders, OneOrderPerKey
  <2> QED
    BY <1>1, <1>3, <2>1 DEF IInv, BookFollowsOrders
<1>4. ASSUME NEW c \in Callers, NEW d \in Decisions, OperatorHandles(c, d), book' # book
      PROVE  BookFollowsOrders'
  <2>1. HasOrder(d) /\ UNCHANGED order /\ Key(d) \in Keys
    BY <1>4, KeysAssumption DEF OperatorHandles, orderVars, IInv, OrderInHand, Key
  <2>2. PICK bet : book' = [book EXCEPT ![Key(d)] = bet]
                   /\ (bet \in NewBets(d) \/ bet.status = "REJECTED")
    <3>1. CASE \E bet \in NewBets(d) : book' = [book EXCEPT ![Key(d)] = bet]
      BY <3>1
    <3>2. CASE book' = [book EXCEPT ![Key(d)] = BetAfter(@, "REJECTED", 0)]
      <4>1. BetAfter(book[Key(d)], "REJECTED", 0).status = "REJECTED"
        BY DEF BetAfter
      <4>2. book' = [book EXCEPT ![Key(d)] = BetAfter(book[Key(d)], "REJECTED", 0)]
        BY <3>2
      <4> QED
        BY <4>1, <4>2
    <3> QED
      BY <1>4, <3>1, <3>2 DEF OperatorHandles
  <2>3. bet.status \in Held => bet.stake \in 1 .. Stake[d] /\ bet.ref \in Keys
    <3>1. Stake[d] \in 1 .. Stake[d]
      BY StakeAssumption
    <3>2. OtherRefs(Key(d)) \subseteq Keys
      <4>1. ASSUME NEW y \in Keys, book[y].status \in Held PROVE book[y].ref \in Keys
        <5>1. PICK x \in Decisions : HasOrder(x) /\ Key(x) = y
          BY <4>1 DEF IInv, BookFollowsOrders, Held, KeyIsUsed
        <5> QED
          BY <4>1, <5>1 DEF IInv, BookFollowsOrders
      <4> QED
        BY <4>1 DEF OtherRefs
    <3>3. ASSUME bet \in NewBets(d)
          PROVE  \E s \in 1 .. Stake[d], ref \in Keys, ok \in BOOLEAN : bet = Bet(s, ref, ok)
      <4>1. PICK s \in 1 .. Stake[d] \cup {Stake[d]}, ref \in Keys, ok \in BOOLEAN :
              bet = Bet(s, ref, ok)
        BY <2>1, <3>2, <3>3 DEF NewBets
      <4>2. s \in 1 .. Stake[d]
        BY <3>1
      <4> QED
        BY <4>1, <4>2
    <3> QED
      BY <2>2, <3>3 DEF Bet, Held
  <2>4. \A x \in Decisions : HasOrder(x) /\ Key(x) = Key(d) => x = d
    BY <2>1 DEF IInv, LedgerFollowsOrders, OneOrderPerKey
  <2>5. ASSUME NEW k \in Keys, book'[k].status # "NONE" PROVE KeyIsUsed(k)'
    BY <1>1, <2>1, <2>2, <2>5 DEF IInv, BookFollowsOrders, KeyIsUsed, TypeOK
  <2>6. ASSUME NEW x \in Decisions, HasOrder(x)', book'[Key(x)].status \in Held
        PROVE  book'[Key(x)].stake \in 1 .. Stake[x] /\ book'[Key(x)].ref \in Keys
    <3>1. CASE x = d
      BY <2>1, <2>2, <2>3, <2>6, <3>1 DEF IInv, TypeOK
    <3>2. CASE x # d
      <4>1. book'[Key(x)] = book[Key(x)]
        BY <2>1, <2>2, <2>4, <2>6, <3>2 DEF IInv, TypeOK
      <4> QED
        BY <2>1, <2>6, <4>1 DEF IInv, BookFollowsOrders
    <3> QED
      BY <3>1, <3>2
  <2> QED
    BY <2>5, <2>6 DEF BookFollowsOrders
<1>5. ASSUME NEW k \in Keys, OperatorSettles(k) PROVE BookFollowsOrders'
  <2>1. /\ UNCHANGED order
        /\ book[k].status = "ACCEPTED"
        /\ \E s, paid : book' = [book EXCEPT ![k] = BetAfter(@, s, paid)]
    BY <1>5 DEF OperatorSettles, orderVars
  <2>2. \A x \in Keys : /\ book'[x].stake = book[x].stake
                        /\ book'[x].ref = book[x].ref
                        /\ x # k => book'[x] = book[x]
    BY <2>1 DEF BetAfter, IInv, TypeOK
  <2>3. \A d \in Decisions : Key(d) \in Keys
    BY KeysAssumption DEF Key
  <2> QED
    BY <2>1, <2>2, <2>3 DEF IInv, BookFollowsOrders, KeyIsUsed, Held
<1> QED
  BY <1>2, <1>3, <1>4, <1>5

LEMMA StepKeepsReplies ==
    ASSUME IInv, [Next]_vars
    PROVE  RepliesAreTrue'
<1> DEFINE Good(c) == /\ pc'[c] # "apply" => reply'[c] = "none"
                      /\ reply'[c] = "ACCEPTED" => book'[Key(on'[c])].status \in Held
<1>0. /\ pc \in [Callers -> PCs]
      /\ on \in [Callers -> Decisions \cup {NoDecision}]
      /\ reply \in [Callers -> {"none", "ACCEPTED", "REJECTED", "UNKNOWN"}]
  BY DEF IInv, TypeOK
<1>1. ASSUME NEW c \in Callers, pc'[c] = pc[c], reply'[c] = reply[c], on'[c] = on[c]
      PROVE  Good(c)
  <2>1. CASE reply[c] = "ACCEPTED"
    <3>1. on[c] \in Decisions /\ book[Key(on[c])].status \in Held
      BY <2>1 DEF IInv, RepliesAreTrue, WorkInHand
    <3>2. Key(on[c]) \in Keys
      BY <3>1, KeysAssumption DEF Key
    <3>3. StillTrue(book[Key(on[c])], book'[Key(on[c])])
      BY <3>2, BookGoesOn DEF StillTrue
    <3> QED
      BY <1>1, <3>1, <3>3 DEF StillTrue, IInv, RepliesAreTrue
  <2>2. CASE reply[c] # "ACCEPTED"
    BY <1>1, <2>2 DEF IInv, RepliesAreTrue
  <2> QED
    BY <2>1, <2>2
<1>2. ASSUME NEW c \in Callers, reply'[c] \in {"none", "REJECTED", "UNKNOWN"},
             reply'[c] # "none" => pc'[c] = "apply"
      PROVE  Good(c)
  BY <1>2
<1>3. ASSUME NEW x \in Callers, NEW d \in Decisions, ExecuteDecision(x, d), NEW c \in Callers
      PROVE  Good(c)
  <2>1. reply[x] = "none" \/ UNCHANGED callerVars
    BY <1>3 DEF ExecuteDecision, ReserveExisting, ReserveBlocked, ReserveDeclined, ReserveBegin,
                MayExecute, At, IInv, RepliesAreTrue
  <2>2. /\ UNCHANGED reply
        /\ c # x => pc'[c] = pc[c] /\ on'[c] = on[c]
    BY <1>0, <1>3 DEF ExecuteDecision, ReserveExisting, ReserveBlocked, ReserveDeclined,
                      ReserveBegin, Start, Goto, callerVars
  <2> QED
    BY <1>1, <1>2, <2>1, <2>2 DEF callerVars
<1>4. ASSUME NEW x \in Callers, Proceed(x), NEW c \in Callers PROVE Good(c)
  <2> USE DEF Proceed, ReserveStake, ReserveRefused, ReserveFailed, RejectDecision, SubmitRead,
              Recheck, RecheckRefused, CancelReserved, PlaceOrder, PermitRefused,
              CancelSubmitting, PlaceOrderFails, ApplyPlacementResult, Finish, Goto, At
  <2>1. CASE c # x
    <3>1. pc'[c] = pc[c] /\ reply'[c] = reply[c] /\ on'[c] = on[c]
      BY <1>0, <1>4, <2>1
    <3> QED
      BY <1>1, <3>1
  <2>2. CASE c = x
    <3>1. \/ reply'[c] = "none"
          \/ reply'[c] = "UNKNOWN" /\ pc'[c] = "apply"
          \/ pc[c] # "apply" /\ reply'[c] = reply[c]
      BY <1>0, <1>4, <2>2
    <3> QED
      BY <1>2, <3>1 DEF IInv, RepliesAreTrue
  <2> QED
    BY <2>1, <2>2
<1>5. ASSUME NEW x \in Callers, NEW d \in Decisions, OperatorHandles(x, d), NEW c \in Callers
      PROVE  Good(c)
  <2>0. Key(d) \in Keys /\ UNCHANGED on
    BY <1>5, KeysAssumption DEF Key, OperatorHandles
  <2>1. CASE pc'[c] = pc[c] /\ reply'[c] = reply[c]
    BY <1>1, <2>0, <2>1
  <2>2. ASSUME NEW result \in {"REJECTED", "UNKNOWN"}, Answer(x, d, result)
        PROVE  Good(c)
    BY <1>0, <1>1, <1>2, <2>0, <2>2 DEF Answer, Goto
  <2>3. ASSUME Answer(x, d, "ACCEPTED"), book'[Key(d)].status \in Held
        PROVE  Good(c)
    <3>1. CASE c = x /\ pc[x] = "placing" /\ on[x] = d
      BY <1>0, <2>0, <2>3, <3>1 DEF Answer, Goto
    <3>2. CASE ~(c = x /\ pc[x] = "placing" /\ on[x] = d)
      BY <1>0, <2>1, <2>3, <3>2 DEF Answer, Goto
    <3> QED
      BY <3>1, <3>2
  <2>4. ASSUME book[Key(d)].status \notin {"NONE", "REJECTED"} PROVE book[Key(d)].status \in Held
    BY <2>0, <2>4 DEF IInv, TypeOK, Bets
  <2>5. ASSUME NEW bet \in NewBets(d), book' = [book EXCEPT ![Key(d)] = bet]
        PROVE  book'[Key(d)].status \in Held
    <3>1. bet.status = "ACCEPTED"
      BY DEF NewBets, Bet
    <3> QED
      BY <2>0, <2>5, <3>1 DEF IInv, TypeOK, Held
  <2> QED
    BY <1>5, <2>1, <2>2, <2>3, <2>4, <2>5 DEF OperatorHandles
<1>6. ASSUME Crash, NEW c \in Callers PROVE Good(c)
  BY <1>2, <1>6 DEF Crash
<1>7. ASSUME UNCHANGED callerVars, NEW c \in Callers PROVE Good(c)
  BY <1>1, <1>7 DEF callerVars
<1>8. \/ UNCHANGED callerVars
      \/ \E c \in Callers, d \in Decisions : ExecuteDecision(c, d)
      \/ \E c \in Callers : Proceed(c)
      \/ \E c \in Callers, d \in Decisions : OperatorHandles(c, d)
      \/ Crash
  <2>1. ASSUME NEW r \in Reconcilers, NEW d \in Decisions, Reconcile(r, d)
        PROVE  UNCHANGED callerVars
    BY <2>1 DEF Reconcile, ReadOrder, Lookup, ResolveUnknown, SettleStake, SettleOrder, LeaveAccepted
  <2>2. ASSUME NEW d \in Decisions, RecoverStaleSubmission(d) \/ CancelAbandoned(d) \/ Tick(d)
        PROVE  UNCHANGED callerVars
    BY <2>2 DEF RecoverStaleSubmission, CancelAbandoned, Tick
  <2>3. CASE \/ UNCHANGED vars
             \/ \E a \in Actors : AutoStop(a)
             \/ \E m \in Modes : ChangeMode(m)
             \/ \E k \in Keys : OperatorSettles(k)
    BY <2>3 DEF vars, callerVars, AutoStop, ChangeMode, OperatorSettles
  <2> QED
    BY <2>1, <2>2, <2>3 DEF Next
<1> QED
  BY <1>3, <1>4, <1>5, <1>6, <1>7, <1>8 DEF RepliesAreTrue

(* What one lookup promises of its order.                                  *)
LookupIsTrue(r, d) == held[r][d].stage # "none" =>
    /\ HasOrder(d)
    /\ StillTrue(held[r][d].bet, book[Key(d)])
    /\ order[d].status \notin {"RESERVED", "SUBMITTING"}
    /\ order[d].status = "UNKNOWN" => held[r][d].age <= age[d]
    /\ held[r][d].stage = "SETTLING" =>
         /\ EntryOf("settle", d) # NoEntry
         /\ order[d].status \in Held
         /\ held[r][d].bet.status \in {"SETTLED", "VOIDED"}

(* A lookup that is kept, whatever happens meanwhile, stays true.          *)
LEMMA KeptLookupIsTrue ==
    ASSUME IInv, [Next]_vars, NEW r \in Reconcilers, NEW d \in Decisions,
           held'[r][d].stage # "none",
           held[r][d].stage # "none",
           held'[r][d].bet = held[r][d].bet, held'[r][d].age = held[r][d].age,
           held'[r][d].stage \in {held[r][d].stage, "UNKNOWN", "ACCEPTED"}
    PROVE  LookupIsTrue(r, d)'
<1>1. LookupIsTrue(r, d)
  BY DEF LookupIsTrue, IInv, LookupsAreTrue
<1>2. order[d].status \in Answered
  <2>1. order[d].status \in OrderStatuses
    BY DEF IInv, TypeOK, OrderRows
  <2> QED
    BY <1>1, <2>1 DEF LookupIsTrue, HasOrder, Answered, OrderStatuses
<1>3. /\ order'[d].status \in Answered /\ HasOrder(d)'
      /\ order'[d].status = "UNKNOWN" => order[d].status = "UNKNOWN"
      /\ order[d].status \in Held => order'[d].status \in Held
      /\ EntryOf("settle", d) # NoEntry => EntryOf("settle", d)' # NoEntry
  BY <1>1, <1>2, OrderGoesOn DEF StatusGoesOn, LookupIsTrue
<1>4. StillTrue(held[r][d].bet, book'[Key(d)])
  BY <1>1, BookGoesOn, KeysAssumption DEF LookupIsTrue, Key
<1>5. order'[d].status = "UNKNOWN" => held'[r][d].age <= age'[d]
  <2>1. age[d] \in Int /\ age'[d] \in Int /\ held[r][d].age \in Int
    BY StepKeepsTypes DEF IInv, TypeOK, Ages, TooOld, Lookups
  <2> QED
    BY <1>1, <1>2, <1>3, <2>1, AgeGoesOn DEF LookupIsTrue
<1> QED
  BY <1>1, <1>3, <1>4, <1>5 DEF LookupIsTrue, Answered

LEMMA StepKeepsLookups ==
    ASSUME IInv, [Next]_vars
    PROVE  LookupsAreTrue'
<1> DEFINE Same(r, d) == held'[r][d] = held[r][d]
<1>0. held \in [Reconcilers -> [Decisions -> Lookups]]
  BY DEF IInv, TypeOK
<1>1. ASSUME NEW r \in Reconcilers, NEW d \in Decisions,
             Same(r, d) \/ held'[r][d] = NoLookup
      PROVE  LookupIsTrue(r, d)'
  BY <1>1, KeptLookupIsTrue DEF NoLookup, LookupIsTrue
<1>2. ASSUME NEW r \in Reconcilers, NEW d \in Decisions,
             NEW q \in Reconcilers, NEW x \in Decisions, r # q \/ d # x,
             NEW l, held' = [held EXCEPT ![q][x] = l]
      PROVE  Same(r, d)
  BY <1>0, <1>2
<1>10. ASSUME NEW q \in Reconcilers, NEW x \in Decisions, ReadOrder(q, x),
              NEW r \in Reconcilers, NEW d \in Decisions
       PROVE  LookupIsTrue(r, d)'
  <2>1. CASE r = q /\ d = x
    <3>1. /\ held'[r][d] = ReadAs(order[d].status, age[d])
          /\ order[d].status \in {"UNKNOWN", "ACCEPTED"}
          /\ order' = order /\ age' = age
      BY <1>0, <1>10, <2>1 DEF ReadOrder, LookedUp, orderVars
    <3>2. age[d] \in Int
      BY DEF IInv, TypeOK, Ages, TooOld
    <3> QED
      BY <3>1, <3>2 DEF LookupIsTrue, HasOrder, StillTrue, ReadAs, NoBet, Held
  <2>2. CASE r # q \/ d # x
    BY <1>1, <1>2, <1>10, <2>2 DEF ReadOrder
  <2> QED
    BY <2>1, <2>2
<1>3. ASSUME NEW q \in Reconcilers, NEW x \in Decisions, Lookup(q, x),
             NEW r \in Reconcilers, NEW d \in Decisions
      PROVE  LookupIsTrue(r, d)'
  <2>1. CASE r = q /\ d = x /\ held' = [held EXCEPT ![q][x] = Found(held[q][x], book[Key(x)])]
    <3>1. /\ held'[r][d] = Found(held[r][d], book[Key(d)])
          /\ held[r][d].stage \in {"READ_UNKNOWN", "READ_ACCEPTED"}
          /\ order' = order /\ age' = age /\ book' = book
      BY <1>0, <1>3, <2>1 DEF Lookup, OnceRead, orderVars
    <3>2. LookupIsTrue(r, d)
      BY DEF IInv, LookupsAreTrue, LookupIsTrue
    <3> QED
      BY <3>1, <3>2 DEF LookupIsTrue, HasOrder, StillTrue, Found, OnceRead
  <2>2. CASE r # q \/ d # x
    BY <1>1, <1>2, <1>3, <2>2 DEF Lookup
  <2>3. CASE r = q /\ d = x /\ held' = [held EXCEPT ![q][x] = NoLookup]
    BY <1>0, <1>1, <2>3
  <2> QED
    BY <1>3, <2>1, <2>2, <2>3 DEF Lookup
<1>4. ASSUME NEW q \in Reconcilers, NEW x \in Decisions, Release(q, x),
             NEW r \in Reconcilers, NEW d \in Decisions
      PROVE  LookupIsTrue(r, d)'
  <2>1. CASE r = q /\ d = x
    BY <1>0, <1>1, <1>4, <2>1 DEF Release
  <2>2. CASE r # q \/ d # x
    BY <1>1, <1>2, <1>4, <2>2 DEF Release
  <2> QED
    BY <2>1, <2>2
<1>5. ASSUME NEW q \in Reconcilers, NEW x \in Decisions, ResolveUnknown(q, x), MoveTo(q, x, "ACCEPTED"),
             NEW r \in Reconcilers, NEW d \in Decisions
      PROVE  LookupIsTrue(r, d)'
  <2>1. CASE r = q /\ d = x
    <3>1. /\ held'[r][d] = [stage |-> "ACCEPTED", age |-> held[r][d].age, bet |-> held[r][d].bet]
          /\ held[r][d].stage = "UNKNOWN"
      BY <1>0, <1>5, <2>1 DEF ResolveUnknown, MoveTo
    <3> QED
      BY <3>1, KeptLookupIsTrue
  <2>2. CASE r # q \/ d # x
    BY <1>1, <1>2, <1>5, <2>2 DEF MoveTo
  <2> QED
    BY <2>1, <2>2
<1>6. ASSUME NEW q \in Reconcilers, NEW x \in Decisions, SettleStake(q, x),
             NEW r \in Reconcilers, NEW d \in Decisions
      PROVE  LookupIsTrue(r, d)'
  <2>1. CASE r = q /\ d = x
    <3>1. /\ held'[r][d] = [stage |-> "SETTLING", age |-> held[r][d].age, bet |-> held[r][d].bet]
          /\ held[r][d].stage = "ACCEPTED"
          /\ held[r][d].bet.status \in {"SETTLED", "VOIDED"}
          /\ order[d].status = "ACCEPTED"
          /\ order' = order /\ book' = book /\ age' = age
      BY <1>0, <1>6, <2>1 DEF SettleStake, MoveTo, orderVars
    <3>2. EntryOf("settle", d)' # NoEntry
      <4>1. TypeOK /\ Key(d) \in Keys
        BY KeysAssumption DEF IInv, Key
      <4>2. Writes("settle", d, Entry("SETTLE", MovementEffect("SETTLE", order[d].stake,
                                                              held[r][d].bet.payout)))
        BY <1>6, <2>1, <4>1, AppendWrites DEF SettleStake, Writes, EntryKinds
      <4>3. EntryOf("settle", d)' = Entry("SETTLE", MovementEffect("SETTLE", order[d].stake,
                                                                  held[r][d].bet.payout))
        BY <4>1, <4>2, OwnEntries DEF EntryKinds
      <4> QED
        BY <4>3 DEF Entry, NoEntry
    <3>3. LookupIsTrue(r, d)
      BY DEF IInv, LookupsAreTrue, LookupIsTrue
    <3> QED
      BY <3>1, <3>2, <3>3 DEF LookupIsTrue, HasOrder, Held
  <2>2. CASE r # q \/ d # x
    BY <1>1, <1>2, <1>6, <2>2 DEF SettleStake, MoveTo
  <2> QED
    BY <2>1, <2>2
<1>7. ASSUME UNCHANGED held, NEW r \in Reconcilers, NEW d \in Decisions
      PROVE  LookupIsTrue(r, d)'
  BY <1>1, <1>7
<1>8. ASSUME Crash, NEW r \in Reconcilers, NEW d \in Decisions
      PROVE  LookupIsTrue(r, d)'
  BY <1>1, <1>8 DEF Crash
<1>9. ASSUME NEW r \in Reconcilers, NEW d \in Decisions PROVE LookupIsTrue(r, d)'
  <2>1. CASE \E q \in Reconcilers, x \in Decisions : Reconcile(q, x)
    BY <1>3, <1>4, <1>5, <1>6, <1>10, <2>1
    DEF Reconcile, ResolveUnknown, SettleOrder, LeaveAccepted
  <2>2. CASE \/ UNCHANGED vars
             \/ \E a \in Actors : AutoStop(a)
             \/ \E m \in Modes : ChangeMode(m)
             \/ \E c \in Callers, x \in Decisions : ExecuteDecision(c, x)
             \/ \E c \in Callers, x \in Decisions : OperatorHandles(c, x)
             \/ \E k \in Keys : OperatorSettles(k)
             \/ \E x \in Decisions : \/ RecoverStaleSubmission(x)
                                      \/ CancelAbandoned(x) \/ Tick(x)
    BY <1>7, <2>2
    DEF vars, AutoStop, ChangeMode, ExecuteDecision, ReserveExisting, ReserveBlocked,
        ReserveDeclined, ReserveBegin, OperatorHandles, OperatorSettles,
        RecoverStaleSubmission, CancelAbandoned, Tick
  <2>3. CASE \E c \in Callers : Proceed(c)
    BY <1>7, <2>3
    DEF Proceed, ReserveStake, ReserveRefused, ReserveFailed, RejectDecision, SubmitRead,
        Recheck, RecheckRefused, CancelReserved, PlaceOrder, PermitRefused, CancelSubmitting,
        PlaceOrderFails, ApplyPlacementResult
  <2> QED
    BY <1>8, <2>1, <2>2, <2>3 DEF Next
<1> QED
  BY <1>9 DEF LookupsAreTrue, LookupIsTrue

LEMMA StepKeepsStop ==
    ASSUME IInv, [Next]_vars
    PROVE  StopIsEffective'
<1> DEFINE Placing(c) == pc[c] = "placing" => mode = AccountMode
<1>0. pc \in [Callers -> PCs] /\ \A c \in Callers : Placing(c)
  BY DEF IInv, TypeOK, StopIsEffective
<1>1. ASSUME NEW c \in Callers, mode' = mode, pc'[c] \in {pc[c]} \cup (PCs \ {"placing"})
      PROVE  Placing(c)'
  BY <1>0, <1>1
<1>2. ASSUME ControlIsFree, UNCHANGED pc, NEW c \in Callers PROVE Placing(c)'
  BY <1>0, <1>2 DEF ControlIsFree, SharedHolders
<1>3. ASSUME NEW x \in Callers, PlaceOrder(x), NEW c \in Callers PROVE Placing(c)'
  BY <1>0, <1>3 DEF PlaceOrder, Goto
<1>4. ASSUME NEW x \in Callers, NEW d \in Decisions, ExecuteDecision(x, d), NEW c \in Callers
      PROVE  Placing(c)'
  <2>1. mode' = mode /\ pc'[c] \in {pc[c]} \cup (PCs \ {"placing"})
    BY <1>0, <1>4 DEF ExecuteDecision, ReserveExisting, ReserveBlocked, ReserveDeclined,
                      ReserveBegin, Start, Goto, PCs, callerVars
  <2> QED
    BY <1>1, <2>1
<1>5. ASSUME NEW x \in Callers, Proceed(x), ~PlaceOrder(x), NEW c \in Callers PROVE Placing(c)'
  <2>1. mode' = mode
    BY <1>5 DEF Proceed, ReserveStake, ReserveRefused, ReserveFailed, RejectDecision,
                SubmitRead, Recheck, RecheckRefused, CancelReserved, PermitRefused,
                CancelSubmitting, PlaceOrderFails, ApplyPlacementResult
  <2>2. \E place \in PCs \ {"placing"} : Goto(x, place)
    BY <1>5 DEF Proceed, ReserveStake, ReserveRefused, ReserveFailed, RejectDecision,
                SubmitRead, Recheck, RecheckRefused, CancelReserved, PermitRefused,
                CancelSubmitting, PlaceOrderFails, ApplyPlacementResult, Finish, PCs
  <2>3. pc'[c] \in {pc[c]} \cup (PCs \ {"placing"})
    BY <1>0, <2>2 DEF Goto
  <2> QED
    BY <1>1, <2>1, <2>3
<1>6. ASSUME NEW x \in Callers, NEW d \in Decisions, OperatorHandles(x, d), NEW c \in Callers
      PROVE  Placing(c)'
  <2>1. mode' = mode /\ pc'[c] \in {pc[c], "apply"}
    BY <1>0, <1>6 DEF OperatorHandles, Answer, Goto
  <2> QED
    BY <1>1, <2>1 DEF PCs
<1>7. ASSUME Crash, NEW c \in Callers PROVE Placing(c)'
  BY <1>7 DEF Crash
<1>8. ASSUME NEW r \in Reconcilers, NEW d \in Decisions, Reconcile(r, d)
      PROVE  UNCHANGED <<mode, pc>>
  BY <1>8 DEF Reconcile, ReadOrder, Lookup, ResolveUnknown, SettleStake, SettleOrder, LeaveAccepted,
              callerVars
<1>9. CASE \/ UNCHANGED vars
           \/ \E k \in Keys : OperatorSettles(k)
           \/ \E x \in Decisions : \/ RecoverStaleSubmission(x)
                                    \/ CancelAbandoned(x) \/ Tick(x)
  <2>1. UNCHANGED <<mode, pc>>
    BY <1>9 DEF vars, callerVars, OperatorSettles, RecoverStaleSubmission, CancelAbandoned, Tick
  <2> QED
    BY <1>1, <2>1 DEF StopIsEffective
<1>10. CASE (\E a \in Actors : AutoStop(a)) \/ (\E m \in Modes : ChangeMode(m))
  <2>1. ControlIsFree /\ UNCHANGED pc
    BY <1>10 DEF AutoStop, ChangeMode, callerVars
  <2> QED
    BY <1>2, <2>1 DEF StopIsEffective
<1> QED
  BY <1>1, <1>3, <1>4, <1>5, <1>6, <1>7, <1>8, <1>9, <1>10 DEF Next, StopIsEffective

(* The status a decision takes from its order's status.                    *)
DecisionOf(status) ==
    CASE status \in Open -> "ORDER_RESERVED"
      [] status = "REJECTED" -> "REJECTED"
      [] OTHER -> "COMPLETED"

LEMMA StepKeepsDecisions ==
    ASSUME IInv, [Next]_vars
    PROVE  DecisionFollowsOrder'
<1> DEFINE Follows(d) == HasOrder(d) => decision[d] = DecisionOf(order[d].status)
           OnlyMoves(d, s, t) == /\ order' = [order EXCEPT ![d].status = s]
                                 /\ decision' = [decision EXCEPT ![d] = t]
<1> USE DEF HasOrder, orderVars
<1>0. /\ order \in [Decisions -> OrderRows]
      /\ decision \in [Decisions -> DecisionStatuses]
      /\ \A d \in Decisions : Follows(d)
  BY DEF IInv, TypeOK, DecisionFollowsOrder, DecisionOf
<1>1. ASSUME UNCHANGED <<order, decision>> PROVE \A d \in Decisions : Follows(d)'
  BY <1>0, <1>1
<1>2. ASSUME NEW d \in Decisions, NEW s, NEW t, OnlyMoves(d, s, t), t = DecisionOf(s),
             NEW x \in Decisions
      PROVE  Follows(x)'
  BY <1>0, <1>2 DEF OrderRows
<1>3. ASSUME NEW d \in Decisions, NEW s, SetStatus(d, s), UNCHANGED decision,
             HasOrder(d), DecisionOf(s) = DecisionOf(order[d].status), NEW x \in Decisions
      PROVE  Follows(x)'
  BY <1>0, <1>3 DEF SetStatus, OrderRows
<1>4. ASSUME NEW d \in Decisions, ~HasOrder(d), UNCHANGED order,
             NEW t, decision' = [decision EXCEPT ![d] = t], NEW x \in Decisions
      PROVE  Follows(x)'
  BY <1>0, <1>4
<1>5. ASSUME NEW d \in Decisions, NEW from, Cancel(d, from), NEW x \in Decisions
      PROVE  Follows(x)'
  BY <1>1, <1>2, <1>5 DEF Cancel, SetStatus, DecisionOf, Open
<1>6. ASSUME NEW a, NEW d \in Decisions, NEW bet, ApplyAcceptance(a, d, bet),
             UNCHANGED decision, NEW x \in Decisions
      PROVE  Follows(x)'
  <2>1. CASE order[d].status \notin AwaitingAnswer
    BY <1>1, <1>6, <2>1 DEF ApplyAcceptance
  <2>2. CASE order[d].status \in AwaitingAnswer /\ (~bet.sound \/ RefTaken(bet.ref))
    BY <1>3, <1>6, <2>2 DEF ApplyAcceptance, AwaitingAnswer, DecisionOf, Open
  <2>3. CASE order[d].status \in AwaitingAnswer /\ ~(~bet.sound \/ RefTaken(bet.ref))
    <3>1. order' = [order EXCEPT ![d] = AcceptedOrder(@, bet)]
      BY <1>6, <2>3 DEF ApplyAcceptance
    <3>2. decision[d] = "ORDER_RESERVED"
      BY <1>0, <2>3 DEF DecisionOf, Open, AwaitingAnswer
    <3> QED
      BY <1>0, <1>6, <3>1, <3>2 DEF AcceptedOrder, DecisionOf, Open
  <2> QED
    BY <2>1, <2>2, <2>3
<1>7. ASSUME NEW c \in Callers, Proceed(c), NEW x \in Decisions PROVE Follows(x)'
  <2>0. on[c] \in Decisions
    BY <1>7 DEF Proceed, ReserveStake, ReserveRefused, ReserveFailed, RejectDecision,
                SubmitRead, Recheck, RecheckRefused, CancelReserved, PlaceOrder, PermitRefused,
                CancelSubmitting, PlaceOrderFails, ApplyPlacementResult, At, IInv, WorkInHand
  <2>1. CASE ReserveStake(c)
    BY <1>2, <2>0, <2>1 DEF ReserveStake, SetStatus, DecisionOf, Open
  <2>2. CASE ReserveRefused(c)
    BY <1>2, <2>0, <2>2 DEF ReserveRefused, SetStatus, DecisionOf, Open
  <2>3. CASE RejectDecision(c)
    <3>1. CASE decision[on[c]] = "ELIGIBLE"
      <4>1. ~HasOrder(on[c])
        BY <1>0, <2>0, <3>1 DEF DecisionOf
      <4> QED
        BY <1>4, <2>0, <2>3, <4>1 DEF RejectDecision
    <3>2. CASE decision[on[c]] # "ELIGIBLE"
      <4>1. decision' = decision
        BY <1>0, <2>0, <2>3, <3>2 DEF RejectDecision
      <4> QED
        BY <1>1, <2>3, <4>1 DEF RejectDecision
    <3> QED
      BY <3>1, <3>2
  <2>4. CASE Recheck(c)
    BY <1>1, <1>3, <2>0, <2>4 DEF Recheck, DecisionOf, Open
  <2>5. CASE CancelReserved(c) \/ CancelSubmitting(c)
    BY <1>5, <2>0, <2>5 DEF CancelReserved, CancelSubmitting
  <2>6. CASE ApplyPlacementResult(c)
    <3>1. CASE order[on[c]].status = "SUBMITTING" /\ SetStatus(on[c], "UNKNOWN")
               /\ UNCHANGED decision
      BY <1>3, <2>0, <3>1 DEF DecisionOf, Open
    <3> QED
      BY <1>1, <1>5, <1>6, <2>0, <2>6, <3>1 DEF ApplyPlacementResult
  <2>7. CASE \/ ReserveFailed(c) \/ SubmitRead(c) \/ RecheckRefused(c)
             \/ PlaceOrder(c) \/ PermitRefused(c) \/ PlaceOrderFails(c)
    BY <1>1, <2>7 DEF ReserveFailed, SubmitRead, RecheckRefused, PlaceOrder, PermitRefused,
                      PlaceOrderFails
  <2> QED
    BY <1>7, <2>1, <2>2, <2>3, <2>4, <2>5, <2>6, <2>7 DEF Proceed
<1>8. ASSUME NEW r \in Reconcilers, NEW d \in Decisions, Reconcile(r, d), NEW x \in Decisions
      PROVE  Follows(x)'
  <2>1. CASE ResolveUnknown(r, d)
    BY <1>1, <1>5, <1>6, <2>1 DEF ResolveUnknown
  <2>2. CASE SettleOrder(r, d)
    <3>1. CASE order[d].status = "ACCEPTED"
      <4>1. /\ order' = [order EXCEPT ![d] = SettledOrder(@, held[r][d].bet.payout)]
            /\ decision' = [decision EXCEPT ![d] = "COMPLETED"]
        BY <2>2, <3>1 DEF SettleOrder
      <4> QED
        BY <1>0, <4>1 DEF SettledOrder, DecisionOf, Open
    <3>2. CASE order[d].status # "ACCEPTED"
      BY <1>1, <2>2, <3>2 DEF SettleOrder
    <3> QED
      BY <3>1, <3>2
  <2>3. CASE ReadOrder(r, d) \/ Lookup(r, d) \/ SettleStake(r, d) \/ LeaveAccepted(r, d)
    BY <1>1, <2>3 DEF ReadOrder, Lookup, SettleStake, LeaveAccepted
  <2> QED
    BY <1>8, <2>1, <2>2, <2>3 DEF Reconcile
<1>9. ASSUME NEW c \in Callers, NEW d \in Decisions, ExecuteDecision(c, d), NEW x \in Decisions
      PROVE  Follows(x)'
  BY <1>1, <1>4, <1>9
  DEF ExecuteDecision, ReserveExisting, ReserveBlocked, ReserveDeclined, ReserveBegin
<1>10. ASSUME NEW d \in Decisions, RecoverStaleSubmission(d) \/ CancelAbandoned(d),
              NEW x \in Decisions
       PROVE  Follows(x)'
  BY <1>3, <1>5, <1>10 DEF RecoverStaleSubmission, CancelAbandoned, DecisionOf, Open
<1>11. ASSUME \/ UNCHANGED vars
              \/ \E a \in Actors : AutoStop(a)
              \/ \E m \in Modes : ChangeMode(m)
              \/ \E c \in Callers, d \in Decisions : OperatorHandles(c, d)
              \/ \E k \in Keys : OperatorSettles(k)
              \/ \E d \in Decisions : Tick(d)
              \/ Crash
       PROVE  UNCHANGED <<order, decision>>
  BY <1>11 DEF vars, AutoStop, ChangeMode, OperatorHandles, OperatorSettles, Tick, Crash
<1>12. ASSUME NEW x \in Decisions PROVE Follows(x)'
  BY <1>1, <1>7, <1>8, <1>9, <1>10, <1>11 DEF Next
<1> QED
  BY <1>12 DEF DecisionFollowsOrder, DecisionOf

(* An order is backed by a bet.                                            *)
Backed(d, row, bet) == row.status \in Held =>
    /\ bet.status \in Held /\ bet.sound
    /\ row.stake = bet.stake /\ row.ref = bet.ref
    /\ row.status # "ACCEPTED" => bet.status # "ACCEPTED" /\ row.payout = bet.payout

LEMMA StepKeepsBets ==
    ASSUME IInv, [Next]_vars
    PROVE  AcceptedMatchesOperator'
<1> DEFINE RefsDiffer(d, x) == order[d].status \in Held => order[x].ref # order[d].ref
<1>0. /\ order \in [Decisions -> OrderRows]
      /\ \A d \in Decisions : /\ Backed(d, order[d], book[Key(d)])
                              /\ \A x \in Decisions \ {d} : RefsDiffer(d, x)
  BY DEF IInv, TypeOK, AcceptedMatchesOperator, Backed
<1>1. ASSUME NEW d \in Decisions, NEW row, Backed(d, row, book[Key(d)])
      PROVE  Backed(d, row, book'[Key(d)])
  <2>1. StillTrue(book[Key(d)], book'[Key(d)])
    BY BookGoesOn, KeysAssumption DEF Key, StillTrue
  <2> QED
    BY <1>1, <2>1 DEF Backed, StillTrue, Held
<1>2. ASSUME UNCHANGED order, NEW d \in Decisions
      PROVE  /\ Backed(d, order'[d], book'[Key(d)])
             /\ \A x \in Decisions \ {d} : RefsDiffer(d, x)'
  BY <1>0, <1>1, <1>2
<1>3. ASSUME NEW y \in Decisions, NEW s \in OrderStatuses \ Held, SetStatus(y, s),
             NEW d \in Decisions
      PROVE  /\ Backed(d, order'[d], book'[Key(d)])
             /\ \A x \in Decisions \ {d} : RefsDiffer(d, x)'
  <2>1. /\ \A x \in Decisions : order'[x].ref = order[x].ref
        /\ \A x \in Decisions \ {y} : order'[x] = order[x]
        /\ order'[y].status = s
    BY <1>0, <1>3 DEF SetStatus, OrderRows
  <2>2. Backed(d, order'[d], book'[Key(d)])
    BY <1>0, <1>1, <1>3, <2>1 DEF Backed
  <2> QED
    BY <1>0, <1>3, <2>1, <2>2
<1>4. ASSUME NEW y \in Decisions, Accepts(y), NEW d \in Decisions
      PROVE  /\ Backed(d, order'[d], book'[Key(d)])
             /\ \A x \in Decisions \ {d} : RefsDiffer(d, x)'
  <2>1. PICK bet \in Bets :
          /\ bet.status \in Held /\ bet.sound /\ ~RefTaken(bet.ref)
          /\ StillTrue(bet, book[Key(y)])
          /\ order' = [order EXCEPT ![y] = AcceptedOrder(@, bet)]
    BY <1>4 DEF Accepts
  <2>2. /\ order'[y] = AcceptedOrder(order[y], bet)
        /\ \A x \in Decisions \ {y} : order'[x] = order[x]
    BY <1>0, <2>1
  <2>3. Backed(y, order'[y], book[Key(y)])
    <3>1. /\ order'[y].status = "ACCEPTED"
          /\ order'[y].stake = bet.stake /\ order'[y].ref = bet.ref
      BY <2>2 DEF AcceptedOrder
    <3>2. /\ book[Key(y)].status \in Held
          /\ book[Key(y)].stake = bet.stake /\ book[Key(y)].ref = bet.ref
      BY <2>1 DEF StillTrue
    <3>3. book[Key(y)].sound
      BY <2>1, Zenon DEF StillTrue
    <3> QED
      BY <3>1, <3>2, <3>3 DEF Backed
  <2>4. Backed(d, order'[d], book'[Key(d)])
    BY <1>0, <1>1, <2>2, <2>3
  <2>5. order'[y].ref = bet.ref /\ \A x \in Decisions : order[x].ref # bet.ref
    BY <2>1, <2>2 DEF AcceptedOrder, RefTaken
  <2> QED
    BY <1>0, <2>2, <2>4, <2>5
<1>5. ASSUME NEW y \in Decisions, Closes(y), NEW d \in Decisions
      PROVE  /\ Backed(d, order'[d], book'[Key(d)])
             /\ \A x \in Decisions \ {d} : RefsDiffer(d, x)'
  <2>1. PICK bet \in Bets :
          /\ order[y].status = "ACCEPTED"
          /\ bet.status \in {"SETTLED", "VOIDED"}
          /\ StillTrue(bet, book[Key(y)])
          /\ order' = [order EXCEPT ![y] = SettledOrder(@, bet.payout)]
    BY <1>5 DEF Closes
  <2>2. /\ order'[y] = SettledOrder(order[y], bet.payout)
        /\ \A x \in Decisions \ {y} : order'[x] = order[x]
    BY <1>0, <2>1
  <2>3. Backed(y, order'[y], book[Key(y)])
    BY <1>0, <2>1, <2>2 DEF SettledOrder, Backed, StillTrue, Held
  <2>4. Backed(d, order'[d], book'[Key(d)])
    BY <1>0, <1>1, <2>2, <2>3
  <2>5. order'[y].ref = order[y].ref /\ order[y].status \in Held
    BY <2>1, <2>2 DEF SettledOrder, Held
  <2> QED
    BY <1>0, <2>2, <2>4, <2>5
<1>6. ASSUME NEW y \in Decisions, OrderStep(y)
      PROVE  \/ UNCHANGED order \/ Accepts(y) \/ Closes(y)
             \/ \E s \in OrderStatuses \ Held : SetStatus(y, s)
  BY <1>6 DEF OrderStep, Creates, Advances, Withdraws, WritesSettlement, OrderStatuses, Held
<1>7. ASSUME NEW d \in Decisions
      PROVE  /\ Backed(d, order'[d], book'[Key(d)])
             /\ \A x \in Decisions \ {d} : RefsDiffer(d, x)'
  BY <1>2, <1>3, <1>4, <1>5, <1>6, StepIsOrderStep
<1> QED
  BY <1>7 DEF AcceptedMatchesOperator, Backed

-----------------------------------------------------------------------------
(* The invariant, and what follows from it *)

LEMMA InvariantHolds == Spec => []IInv
<1>1. Init => IInv
  <2> SUFFICES ASSUME Init PROVE IInv
    OBVIOUS
  <2>1. TypeOK /\ WorkInHand
    BY InitKeepsTypes
  <2>2. \A d \in Decisions : order[d] = NoOrder /\ ~HasOrder(d)
    BY DEF Init, NoOrder, HasOrder
  <2>3. \A e \in EntryKeys : entries[e] = NoEntry
    BY DEF Init
  <2>4. LedgerFollowsOrders
    BY <2>2, <2>3 DEF LedgerFollowsOrders, OneOrderPerKey, EntriesNeedOrder, EntriesFollowOrder,
                      EntryKeys, NoOrder, Unanswered, Held
  <2>5. OrderInHand /\ RepliesAreTrue /\ StopIsEffective
    BY DEF Init, OrderInHand, RepliesAreTrue, StopIsEffective
  <2>6. BookFollowsOrders
    BY <2>2 DEF Init, BookFollowsOrders, NoBet
  <2>7. LookupsAreTrue
    BY DEF Init, LookupsAreTrue, NoLookup
  <2>8. DecisionFollowsOrder /\ AcceptedMatchesOperator
    BY <2>2 DEF DecisionFollowsOrder, AcceptedMatchesOperator, NoOrder, Held
  <2> QED
    BY <2>1, <2>4, <2>5, <2>6, <2>7, <2>8 DEF IInv
<1>2. IInv /\ [Next]_vars => IInv'
  <2> SUFFICES ASSUME IInv, [Next]_vars PROVE IInv'
    OBVIOUS
  <2>1. TypeOK' /\ WorkInHand'
    BY StepKeepsTypes DEF IInv
  <2> QED
    BY <2>1, StepKeepsLedger, StepKeepsOrderInHand, StepKeepsBook, StepKeepsReplies,
       StepKeepsLookups, StepKeepsStop, StepKeepsDecisions, StepKeepsBets DEF IInv
<1> QED
  BY <1>1, <1>2, PTL DEF Spec

(* ledger.service.ts: what the entries of an order leave reserved.         *)
LEMMA EntriesAddUp ==
    ASSUME IInv, NEW d \in Decisions, HasOrder(d)
    PROVE  ReservedFor(d) = StakeTiedUp(d)
<1>1. EntriesFollowOrder(d) /\ Stake[d] \in Nat /\ order[d].status \in OrderStatuses
  BY StakeAssumption DEF IInv, LedgerFollowsOrders, TypeOK, OrderRows
<1>2. CASE order[d].status \in Unanswered \cup {"RECONCILIATION_REQUIRED"}
  BY <1>1, <1>2 DEF EntriesFollowOrder, EntryOf, ReservedFor, StakeTiedUp, ReserveRow, NoEntry,
                    Unanswered
<1>3. CASE order[d].status = "REJECTED"
  BY <1>1, <1>3 DEF EntriesFollowOrder, EntryOf, ReservedFor, StakeTiedUp, ReserveRow,
                    ReleaseRow, NoEntry
<1>4. CASE order[d].status \in Held
  <2>1. /\ order[d].stake \in 1 .. Stake[d]
        /\ entries[<<"reserve", Key(d)>>].delta = Stake[d]
        /\ entries[<<"release", Key(d)>>].delta = 0
        /\ entries[<<"release-partial", Key(d)>>].delta = -(Stake[d] - order[d].stake)
    BY <1>1, <1>4 DEF EntriesFollowOrder, EntryOf, ReserveRow, ReleaseRow, NoEntry
  <2>2. \/ /\ entries[<<"settle", Key(d)>>] = NoEntry /\ order[d].status = "ACCEPTED"
           /\ entries[<<"settle", Key(d)>>].delta = 0
        \/ /\ entries[<<"settle", Key(d)>>] # NoEntry
           /\ entries[<<"settle", Key(d)>>].delta = -order[d].stake
    <3>1. CASE entries[<<"settle", Key(d)>>] = NoEntry /\ order[d].status = "ACCEPTED"
      BY <3>1 DEF NoEntry
    <3>2. ASSUME NEW paid \in Nat,
                 entries[<<"settle", Key(d)>>] = SettleRow(order[d].stake, paid)
          PROVE  /\ entries[<<"settle", Key(d)>>] # NoEntry
                 /\ entries[<<"settle", Key(d)>>].delta = -order[d].stake
      BY <3>2 DEF SettleRow, NoEntry
    <3> QED
      BY <1>1, <1>4, <3>1, <3>2 DEF EntriesFollowOrder, EntryOf
  <2>3. ReservedFor(d) = order[d].stake + entries[<<"settle", Key(d)>>].delta
    <3>1. /\ entries[<<"settle", Key(d)>>].delta \in Int
          /\ order[d].stake \in Int /\ Stake[d] \in Int
      BY <1>1, <2>1, <2>2
    <3>2. \A whole, s, x \in Int : whole + 0 + (-(whole - s)) + x = s + x
      OBVIOUS
    <3> QED
      BY <2>1, <3>1, <3>2 DEF ReservedFor
  <2>4. StakeTiedUp(d) = IF entries[<<"settle", Key(d)>>] = NoEntry THEN order[d].stake ELSE 0
    BY <1>4, <2>2 DEF StakeTiedUp, Held
  <2> QED
    BY <2>1, <2>2, <2>3, <2>4
<1> QED
  BY <1>1, <1>2, <1>3, <1>4 DEF Unanswered, Held, OrderStatuses, HasOrder

(* Whatever callers, runs, retries and crashes do, the ledger keeps        *)
(* reserved for an order exactly the stake it still ties up.               *)
THEOREM StakesAreAccounted == Spec => []StakeAccounted
<1>1. IInv => StakeAccounted
  BY EntriesAddUp DEF StakeAccounted
<1> QED
  BY <1>1, InvariantHolds, PTL

(* The bets on record are the operator's, receipt for receipt, and no      *)
(* receipt backs two orders.                                               *)
THEOREM BetsMatchOperator == Spec => []AcceptedMatchesOperator
<1>1. IInv => AcceptedMatchesOperator
  BY DEF IInv
<1> QED
  BY <1>1, InvariantHolds, PTL

(* No call waits for the operator once a stop is effective.                *)
THEOREM StopsAreEffective == Spec => []StopIsEffective
<1>1. IInv => StopIsEffective
  BY DEF IInv
<1> QED
  BY <1>1, InvariantHolds, PTL

(* Order and decision tell the same story.                                 *)
THEOREM DecisionsFollow == Spec => []DecisionFollowsOrder
<1>1. IInv => DecisionFollowsOrder
  BY DEF IInv
<1> QED
  BY <1>1, InvariantHolds, PTL

(* One signal in one time slot makes one order.                            *)
THEOREM KeysAreUnique == Spec => []OneOrderPerKey
<1>1. IInv => OneOrderPerKey
  BY DEF IInv, LedgerFollowsOrders
<1> QED
  BY <1>1, InvariantHolds, PTL

(* A late answer, a retry or another run never touches a closed order.     *)
THEOREM ClosedOrdersStay == Spec => TerminalOrdersStay
<1>1. IInv /\ [Next]_vars =>
        [\A d \in Decisions : order[d].status \in Terminal => order'[d] = order[d]]_vars
  BY OrderGoesOn DEF StatusGoesOn
<1> QED
  BY <1>1, InvariantHolds, PTL DEF Spec, TerminalOrdersStay

-----------------------------------------------------------------------------
(* The pipeline implements the escrow *)

LEMMA AccountedByInvariant == IInv => StakeAccounted
BY EntriesAddUp DEF StakeAccounted

(* A step on one order moves the money of that order only.                 *)
LEMMA EscrowMoves ==
    ASSUME IInv, NEW d \in Decisions, OrderStep(d), StakeAccounted',
           NEW to, PhaseOf(d)' = to, NEW amount, StakeTiedUp(d)' = amount
    PROVE  /\ [x \in Decisions |-> PhaseOf(x)]' =
                [[x \in Decisions |-> PhaseOf(x)] EXCEPT ![d] = to]
           /\ [x \in Decisions |-> TiedBy(x)]' =
                [[x \in Decisions |-> TiedBy(x)] EXCEPT ![d] = amount]
<1>1. TiedBy(d)' = amount
  BY OrderStepIsLocal DEF TiedBy, StakeAccounted
<1>2. ASSUME NEW x \in Decisions \ {d} PROVE PhaseOf(x)' = PhaseOf(x) /\ TiedBy(x)' = TiedBy(x)
  <2>1. order'[x] = order[x]
    BY OrderStepIsLocal
  <2>2. CASE HasOrder(x)
    <3>1. \A kind \in EntryKinds : entries'[<<kind, Key(x)>>] = entries[<<kind, Key(x)>>]
      BY <2>2, OrderStepIsLocal, KeysAssumption DEF Key
    <3> QED
      BY <2>1, <3>1 DEF PhaseOf, TiedBy, HasOrder, ReservedFor, EntryKinds
  <2>3. CASE ~HasOrder(x)
    BY <2>1, <2>3 DEF PhaseOf, TiedBy, HasOrder
  <2> QED
    BY <2>2, <2>3
<1> QED
  BY <1>1, <1>2

(* What an order step does to the phase and the money of its order.        *)
LEMMA EscrowGoesOn ==
    ASSUME IInv, IInv', NEW d \in Decisions, OrderStep(d)
    PROVE  \/ PhaseOf(d) = "none" /\ PhaseOf(d)' = "pending" /\ StakeTiedUp(d)' = Stake[d]
           \/ PhaseOf(d) = "none" /\ PhaseOf(d)' = "returned" /\ StakeTiedUp(d)' = 0
           \/ PhaseOf(d) = "pending" /\ PhaseOf(d)' = "returned" /\ StakeTiedUp(d)' = 0
           \/ PhaseOf(d) = "pending" /\ PhaseOf(d)' = "disputed" /\ StakeTiedUp(d)' = Stake[d]
           \/ /\ PhaseOf(d) = "pending" /\ PhaseOf(d)' = "placed"
              /\ StakeTiedUp(d)' \in 1 .. Stake[d]
           \/ PhaseOf(d) = "placed" /\ PhaseOf(d)' = "paid" /\ StakeTiedUp(d)' = 0
           \/ /\ PhaseOf(d)' = PhaseOf(d) /\ StakeTiedUp(d)' = StakeTiedUp(d)
              /\ HasOrder(d)
<1> USE DEF PhaseOf, StakeTiedUp, HasOrder
<1>0. /\ order \in [Decisions -> OrderRows] /\ TypeOK
      /\ EntriesFollowOrder(d) /\ EntriesFollowOrder(d)'
  BY DEF IInv, TypeOK, LedgerFollowsOrders
<1>1. ASSUME NEW s, SetStatus(d, s) PROVE order'[d].status = s
  BY <1>0, <1>1 DEF SetStatus, OrderRows
<1>2. CASE Creates(d)
  <2>1. order[d].status = "NONE"
    BY <1>2 DEF Creates, KeyIsUsed
  <2> QED
    BY <1>1, <1>2, <2>1 DEF Creates
<1>3. CASE Advances(d)
  <2>1. order[d].status \in Unanswered
    BY <1>3 DEF Advances, Unanswered
  <2>2. order'[d].status \in {"SUBMITTING", "UNKNOWN", "RECONCILIATION_REQUIRED"}
    BY <1>1, <1>3 DEF Advances
  <2> QED
    BY <2>1, <2>2 DEF Unanswered
<1>4. CASE Withdraws(d)
  BY <1>1, <1>4 DEF Withdraws, Unanswered
<1>5. CASE Accepts(d)
  <2>1. order'[d].status = "ACCEPTED"
    BY <1>0, <1>5 DEF Accepts, AcceptedOrder
  <2>2. EntryOf("settle", d)' = NoEntry
    <3>1. EntryOf("settle", d) = NoEntry
      BY <1>0, <1>5 DEF Accepts, EntriesFollowOrder
    <3>2. UNCHANGED entries \/ \E row : Writes("release-partial", d, row)
      BY <1>5 DEF Accepts
    <3>3. EntryOf("settle", d)' = EntryOf("settle", d)
      BY <1>0, <3>2, OwnEntries DEF EntryKinds, EntryOf
    <3> QED
      BY <3>1, <3>3
  <2>3. order'[d].stake \in 1 .. Stake[d]
    BY <1>0, <2>1 DEF EntriesFollowOrder, Held
  <2> QED
    BY <1>5, <2>1, <2>2, <2>3 DEF Accepts, Unanswered, EntryOf
<1>6. CASE WritesSettlement(d)
  <2>1. order[d].status = "ACCEPTED" /\ order' = order
    BY <1>6 DEF WritesSettlement
  <2>2. EntryOf("settle", d)' # NoEntry
    BY <1>0, <1>6, OwnEntries DEF WritesSettlement, EntryKinds, SettleRow, NoEntry
  <2> QED
    BY <2>1, <2>2 DEF EntryOf
<1>7. CASE Closes(d)
  <2>1. order'[d].status \in {"SETTLED", "VOIDED"}
    BY <1>0, <1>7 DEF Closes, SettledOrder
  <2>2. entries' = entries /\ EntryOf("settle", d) # NoEntry /\ order[d].status = "ACCEPTED"
    BY <1>7 DEF Closes
  <2> QED
    BY <2>1, <2>2 DEF EntryOf
<1> QED
  BY <1>2, <1>3, <1>4, <1>5, <1>6, <1>7 DEF OrderStep

(* Each stake is tied up once and leaves the escrow once.                  *)
THEOREM EscrowIsKept == Spec => KeepsEscrow
<1> DEFINE P == [d \in Decisions |-> PhaseOf(d)]
           T == [d \in Decisions |-> TiedBy(d)]
<1>1. Init => Money!Init
  <2> SUFFICES ASSUME Init PROVE Money!Init
    OBVIOUS
  <2>1. \A d \in Decisions : order[d].status = "NONE"
    BY DEF Init, NoOrder
  <2> QED
    BY <2>1 DEF Money!Init, PhaseOf, TiedBy, HasOrder
<1>2. ASSUME IInv, IInv', StakeAccounted, StakeAccounted', [Next]_vars
      PROVE  [Money!Next]_(Money!escrow)
  <2>1. CASE UNCHANGED <<order, entries>>
    BY <2>1 DEF Money!escrow, PhaseOf, TiedBy, HasOrder, ReservedFor
  <2>2. ASSUME NEW d \in Decisions, OrderStep(d)
        PROVE  [Money!Next]_(Money!escrow)
    <3>1. ASSUME NEW to, NEW amount, PhaseOf(d)' = to, StakeTiedUp(d)' = amount
          PROVE  P' = [P EXCEPT ![d] = to] /\ T' = [T EXCEPT ![d] = amount]
      BY <1>2, <2>2, <3>1, EscrowMoves
    <3>2. CASE PhaseOf(d)' = PhaseOf(d) /\ StakeTiedUp(d)' = StakeTiedUp(d) /\ HasOrder(d)
      <4>1. TiedBy(d) = StakeTiedUp(d)
        BY <1>2, <3>2 DEF TiedBy, StakeAccounted
      <4>2. P' = [P EXCEPT ![d] = PhaseOf(d)] /\ T' = [T EXCEPT ![d] = TiedBy(d)]
        BY <3>1, <3>2, <4>1
      <4>3. P' = P /\ T' = T
        <5> HIDE DEF P, T
        <5>1. /\ P = [x \in Decisions |-> P[x]] /\ T = [x \in Decisions |-> T[x]]
              /\ P[d] = PhaseOf(d) /\ T[d] = TiedBy(d)
          BY DEF P, T
        <5> QED
          BY <4>2, <5>1
      <4> QED
        BY <4>3 DEF Money!escrow
    <3>3. CASE ~(PhaseOf(d)' = PhaseOf(d) /\ StakeTiedUp(d)' = StakeTiedUp(d) /\ HasOrder(d))
      <4>1. ASSUME NEW from, NEW to, NEW amount,
                   PhaseOf(d) = from, PhaseOf(d)' = to, StakeTiedUp(d)' = amount
            PROVE  Money!Step(d, from, to, amount)
        BY <3>1, <4>1 DEF Money!Step
      <4>2. \/ Money!Reserve(d) \/ Money!Refuse(d) \/ Money!Return(d)
            \/ Money!Dispute(d) \/ Money!Place(d) \/ Money!Pay(d)
        BY <1>2, <2>2, <3>3, <4>1, EscrowGoesOn
        DEF Money!Reserve, Money!Refuse, Money!Return, Money!Dispute, Money!Place, Money!Pay
      <4> QED
        BY <4>2 DEF Money!Next
    <3> QED
      BY <3>2, <3>3
  <2> QED
    BY <1>2, <2>1, <2>2, StepIsOrderStep
<1> QED
  BY <1>1, <1>2, InvariantHolds, AccountedByInvariant, PTL DEF Spec, KeepsEscrow, Money!Spec

-----------------------------------------------------------------------------
(* The pipeline works under the control as KillSwitch describes it *)

Committed == {c \in Callers : pc[c] \in {"reserving", "placing"}}

(* A caller moves to a place where it commits nothing.                     *)
LEMMA LeavesTheSwitch ==
    ASSUME NEW c \in Callers, NEW place, Goto(c, place), place \notin {"reserving", "placing"},
           pc \in [Callers -> PCs], UNCHANGED mode
    PROVE  Switch!Leave
<1>1. \A x \in Callers : pc'[x] = IF x = c THEN place ELSE pc[x]
  BY DEF Goto
<1>2. Committed' \subseteq Committed
  BY <1>1 DEF Committed
<1> QED
  BY <1>2 DEF Switch!Leave, Committed

(* A caller moves to where it commits money, under a mode that executes.   *)
LEMMA EntersTheSwitch ==
    ASSUME NEW c \in Callers, NEW place, Goto(c, place), place \in {"reserving", "placing"},
           pc \in [Callers -> PCs], mode \in ExecModes, UNCHANGED mode
    PROVE  Switch!Enter(c)
<1>1. \A x \in Callers : pc'[x] = IF x = c THEN place ELSE pc[x]
  BY DEF Goto
<1>2. Committed' = Committed \cup {c}
  BY <1>1 DEF Committed
<1>3. mode # "DISABLED"
  BY ModesAssumption
<1> QED
  BY <1>2, <1>3 DEF Switch!Enter, Committed

(* What a caller does with the order of its decision.                      *)
LEMMA CallersUseTheSwitch ==
    ASSUME TypeOK, NEW c \in Callers,
           Proceed(c) \/ \E d \in Decisions : ExecuteDecision(c, d)
    PROVE  [Switch!Next]_Switch!switch
<1>t. pc \in [Callers -> PCs]
  BY DEF TypeOK
<1>1. CASE UNCHANGED <<pc, mode>>
  BY <1>1 DEF Switch!switch
<1>2. CASE UNCHANGED mode /\ \E place : place \notin {"reserving", "placing"} /\ Goto(c, place)
  BY <1>2, <1>t, LeavesTheSwitch DEF Switch!Next
<1>3. CASE /\ mode \in ExecModes /\ UNCHANGED mode
           /\ \E place \in {"reserving", "placing"} : Goto(c, place)
  BY <1>3, <1>t, EntersTheSwitch DEF Switch!Next
<1>4. ASSUME NEW d \in Decisions, ExecuteDecision(c, d)
      PROVE  [Switch!Next]_Switch!switch
  <2>1. CASE ReserveExisting(c, d) \/ ReserveBlocked(c, d)
    BY <2>1, <1>2 DEF ReserveExisting, ReserveBlocked, Start
  <2>2. CASE ReserveDeclined(c, d)
    BY <2>2, <1>1 DEF ReserveDeclined, callerVars
  <2>3. CASE ReserveBegin(c, d)
    BY <2>3, <1>3 DEF ReserveBegin, Start, Executable
  <2> QED
    BY <1>4, <2>1, <2>2, <2>3 DEF ExecuteDecision
<1>5. ASSUME Proceed(c)
      PROVE  [Switch!Next]_Switch!switch
  <2>1. CASE PlaceOrder(c)
    BY <2>1, <1>3, ModesAssumption DEF PlaceOrder
  <2>2. CASE ReserveStake(c) \/ ReserveRefused(c) \/ ReserveFailed(c) \/ RejectDecision(c)
    BY <2>2, <1>2 DEF ReserveStake, ReserveRefused, ReserveFailed, RejectDecision, Finish
  <2>3. CASE SubmitRead(c) \/ Recheck(c) \/ RecheckRefused(c) \/ CancelReserved(c)
    BY <2>3, <1>2 DEF SubmitRead, Recheck, RecheckRefused, CancelReserved, Finish
  <2>4. CASE PermitRefused(c) \/ CancelSubmitting(c) \/ PlaceOrderFails(c)
             \/ ApplyPlacementResult(c)
    BY <2>4, <1>2 DEF PermitRefused, CancelSubmitting, PlaceOrderFails, ApplyPlacementResult,
                      Finish
  <2> QED
    BY <1>5, <2>1, <2>2, <2>3, <2>4 DEF Proceed
<1> QED
  BY <1>4, <1>5

(* A stop and a change of mode wait until nobody commits money.            *)
LEMMA ModeMovesAlone ==
    ASSUME NEW m \in Modes, ControlIsFree, mode' = m, UNCHANGED pc
    PROVE  Switch!Move
BY DEF Switch!Move, ControlIsFree, SharedHolders, Modes

(* Money is committed in one mode, which does not move before whoever      *)
(* commits it is done (reserve, submit and the stops of                    *)
(* order-execution.service.ts).                                            *)
THEOREM SwitchIsRespected == Spec => KeepsSwitch
<1>1. Init => Switch!Init
  BY ModesAssumption DEF Init, Switch!Init
<1>2. ASSUME TypeOK, [Next]_vars
      PROVE  [Switch!Next]_Switch!switch
  <2>1. CASE UNCHANGED <<pc, mode>>
    BY <2>1 DEF Switch!switch
  <2>2. ASSUME NEW a \in Actors, AutoStop(a)
        PROVE  [Switch!Next]_Switch!switch
    BY <2>2, ModeMovesAlone DEF AutoStop, callerVars, Switch!Next, Modes
  <2>3. ASSUME NEW m \in Modes, ChangeMode(m)
        PROVE  [Switch!Next]_Switch!switch
    BY <2>3, ModeMovesAlone DEF ChangeMode, callerVars, Switch!Next
  <2>4. ASSUME NEW c \in Callers, NEW d \in Decisions, OperatorHandles(c, d)
        PROVE  [Switch!Next]_Switch!switch
    <3>1. CASE UNCHANGED <<pc, mode>>
      BY <3>1, <2>1
    <3>2. CASE ~UNCHANGED <<pc, mode>>
      <4>1. Goto(c, "apply") /\ UNCHANGED mode
        BY <2>4, <3>2 DEF OperatorHandles, Answer
      <4> QED
        BY <1>2, <4>1, LeavesTheSwitch DEF TypeOK, Switch!Next
    <3> QED
      BY <3>1, <3>2
  <2>5. CASE Crash
    <3>1. Committed' = {} /\ UNCHANGED mode
      BY <2>5 DEF Crash, Committed
    <3> QED
      BY <3>1 DEF Switch!Leave, Switch!Next, Committed
  <2>6. ASSUME NEW r \in Reconcilers, NEW d \in Decisions, Reconcile(r, d)
        PROVE  UNCHANGED <<pc, mode>>
    BY <2>6 DEF Reconcile, ReadOrder, Lookup, ResolveUnknown, SettleStake, SettleOrder,
                LeaveAccepted, callerVars
  <2>7. ASSUME \/ \E k \in Keys : OperatorSettles(k)
               \/ \E d \in Decisions : RecoverStaleSubmission(d) \/ CancelAbandoned(d) \/ Tick(d)
        PROVE  UNCHANGED <<pc, mode>>
    BY <2>7 DEF OperatorSettles, RecoverStaleSubmission, CancelAbandoned, Tick, callerVars
  <2>8. CASE UNCHANGED vars
    BY <2>8, <2>1 DEF vars
  <2> QED
    BY <1>2, <2>1, <2>2, <2>3, <2>4, <2>5, <2>6, <2>7, <2>8, CallersUseTheSwitch DEF Next
<1> QED
  BY <1>1, <1>2, TypesAreKept, PTL DEF Spec, KeepsSwitch, Switch!Spec

-----------------------------------------------------------------------------
(* No order is given up early *)

GivesUp(d) == order[d].status = "UNKNOWN" /\ order'[d].status = "REJECTED"

(* resolveUnknown: what a run read of age and operator is still good enough *)
(* a reason when it gives the order up.                                    *)
LEMMA GivenUpForAReason ==
    ASSUME IInv, [Next]_vars, NEW d \in Decisions, GivesUp(d)
    PROVE  age[d] >= Grace \/ book[Key(d)].status = "REJECTED"
<1> DEFINE Goal == age[d] >= Grace \/ book[Key(d)].status = "REJECTED"
<1> USE DEF orderVars, GivesUp
<1>0. order \in [Decisions -> OrderRows] /\ age[d] \in Ages
  BY DEF IInv, TypeOK
<1>1. ASSUME NEW x \in Decisions, NEW s, s # "REJECTED", SetStatus(x, s) PROVE FALSE
  BY <1>0, <1>1 DEF SetStatus, OrderRows
<1>2. ASSUME NEW x \in Decisions, order[x].status = "NONE", SetStatus(x, "REJECTED") PROVE FALSE
  BY <1>0, <1>2 DEF SetStatus, OrderRows
<1>3. ASSUME NEW x \in Decisions, NEW from, Cancel(x, from) PROVE x = d /\ "UNKNOWN" \in from
  BY <1>0, <1>3 DEF Cancel, SetStatus, OrderRows
<1>4. ASSUME NEW a, NEW x \in Decisions, NEW bet, ApplyAcceptance(a, x, bet) PROVE FALSE
  BY <1>0, <1>1, <1>4 DEF ApplyAcceptance, AcceptedOrder
<1>5. ASSUME NEW c \in Callers, Proceed(c) PROVE FALSE
  <2>0. on[c] \in Decisions
    BY <1>5 DEF Proceed, ReserveStake, ReserveRefused, ReserveFailed, RejectDecision,
                SubmitRead, Recheck, RecheckRefused, CancelReserved, PlaceOrder, PermitRefused,
                CancelSubmitting, PlaceOrderFails, ApplyPlacementResult, At, IInv, WorkInHand
  <2>1. CASE ReserveStake(c) \/ Recheck(c)
    BY <1>1, <2>0, <2>1 DEF ReserveStake, Recheck
  <2>2. CASE ReserveRefused(c)
    <3>1. order[on[c]].status = "NONE"
      BY <2>0, <2>2 DEF ReserveRefused, KeyIsUsed
    <3> QED
      BY <1>2, <2>0, <2>2, <3>1 DEF ReserveRefused
  <2>3. CASE CancelReserved(c) \/ CancelSubmitting(c)
    BY <1>3, <2>0, <2>3 DEF CancelReserved, CancelSubmitting, Withdrawable
  <2>4. CASE ApplyPlacementResult(c)
    BY <1>1, <1>3, <1>4, <2>0, <2>4 DEF ApplyPlacementResult, Withdrawable
  <2>5. CASE \/ ReserveFailed(c) \/ RejectDecision(c) \/ SubmitRead(c) \/ RecheckRefused(c)
             \/ PlaceOrder(c) \/ PermitRefused(c) \/ PlaceOrderFails(c)
    BY <2>5 DEF ReserveFailed, RejectDecision, SubmitRead, RecheckRefused, PlaceOrder,
                PermitRefused, PlaceOrderFails
  <2> QED
    BY <1>5, <2>1, <2>2, <2>3, <2>4, <2>5 DEF Proceed
<1>6. ASSUME NEW r \in Reconcilers, NEW x \in Decisions, ResolveUnknown(r, x) PROVE Goal
  <2>1. /\ held[r][x].stage = "UNKNOWN"
        /\ Cancel(x, {"UNKNOWN"})
        /\ held[r][x].bet.status = "REJECTED" \/ GivenUp(held[r][x].age)
    BY <1>4, <1>6 DEF ResolveUnknown
  <2>2. x = d
    BY <1>3, <2>1
  <2>3. StillTrue(held[r][d].bet, book[Key(d)]) /\ held[r][d].age <= age[d]
    BY <2>1, <2>2 DEF IInv, LookupsAreTrue
  <2>4. held[r][d].age \in Ages
    BY DEF IInv, TypeOK, Lookups
  <2> QED
    BY <1>0, <2>1, <2>2, <2>3, <2>4 DEF StillTrue, GivenUp, Grace, TooOld, Ages
<1>7. ASSUME NEW r \in Reconcilers, NEW x \in Decisions,
             \/ ReadOrder(r, x) \/ Lookup(r, x) \/ SettleStake(r, x) \/ SettleOrder(r, x) \/ LeaveAccepted(r, x)
      PROVE  FALSE
  BY <1>0, <1>7 DEF ReadOrder, Lookup, SettleStake, SettleOrder, LeaveAccepted, SettledOrder
<1>8. ASSUME NEW x \in Decisions, RecoverStaleSubmission(x) \/ CancelAbandoned(x) PROVE FALSE
  BY <1>1, <1>3, <1>8 DEF RecoverStaleSubmission, CancelAbandoned
<1>9. ASSUME \/ UNCHANGED vars
             \/ \E a \in Actors : AutoStop(a)
             \/ \E m \in Modes : ChangeMode(m)
             \/ \E c \in Callers, x \in Decisions : ExecuteDecision(c, x)
             \/ \E c \in Callers, x \in Decisions : OperatorHandles(c, x)
             \/ \E k \in Keys : OperatorSettles(k)
             \/ \E x \in Decisions : Tick(x)
             \/ Crash
      PROVE  FALSE
  BY <1>9 DEF vars, AutoStop, ChangeMode, ExecuteDecision, ReserveExisting, ReserveBlocked,
              ReserveDeclined, ReserveBegin, OperatorHandles, OperatorSettles, Tick, Crash
<1> QED
  BY <1>5, <1>6, <1>7, <1>8, <1>9 DEF Next, Reconcile

(* An UNKNOWN order is only given up after the grace delay, or when the    *)
(* operator refused it, however outdated what the run read has become.     *)
THEOREM UnknownOrdersKeepGrace == Spec => UnknownNotGivenUpEarly
<1>1. IInv /\ [Next]_vars =>
        [\A d \in Decisions :
            order[d].status = "UNKNOWN" /\ order'[d].status = "REJECTED" =>
                age[d] >= Grace \/ book[Key(d)].status = "REJECTED"]_vars
  BY GivenUpForAReason DEF GivesUp
<1> QED
  BY <1>1, InvariantHolds, PTL DEF Spec, UnknownNotGivenUpEarly

-----------------------------------------------------------------------------
(* The account row *)

(* One entry, written with what it does to the account.                    *)
BooksOn(d, kind, row) ==
    /\ entries[<<kind, Key(d)>>] = NoEntry
    /\ Writes(kind, d, row)
    /\ account' = After(account, row)
    /\ kind # "settle" => row.amount + row.delta = 0
    /\ HasOrder(d)'

LEMMA AppendBooks ==
    ASSUME TypeOK, NEW d \in Decisions, NEW kind \in EntryKinds, NEW type \in EntryTypes,
           NEW stake \in Nat, NEW paid \in Nat, AppendEntry(kind, Key(d), type, stake, paid),
           kind # "settle" => type \in {"RESERVE", "RELEASE"}, HasOrder(d)'
    PROVE  UNCHANGED ledgerVars \/ \E row \in EntryRows : BooksOn(d, kind, row)
<1> DEFINE effect == MovementEffect(type, stake, paid)
           row    == Entry(type, effect)
<1>1. effect \in [amount : Int, delta : Int]
  BY DEF MovementEffect, EntryTypes
<1>2. row \in EntryRows /\ row.amount = effect.amount /\ row.delta = effect.delta
  BY <1>1 DEF Entry, EntryRows
<1>3. kind # "settle" => effect.amount + effect.delta = 0
  BY DEF MovementEffect
<1>4. ASSUME entries[<<kind, Key(d)>>] # row PROVE BooksOn(d, kind, row)
  <2>1. /\ entries[<<kind, Key(d)>>] = NoEntry /\ Writes(kind, d, row)
        /\ account' = After(account, effect)
    BY <1>4 DEF AppendEntry, Writes
  <2>2. After(account, effect) = After(account, row)
    BY <1>2 DEF After
  <2> HIDE DEF row, effect
  <2> QED
    BY <1>2, <1>3, <2>1, <2>2 DEF BooksOn
<1>5. CASE entries[<<kind, Key(d)>>] = row
  BY <1>5 DEF AppendEntry
<1> QED
  BY <1>2, <1>4, <1>5

BooksOne == \E d \in Decisions, kind \in EntryKinds, row \in EntryRows : BooksOn(d, kind, row)

LEMMA CancelBooks ==
    ASSUME IInv, NEW d \in Decisions, NEW from, Cancel(d, from), HasOrder(d)'
    PROVE  UNCHANGED ledgerVars \/ BooksOne
<1>1. CASE AppendEntry("release", Key(d), "RELEASE", Stake[d], 0)
  <2>1. TypeOK /\ Stake[d] \in Nat /\ 0 \in Nat /\ "release" \in EntryKinds /\ "RELEASE" \in EntryTypes
    BY StakeAssumption DEF IInv, EntryKinds, EntryTypes
  <2> DEFINE kind == "release"
             type == "RELEASE"
             paid == 0
  <2>2. AppendEntry(kind, Key(d), type, Stake[d], paid) /\ type \in {"RESERVE", "RELEASE"}
    BY <1>1
  <2>3. kind \in EntryKinds /\ type \in EntryTypes /\ paid \in Nat
    BY <2>1
  <2> HIDE DEF kind, type, paid
  <2>4. UNCHANGED ledgerVars \/ \E row \in EntryRows : BooksOn(d, kind, row)
    BY <2>1, <2>2, <2>3, AppendBooks
  <2> QED
    BY <2>3, <2>4 DEF BooksOne
<1> QED
  BY <1>1 DEF Cancel, ledgerVars

LEMMA AcceptanceBooks ==
    ASSUME IInv, NEW a, NEW d \in Decisions, NEW bet \in Bets, ApplyAcceptance(a, d, bet),
           HasOrder(d)'
    PROVE  UNCHANGED ledgerVars \/ BooksOne
<1>1. ASSUME bet.stake < Stake[d],
             AppendEntry("release-partial", Key(d), "RELEASE", Stake[d] - bet.stake, 0)
      PROVE  UNCHANGED ledgerVars \/ BooksOne
  <2> DEFINE kind == "release-partial"
             type == "RELEASE"
             paid == 0
             rest == Stake[d] - bet.stake
  <2>1. TypeOK /\ rest \in Nat
    BY <1>1, StakeAssumption DEF IInv, Bets
  <2>2. AppendEntry(kind, Key(d), type, rest, paid) /\ type \in {"RESERVE", "RELEASE"}
    BY <1>1
  <2>3. kind \in EntryKinds /\ type \in EntryTypes /\ paid \in Nat
    BY DEF EntryKinds, EntryTypes
  <2> HIDE DEF kind, type, paid, rest
  <2>4. UNCHANGED ledgerVars \/ \E row \in EntryRows : BooksOn(d, kind, row)
    BY <2>1, <2>2, <2>3, AppendBooks
  <2> QED
    BY <2>3, <2>4 DEF BooksOne
<1> QED
  BY <1>1 DEF ApplyAcceptance, ledgerVars

(* Every step leaves the ledger alone or books one entry of one order.     *)
LEMMA StepBooks ==
    ASSUME IInv, [Next]_vars
    PROVE  UNCHANGED ledgerVars \/ BooksOne
<1> DEFINE Goal == UNCHANGED ledgerVars \/ BooksOne
<1> SUFFICES Goal
  OBVIOUS
<1>0. \A d \in Decisions : HasOrder(d) => HasOrder(d)'
  BY OrderGoesOn DEF StatusGoesOn
<1>h. TypeOK /\ \A c \in Callers : pc[c] # "idle" => on[c] \in Decisions
  BY DEF IInv, WorkInHand
<1>1. CASE UNCHANGED vars
  BY <1>1 DEF vars, ledgerVars
<1>2. ASSUME NEW c \in Callers, ReserveStake(c) PROVE Goal
  <2> DEFINE kind == "reserve"
             type == "RESERVE"
             paid == 0
  <2>1. PICK d \in Decisions : d = on[c]
    BY <1>h, <1>2 DEF ReserveStake, At
  <2>2. Stake[d] \in Nat /\ kind \in EntryKinds /\ type \in EntryTypes /\ paid \in Nat
    BY <2>1, StakeAssumption DEF EntryKinds, EntryTypes
  <2>3. AppendEntry(kind, Key(d), type, Stake[d], paid) /\ type \in {"RESERVE", "RELEASE"}
    BY <1>2, <2>1 DEF ReserveStake
  <2>4. HasOrder(d)'
    BY <1>h, <1>2, <2>1 DEF ReserveStake, SetStatus, HasOrder, TypeOK, OrderRows
  <2> HIDE DEF kind, type, paid
  <2>5. UNCHANGED ledgerVars \/ \E row \in EntryRows : BooksOn(d, kind, row)
    BY <1>h, <2>1, <2>2, <2>3, <2>4, AppendBooks
  <2> QED
    BY <2>1, <2>2, <2>5 DEF BooksOne
<1>3. ASSUME NEW c \in Callers, CancelReserved(c) \/ CancelSubmitting(c) PROVE Goal
  <2>1. /\ on[c] \in Decisions /\ HasOrder(on[c])
        /\ Cancel(on[c], {"RESERVED"}) \/ Cancel(on[c], Withdrawable)
    BY <1>h, <1>3 DEF CancelReserved, CancelSubmitting, At, IInv, OrderInHand
  <2> QED
    BY <1>0, <2>1, CancelBooks
<1>4. ASSUME NEW c \in Callers, ApplyPlacementResult(c) PROVE Goal
  <2>1. on[c] \in Decisions /\ HasOrder(on[c])
    BY <1>h, <1>4 DEF ApplyPlacementResult, At, IInv, OrderInHand
  <2>2. book[Key(on[c])] \in Bets
    BY <1>h, <2>1, KeysAssumption DEF Key, TypeOK
  <2>3. \/ ApplyAcceptance(c, on[c], book[Key(on[c])]) \/ Cancel(on[c], Withdrawable)
        \/ UNCHANGED ledgerVars
    BY <1>4 DEF ApplyPlacementResult
  <2> QED
    BY <1>0, <2>1, <2>2, <2>3, CancelBooks, AcceptanceBooks
<1>5. ASSUME NEW d \in Decisions, CancelAbandoned(d) PROVE Goal
  BY <1>0, <1>5, CancelBooks DEF CancelAbandoned, HasOrder
<1>6. ASSUME NEW r \in Reconcilers, NEW d \in Decisions, ResolveUnknown(r, d) PROVE Goal
  <2>1. HasOrder(d) /\ held[r][d].bet \in Bets
    BY <1>6, <1>h DEF ResolveUnknown, IInv, LookupsAreTrue, TypeOK, Lookups
  <2>2. \/ ApplyAcceptance(r, d, held[r][d].bet) \/ Cancel(d, {"UNKNOWN"})
        \/ UNCHANGED ledgerVars
    BY <1>6 DEF ResolveUnknown
  <2> QED
    BY <1>0, <2>1, <2>2, CancelBooks, AcceptanceBooks
<1>7. ASSUME NEW r \in Reconcilers, NEW d \in Decisions, SettleStake(r, d) PROVE Goal
  <2> DEFINE kind == "settle"
             type == "SETTLE"
             paid == held[r][d].bet.payout
             stake == order[d].stake
  <2>1. kind \in EntryKinds /\ type \in EntryTypes /\ paid \in Nat /\ stake \in Nat
    BY <1>h DEF EntryKinds, EntryTypes, TypeOK, Lookups, Bets, OrderRows
  <2>2. AppendEntry(kind, Key(d), type, stake, paid) /\ kind = "settle" /\ HasOrder(d)'
    BY <1>0, <1>7 DEF SettleStake, HasOrder
  <2> HIDE DEF kind, type, paid, stake
  <2>3. UNCHANGED ledgerVars \/ \E row \in EntryRows : BooksOn(d, kind, row)
    BY <1>h, <2>1, <2>2, AppendBooks
  <2> QED
    BY <2>1, <2>3 DEF BooksOne
<1>8. ASSUME NEW r \in Reconcilers, NEW d \in Decisions,
             ReadOrder(r, d) \/ Lookup(r, d) \/ SettleOrder(r, d) \/ LeaveAccepted(r, d)
      PROVE  Goal
  BY <1>8 DEF ReadOrder, Lookup, SettleOrder, LeaveAccepted
<1>9. ASSUME NEW c \in Callers, NEW d \in Decisions, ExecuteDecision(c, d) \/ OperatorHandles(c, d)
      PROVE  Goal
  BY <1>9 DEF ExecuteDecision, ReserveExisting, ReserveBlocked, ReserveDeclined, ReserveBegin,
              OperatorHandles
<1>10. ASSUME NEW c \in Callers,
              \/ ReserveRefused(c) \/ ReserveFailed(c) \/ RejectDecision(c) \/ SubmitRead(c)
              \/ Recheck(c) \/ RecheckRefused(c) \/ PlaceOrder(c) \/ PermitRefused(c)
              \/ PlaceOrderFails(c)
       PROVE  Goal
  BY <1>10 DEF ReserveRefused, ReserveFailed, RejectDecision, SubmitRead, Recheck, RecheckRefused,
               PlaceOrder, PermitRefused, PlaceOrderFails
<1>11. ASSUME NEW d \in Decisions, RecoverStaleSubmission(d) \/ Tick(d) PROVE Goal
  BY <1>11 DEF RecoverStaleSubmission, Tick
<1>12. ASSUME \/ \E a \in Actors : AutoStop(a)
              \/ \E m \in Modes : ChangeMode(m)
              \/ \E k \in Keys : OperatorSettles(k)
              \/ Crash
       PROVE  UNCHANGED ledgerVars
  <2>1. CASE \E a \in Actors : AutoStop(a)
    BY <2>1 DEF AutoStop
  <2>2. CASE \E m \in Modes : ChangeMode(m)
    BY <2>2 DEF ChangeMode
  <2>3. CASE \E k \in Keys : OperatorSettles(k)
    BY <2>3 DEF OperatorSettles
  <2>4. CASE Crash
    BY <2>4 DEF Crash
  <2> QED
    BY <1>12, <2>1, <2>2, <2>3, <2>4
<1> HIDE DEF Goal
<1>13. CASE \E c \in Callers : Proceed(c)
  BY <1>2, <1>3, <1>4, <1>10, <1>13 DEF Proceed
<1>14. CASE \E r \in Reconcilers, d \in Decisions : Reconcile(r, d)
  BY <1>6, <1>7, <1>8, <1>14 DEF Reconcile
<1>15. UNCHANGED ledgerVars => Goal
  BY DEF Goal
<1> QED
  BY <1>1, <1>5, <1>9, <1>11, <1>12, <1>13, <1>14, <1>15 DEF Next

(* What an order leaves reserved and what it earned, before it has a row:  *)
(* nothing.                                                                *)
LEMMA TotalsOfNew ==
    ASSUME IInv, [Next]_vars, NEW x \in Decisions, HasOrder(x)'
    PROVE  /\ TiedBy(x) = ReservedFor(x)
           /\ Profit(x) = EntryOf("settle", x).amount + EntryOf("settle", x).delta
<1>1. CASE HasOrder(x)
  BY <1>1 DEF TiedBy, Profit, EntryOf
<1>2. CASE ~HasOrder(x)
  <2>1. ~KeyIsUsed(Key(x))
    <3>1. order'[x] # order[x]
      BY <1>2 DEF HasOrder
    <3>2. PICK d \in Decisions : OrderStep(d)
      BY <3>1, StepIsOrderStep
    <3>3. x = d
      BY <3>1, <3>2, OrderStepIsLocal
    <3> QED
      BY <1>2, <3>2, <3>3 DEF OrderStep, Creates, Advances, Withdraws, Accepts, WritesSettlement,
                             Closes, HasOrder, Unanswered
  <2>2. Key(x) \in Keys
    BY KeysAssumption DEF Key
  <2>3. \A kind \in EntryKinds : entries[<<kind, Key(x)>>] = NoEntry
    BY <2>1, <2>2 DEF IInv, LedgerFollowsOrders, EntriesNeedOrder
  <2> QED
    BY <1>2, <2>3 DEF TiedBy, Profit, EntryOf, ReservedFor, EntryKinds, NoEntry
<1> QED
  BY <1>1, <1>2

(* An order whose entries a step leaves alone keeps its totals.            *)
LEMMA TotalsStay ==
    ASSUME IInv, [Next]_vars, NEW x \in Decisions,
           HasOrder(x)' => \A kind \in EntryKinds : entries'[<<kind, Key(x)>>] = entries[<<kind, Key(x)>>]
    PROVE  TiedBy(x)' = TiedBy(x) /\ Profit(x)' = Profit(x)
<1>1. CASE HasOrder(x)'
  <2>1. ReservedFor(x)' = ReservedFor(x) /\ EntryOf("settle", x)' = EntryOf("settle", x)
    BY <1>1 DEF ReservedFor, EntryOf, EntryKinds
  <2> QED
    BY <1>1, <2>1, TotalsOfNew DEF TiedBy, Profit, EntryOf
<1>2. CASE ~HasOrder(x)'
  <2>1. ~HasOrder(x)
    BY <1>2, OrderGoesOn DEF StatusGoesOn
  <2> QED
    BY <1>2, <2>1 DEF TiedBy, Profit
<1> QED
  BY <1>1, <1>2

LEMMA BookingMovesTotals ==
    ASSUME IInv, [Next]_vars, NEW d \in Decisions, NEW kind \in EntryKinds, NEW row \in EntryRows,
           BooksOn(d, kind, row)
    PROVE  /\ \A x \in Decisions \ {d} : TiedBy(x)' = TiedBy(x) /\ Profit(x)' = Profit(x)
           /\ TiedBy(d)' = TiedBy(d) + row.delta
           /\ Profit(d)' = Profit(d) + (row.amount + row.delta)
<1>0. entries \in [EntryKeys -> EntryRows] /\ Key(d) \in Keys
  BY KeysAssumption DEF IInv, TypeOK, Key
<1>1. ASSUME NEW x \in Decisions \ {d} PROVE TiedBy(x)' = TiedBy(x) /\ Profit(x)' = Profit(x)
  <2>1. ASSUME HasOrder(x)', NEW other \in EntryKinds
        PROVE  entries'[<<other, Key(x)>>] = entries[<<other, Key(x)>>]
    <3>1. Key(x) # Key(d) /\ Key(x) \in Keys
      BY <2>1, StepKeepsLedger, KeysAssumption DEF BooksOn, LedgerFollowsOrders, OneOrderPerKey, Key
    <3>2. <<other, Key(x)>> \in EntryKeys /\ <<other, Key(x)>> # <<kind, Key(d)>>
      BY <3>1 DEF EntryKeys
    <3> QED
      BY <1>0, <3>2 DEF BooksOn, Writes
  <2> QED
    BY <2>1, TotalsStay
<1>2. HasOrder(d)' /\ TiedBy(d) = ReservedFor(d)
      /\ Profit(d) = EntryOf("settle", d).amount + EntryOf("settle", d).delta
  BY TotalsOfNew DEF BooksOn
<1>3. /\ EntryOf(kind, d)' = row /\ EntryOf(kind, d) = NoEntry
      /\ \A other \in EntryKinds \ {kind} : EntryOf(other, d)' = EntryOf(other, d)
  BY OwnEntries DEF BooksOn, EntryOf, IInv
<1>4. \A other \in EntryKinds : /\ EntryOf(other, d).delta \in Int /\ EntryOf(other, d).amount \in Int
  BY <1>0 DEF EntryOf, EntryKeys, EntryRows
<1>5. row.delta \in Int /\ row.amount \in Int /\ NoEntry.delta = 0 /\ NoEntry.amount = 0
  BY DEF EntryRows, NoEntry
<1>6. ReservedFor(d)' = ReservedFor(d) + row.delta
  <2> DEFINE a == EntryOf("reserve", d).delta          a2 == EntryOf("reserve", d)'.delta
             b == EntryOf("release", d).delta          b2 == EntryOf("release", d)'.delta
             p == EntryOf("release-partial", d).delta  p2 == EntryOf("release-partial", d)'.delta
             s == EntryOf("settle", d).delta           s2 == EntryOf("settle", d)'.delta
             m == row.delta
  <2>1. ReservedFor(d) = a + b + p + s /\ ReservedFor(d)' = a2 + b2 + p2 + s2
    BY DEF ReservedFor, EntryOf
  <2>2. a \in Int /\ b \in Int /\ p \in Int /\ s \in Int /\ m \in Int
    BY <1>4, <1>5 DEF EntryKinds
  <2>3. \/ a = 0 /\ a2 = m /\ b2 = b /\ p2 = p /\ s2 = s
        \/ b = 0 /\ b2 = m /\ a2 = a /\ p2 = p /\ s2 = s
        \/ p = 0 /\ p2 = m /\ a2 = a /\ b2 = b /\ s2 = s
        \/ s = 0 /\ s2 = m /\ a2 = a /\ b2 = b /\ p2 = p
    BY <1>3, <1>5 DEF EntryKinds
  <2> HIDE DEF a, b, p, s, a2, b2, p2, s2, m
  <2>4. ReservedFor(d)' = ReservedFor(d) + m
    BY <2>1, <2>2, <2>3
  <2> QED
    BY <2>4 DEF m
<1>7. Profit(d)' = Profit(d) + (row.amount + row.delta)
  <2>1. Profit(d)' = EntryOf("settle", d)'.amount + EntryOf("settle", d)'.delta
    BY <1>2 DEF Profit, EntryOf
  <2>2. CASE kind = "settle"
    BY <1>2, <1>3, <1>5, <2>1, <2>2
  <2>3. CASE kind # "settle"
    <3>1. EntryOf("settle", d)' = EntryOf("settle", d) /\ row.amount + row.delta = 0
      BY <1>3, <2>3 DEF EntryKinds, BooksOn
    <3> QED
      BY <1>2, <1>4, <2>1, <3>1 DEF EntryKinds
  <2> QED
    BY <2>2, <2>3
<1> QED
  BY <1>1, <1>2, <1>6, <1>7 DEF TiedBy

Tied    == [d \in Decisions |-> TiedBy(d)]
Profits == [d \in Decisions |-> Profit(d)]

(* The account as the sum of what the orders did to it.                    *)
AccountAddsUp ==
    /\ account.reserved = SumOf(Tied, Decisions)
    /\ account.available = InitialBalance - SumOf(Tied, Decisions) + SumOf(Profits, Decisions)

LEMMA TotalsAreIntegers ==
    ASSUME TypeOK, NEW x \in Decisions
    PROVE  TiedBy(x) \in Int /\ Profit(x) \in Int
<1>1. \A kind \in EntryKinds : entries[<<kind, Key(x)>>] \in EntryRows
  BY KeysAssumption DEF TypeOK, EntryKeys, Key
<1>2. /\ entries[<<"reserve", Key(x)>>].delta \in Int /\ entries[<<"release", Key(x)>>].delta \in Int
      /\ entries[<<"release-partial", Key(x)>>].delta \in Int
      /\ entries[<<"settle", Key(x)>>].delta \in Int /\ entries[<<"settle", Key(x)>>].amount \in Int
  BY <1>1 DEF EntryKinds, EntryRows
<1> QED
  BY <1>2 DEF TiedBy, Profit, ReservedFor

LEMMA StepKeepsAccount ==
    ASSUME IsFiniteSet(Decisions), IInv, IInv', AccountAddsUp, [Next]_vars
    PROVE  AccountAddsUp'
<1>1. \A x \in Decisions : Tied[x] \in Int /\ Profits[x] \in Int
  BY TotalsAreIntegers DEF Tied, Profits, IInv
<1>2. \A x \in Decisions : Tied'[x] \in Int /\ Profits'[x] \in Int
  <2>1. ASSUME NEW x \in Decisions PROVE (TiedBy(x) \in Int /\ Profit(x) \in Int)'
    <3>1. TypeOK'
      BY DEF IInv
    <3> QED
      BY <3>1, TotalsAreIntegers, PTL
  <2> QED
    BY <2>1 DEF Tied, Profits
<1>3. CASE UNCHANGED ledgerVars
  <2>1. \A x \in Decisions : TiedBy(x)' = TiedBy(x) /\ Profit(x)' = Profit(x)
    BY <1>3, TotalsStay DEF ledgerVars
  <2>2. Tied' = Tied /\ Profits' = Profits
    BY <2>1 DEF Tied, Profits
  <2> QED
    BY <1>3, <2>2 DEF AccountAddsUp, ledgerVars
<1>4. ASSUME NEW d \in Decisions, NEW kind \in EntryKinds, NEW row \in EntryRows, BooksOn(d, kind, row)
      PROVE  AccountAddsUp'
  <2>1. /\ \A x \in Decisions \ {d} : Tied'[x] = Tied[x] /\ Profits'[x] = Profits[x]
        /\ Tied'[d] = Tied[d] + row.delta
        /\ Profits'[d] = Profits[d] + (row.amount + row.delta)
    BY <1>4, BookingMovesTotals DEF Tied, Profits
  <2>2. SumOf(Tied', Decisions) = SumOf(Tied, Decisions) + (Tied'[d] - Tied[d])
    BY <1>1, <1>2, <2>1, SumChanged
  <2>3. SumOf(Profits', Decisions) = SumOf(Profits, Decisions) + (Profits'[d] - Profits[d])
    BY <1>1, <1>2, <2>1, SumChanged
  <2>4. SumOf(Tied, Decisions) \in Int /\ SumOf(Profits, Decisions) \in Int
    BY <1>1, SumTyped
  <2>5. row.delta \in Int /\ row.amount \in Int /\ InitialBalance \in Int
    BY BalanceAssumption DEF EntryRows
  <2>6. /\ account'.reserved = account.reserved + row.delta
        /\ account'.available = account.available + row.amount
    BY <1>4 DEF BooksOn, After
  <2>7. /\ SumOf(Tied', Decisions) = SumOf(Tied, Decisions) + row.delta
        /\ SumOf(Profits', Decisions) = SumOf(Profits, Decisions) + (row.amount + row.delta)
    BY <1>1, <2>1, <2>2, <2>3, <2>4, <2>5
  <2> DEFINE s == SumOf(Tied, Decisions)      s2 == SumOf(Tied', Decisions)
             p == SumOf(Profits, Decisions)   p2 == SumOf(Profits', Decisions)
  <2>8. /\ s2 = s + row.delta /\ p2 = p + (row.amount + row.delta) /\ s \in Int /\ p \in Int
        /\ account.reserved = s /\ account.available = InitialBalance - s + p
    BY <2>4, <2>7 DEF AccountAddsUp
  <2>9. AccountAddsUp' = (account'.reserved = s2 /\ account'.available = InitialBalance - s2 + p2)
    BY DEF AccountAddsUp
  <2> HIDE DEF s, s2, p, p2
  <2>10. account'.reserved = s2 /\ account'.available = InitialBalance - s2 + p2
    BY <2>5, <2>6, <2>8
  <2> QED
    BY <2>9, <2>10
<1> QED
  BY <1>3, <1>4, StepBooks DEF BooksOne

LEMMA SumOfFunction ==
    ASSUME NEW f, NEW S, DOMAIN f = S
    PROVE  SumFunction(f) = SumOf(f, S)
BY DEF SumFunction, SumFunctionOnSet, FoldFunctionOnSet, SumOf, MapThenSumSet

(* ledger.service.ts append: for any finite number of orders, the account  *)
(* row is the sum of what the orders did to it; what is reserved is what   *)
(* the open ones tie up, through every call, run, retry and crash.         *)
THEOREM AccountFollowsOrders ==
    ASSUME IsFiniteSet(Decisions)
    PROVE  Spec => []AccountMatchesOrders
<1>1. Init => AccountAddsUp
  <2> SUFFICES ASSUME Init PROVE AccountAddsUp
    OBVIOUS
  <2>1. \A d \in Decisions : Tied[d] = 0 /\ Profits[d] = 0
    BY DEF Init, Tied, Profits, TiedBy, Profit, HasOrder, NoOrder
  <2>2. SumOf(Tied, Decisions) = 0 /\ SumOf(Profits, Decisions) = 0
    BY <2>1, SumOfZeros
  <2> QED
    BY <2>2, BalanceAssumption DEF AccountAddsUp, Init
<1>2. IInv /\ IInv' /\ AccountAddsUp /\ [Next]_vars => AccountAddsUp'
  BY StepKeepsAccount
<1>3. ASSUME IInv, AccountAddsUp PROVE AccountMatchesOrders
  <2>1. \A d \in Decisions : TiedBy(d) = StakeTiedUp(d)
    BY <1>3, EntriesAddUp DEF TiedBy, StakeTiedUp, HasOrder
  <2>2. [d \in Decisions |-> StakeTiedUp(d)] = Tied
    BY <2>1 DEF Tied
  <2>3. SumFunction([d \in Decisions |-> StakeTiedUp(d)]) = SumOf(Tied, Decisions)
        /\ SumFunction([d \in Decisions |-> Profit(d)]) = SumOf(Profits, Decisions)
    BY <2>2, SumOfFunction DEF Tied, Profits
  <2> QED
    BY <1>3, <2>3 DEF AccountMatchesOrders, AccountAddsUp
<1> QED
  BY <1>1, <1>2, <1>3, InvariantHolds, PTL DEF Spec

-----------------------------------------------------------------------------
(* One submission *)

(* No request for the order is on its way and the operator has no record   *)
(* of its key; or it has one, and it says the operator refused.            *)
Unsent(d)      == ~InFlight(d) /\ book[Key(d)].status = "NONE"
Unplaceable(d) == book[Key(d)].status = "REJECTED" \/ Unsent(d)

(* Nobody executes a decision another call is executing.                   *)
Alone == \A c, x \in Callers : on[c] \in Decisions /\ on[c] = on[x] => c = x

(* At most one request for one order is on its way.                        *)
OneRequest == \A d \in Decisions, c, x \in Callers :
                  <<c, d>> \in wire /\ <<x, d>> \in wire => c = x

(* What the row of an order says of its requests.                          *)
OrderIsHonest(d) ==
    /\ order[d].status = "RESERVED" => Unsent(d)
    /\ order[d].status = "REJECTED" => Unplaceable(d)
    /\ order[d].status \in Unanswered /\ age[d] >= Grace => ~InFlight(d)

(* What a call knows of the order it works on.                             *)
BeforePermit == {"submit", "recheck", "cancelling"}
Submitting   == {"permit", "placing"}
CallIsHonest(c) ==
    /\ pc[c] \in BeforePermit => order[on[c]].status \in {"RESERVED", "REJECTED"}
    /\ pc[c] \in Submitting => order[on[c]].status = "SUBMITTING" /\ age[on[c]] < Stale
    /\ pc[c] \in BeforePermit \cup {"permit", "withdrawing"} => Unsent(on[c])
    /\ pc[c] = "apply" /\ reply[c] = "REJECTED" => Unplaceable(on[c])

(* What a run knows of an order that was unknown past the grace delay.     *)
RunIsHonest(r, d) ==
    held[r][d].stage \in {"READ_UNKNOWN", "UNKNOWN"} /\ held[r][d].age >= Grace =>
        /\ ~InFlight(d)
        /\ held[r][d].stage = "UNKNOWN" /\ held[r][d].bet.status = "NONE" =>
             book[Key(d)].status = "NONE"

OnceInv ==
    /\ Alone
    /\ OneRequest
    /\ \A d \in Decisions : OrderIsHonest(d)
    /\ \A c \in Callers : CallIsHonest(c)
    /\ \A r \in Reconcilers, d \in Decisions : RunIsHonest(r, d)

-----------------------------------------------------------------------------
(* What stays unsent *)

LEMMA RefusalStays ==
    ASSUME IInv, [Next]_vars, NEW k \in Keys, book[k].status = "REJECTED"
    PROVE  book'[k].status = "REJECTED"
BY BookGoesOn DEF StillTrue, Held

LEMMA UnsentStays ==
    ASSUME IInv, [Next]_vars, NEW d \in Decisions, Unsent(d),
           \A x \in Decisions : HasOrder(x) /\ Key(x) = Key(d) => x = d,
           \A c \in Callers : PlaceOrder(c) => on[c] # d
    PROVE  Unsent(d)'
<1>0. Key(d) \in Keys /\ book \in [Keys -> Bets]
  BY KeysAssumption DEF Key, IInv, TypeOK
<1>1. ~InFlight(d)'
  BY OnlyPermitsSend DEF Unsent, InFlight
<1>2. ASSUME NEW c \in Callers, NEW x \in Decisions, OperatorHandles(c, x)
      PROVE  book'[Key(d)] = book[Key(d)]
  <2>1. <<c, x>> \in wire /\ HasOrder(x) /\ x # d
    BY <1>2 DEF OperatorHandles, IInv, OrderInHand, Unsent, InFlight
  <2>2. Key(x) # Key(d)
    BY <2>1
  <2>3. UNCHANGED book \/ \E bet : book' = [book EXCEPT ![Key(x)] = bet]
    BY <1>2 DEF OperatorHandles
  <2> QED
    BY <1>0, <2>2, <2>3
<1>3. ASSUME NEW k \in Keys, OperatorSettles(k)
      PROVE  book'[Key(d)] = book[Key(d)]
  <2>1. k # Key(d)
    BY <1>3 DEF OperatorSettles, Unsent
  <2> QED
    BY <1>0, <1>3, <2>1 DEF OperatorSettles
<1>4. book'[Key(d)] = book[Key(d)]
  BY <1>2, <1>3, OnlyOperatorWrites
<1> QED
  BY <1>1, <1>4 DEF Unsent

(* An order is the only one of its key.                                    *)
LEMMA OnlyOrderOfKey ==
    ASSUME IInv, NEW d \in Decisions, HasOrder(d) \/ ~KeyIsUsed(Key(d))
    PROVE  \A x \in Decisions : HasOrder(x) /\ Key(x) = Key(d) => x = d
BY DEF IInv, LedgerFollowsOrders, OneOrderPerKey, KeyIsUsed, HasOrder

(* No request of a key without order was ever sent.                        *)
LEMMA NewIsUnsent ==
    ASSUME IInv, NEW d \in Decisions, ~KeyIsUsed(Key(d))
    PROVE  Unsent(d)
<1>1. Key(d) \in Keys /\ ~HasOrder(d)
  BY KeysAssumption DEF Key, KeyIsUsed, HasOrder
<1>2. book[Key(d)].status = "NONE"
  BY <1>1 DEF IInv, BookFollowsOrders
<1>3. ~InFlight(d)
  BY <1>1 DEF InFlight, IInv, OrderInHand
<1> QED
  BY <1>2, <1>3 DEF Unsent

(* The permit is given for an order under submission, never sent before.   *)
LEMMA PermitIsForSubmission ==
    ASSUME IInv, OnceInv, NEW c \in Callers, PlaceOrder(c)
    PROVE  /\ pc[c] = "permit" /\ on[c] \in Decisions /\ HasOrder(on[c])
           /\ order[on[c]].status = "SUBMITTING" /\ age[on[c]] < Stale /\ Unsent(on[c])
<1>1. pc[c] = "permit" /\ CallIsHonest(c)
  BY DEF PlaceOrder, At, OnceInv
<1> QED
  BY <1>1 DEF CallIsHonest, Submitting, IInv, WorkInHand, OrderInHand

(* So an order that is not SUBMITTING stays as far from the operator as it *)
(* is.                                                                     *)
LEMMA UnplaceableStays ==
    ASSUME IInv, OnceInv, [Next]_vars, NEW d \in Decisions, Unplaceable(d),
           HasOrder(d) \/ ~KeyIsUsed(Key(d)), order[d].status # "SUBMITTING"
    PROVE  Unplaceable(d)' /\ (Unsent(d) => Unsent(d)')
<1>1. Key(d) \in Keys
  BY KeysAssumption DEF Key
<1>2. \A c \in Callers : PlaceOrder(c) => on[c] # d
  BY PermitIsForSubmission
<1>3. Unsent(d) => Unsent(d)'
  BY <1>2, UnsentStays, OnlyOrderOfKey
<1> QED
  BY <1>1, <1>3, RefusalStays DEF Unplaceable

LEMMA StepKeepsOneRequest ==
    ASSUME IInv, OnceInv, [Next]_vars
    PROVE  OneRequest'
<1> SUFFICES ASSUME NEW d \in Decisions, NEW c \in Callers, NEW x \in Callers,
                    <<c, d>> \in wire', <<x, d>> \in wire'
             PROVE  c = x
  BY DEF OneRequest
<1>1. CASE <<c, d>> \in wire /\ <<x, d>> \in wire
  BY <1>1 DEF OnceInv, OneRequest
<1>2. ASSUME NEW a \in Callers, NEW b \in Callers, <<a, d>> \in wire', <<a, d>> \notin wire,
             <<b, d>> \in wire', a # b
      PROVE  FALSE
  <2>1. PlaceOrder(a) /\ on[a] = d
    BY <1>2, OnlyPermitsSend
  <2>2. ~InFlight(d)
    BY <2>1, PermitIsForSubmission DEF Unsent
  <2>3. wire' = wire \cup {<<a, d>>}
    BY <2>1 DEF PlaceOrder
  <2> QED
    BY <1>2, <2>2, <2>3 DEF InFlight
<1> QED
  BY <1>1, <1>2

(* on changes for one call at a time: it starts on a decision nobody       *)
(* executes, or is done with it.                                           *)
LEMMA CallsStartAlone ==
    ASSUME OneCallerPerDecision, [Next]_vars
    PROVE  \/ UNCHANGED on
           \/ \E c \in Callers : on' = [on EXCEPT ![c] = NoDecision]
           \/ \E c \in Callers, d \in Decisions :
                on' = [on EXCEPT ![c] = d] /\ \A x \in Callers : on[x] # d
           \/ on' = [c \in Callers |-> NoDecision]
<1>1. ASSUME NEW c \in Callers, NEW d \in Decisions, ExecuteDecision(c, d)
      PROVE  \/ UNCHANGED on
             \/ on' = [on EXCEPT ![c] = d] /\ \A x \in Callers : on[x] # d
  BY <1>1 DEF ExecuteDecision, ReserveExisting, ReserveBlocked, ReserveDeclined, ReserveBegin,
              MayExecute, Start, callerVars
<1>2. ASSUME NEW c \in Callers, Proceed(c)
      PROVE  UNCHANGED on \/ on' = [on EXCEPT ![c] = NoDecision]
  BY <1>2 DEF Proceed, ReserveStake, ReserveRefused, ReserveFailed, RejectDecision, SubmitRead,
              Recheck, RecheckRefused, CancelReserved, PlaceOrder, PermitRefused,
              CancelSubmitting, PlaceOrderFails, ApplyPlacementResult, Finish
<1>3. CASE \/ UNCHANGED vars
           \/ \E a \in Actors : AutoStop(a)
           \/ \E m \in Modes : ChangeMode(m)
           \/ \E c \in Callers, d \in Decisions : OperatorHandles(c, d)
           \/ \E k \in Keys : OperatorSettles(k)
           \/ \E d \in Decisions : RecoverStaleSubmission(d) \/ CancelAbandoned(d) \/ Tick(d)
           \/ \E r \in Reconcilers, d \in Decisions : Reconcile(r, d)
  BY <1>3, RunsLeaveCallers
  DEF vars, callerVars, AutoStop, ChangeMode, OperatorHandles, OperatorSettles,
      RecoverStaleSubmission, CancelAbandoned, Tick
<1>4. CASE Crash
  BY <1>4 DEF Crash
<1> QED
  BY <1>1, <1>2, <1>3, <1>4 DEF Next

LEMMA StepKeepsAlone ==
    ASSUME OneCallerPerDecision, IInv, OnceInv, [Next]_vars
    PROVE  Alone'
<1>1. on \in [Callers -> Decisions \cup {NoDecision}] /\ Alone
  BY DEF IInv, TypeOK, OnceInv
<1> QED
  BY <1>1, CallsStartAlone, AbsentAssumption DEF Alone

-----------------------------------------------------------------------------
(* What the row of an order says *)

(* cancel() closes an order that was not, and leaves callers, operator and *)
(* requests alone.                                                         *)
LEMMA CancelCloses ==
    ASSUME TypeOK, NEW d \in Decisions, NEW x \in Decisions, NEW from, Cancel(x, from),
           order'[d] # order[d]
    PROVE  x = d /\ order[d].status \in from
BY DEF Cancel, SetStatus, orderVars, TypeOK

LEMMA AcceptanceNeverRejects ==
    ASSUME TypeOK, NEW d \in Decisions, NEW x \in Decisions, NEW a, NEW bet,
           ApplyAcceptance(a, x, bet), order'[d] # order[d]
    PROVE  x = d /\ order'[d].status # "REJECTED" /\ order[d].status \in AwaitingAnswer
<1>1. order \in [Decisions -> OrderRows]
  BY DEF TypeOK
<1>2. order' = [order EXCEPT ![x].status = "RECONCILIATION_REQUIRED"]
      \/ order' = [order EXCEPT ![x] = AcceptedOrder(@, bet)]
  BY DEF ApplyAcceptance, SetStatus
<1>3. x = d /\ order[x].status \in AwaitingAnswer
  BY <1>1, <1>2 DEF ApplyAcceptance
<1>4. order'[d].status \in {"RECONCILIATION_REQUIRED", "ACCEPTED"}
  BY <1>1, <1>2, <1>3 DEF AcceptedOrder, OrderRows
<1> QED
  BY <1>3, <1>4

(* The heart of the matter: whoever rejects an order knows that the        *)
(* operator did not take it and cannot take it any more.                   *)
LEMMA RejectionIsCertain ==
    ASSUME IInv, OnceInv, [Next]_vars, NEW d \in Decisions, HasOrder(d),
           order[d].status # "REJECTED", order'[d].status = "REJECTED"
    PROVE  Unplaceable(d) /\ order[d].status \in Unanswered /\ UNCHANGED <<book, wire>>
<1> DEFINE Goal == Unplaceable(d) /\ order[d].status \in Unanswered /\ UNCHANGED <<book, wire>>
<1> SUFFICES Goal
  OBVIOUS
<1>h. TypeOK /\ OrderIsHonest(d) /\ order'[d] # order[d]
  BY DEF IInv, OnceInv
<1>o. order \in [Decisions -> OrderRows]
  BY <1>h DEF TypeOK
<1>1. ASSUME NEW c \in Callers, CancelReserved(c) PROVE Goal
  <2>1. on[c] \in Decisions /\ Cancel(on[c], {"RESERVED"}) /\ UNCHANGED <<book, wire>>
    BY <1>1 DEF CancelReserved, At, IInv, WorkInHand
  <2>2. order[d].status = "RESERVED"
    BY <1>h, <2>1, CancelCloses
  <2> QED
    BY <1>h, <2>1, <2>2 DEF OrderIsHonest, Unplaceable, Unanswered
<1>2. ASSUME NEW c \in Callers, CancelSubmitting(c) PROVE Goal
  <2>1. /\ on[c] \in Decisions /\ Cancel(on[c], Withdrawable) /\ UNCHANGED <<book, wire>>
        /\ pc[c] = "withdrawing" /\ CallIsHonest(c)
    BY <1>2 DEF CancelSubmitting, At, IInv, WorkInHand, OnceInv
  <2>2. on[c] = d /\ order[d].status \in Withdrawable
    BY <1>h, <2>1, CancelCloses
  <2> QED
    BY <2>1, <2>2 DEF CallIsHonest, Unplaceable, Unanswered, Withdrawable
<1>3. ASSUME NEW c \in Callers, ApplyPlacementResult(c) PROVE Goal
  <2>1. on[c] \in Decisions /\ UNCHANGED <<book, wire>> /\ pc[c] = "apply" /\ CallIsHonest(c)
    BY <1>3 DEF ApplyPlacementResult, At, IInv, WorkInHand, OnceInv
  <2>2. CASE reply[c] = "REJECTED" /\ Cancel(on[c], Withdrawable)
    <3>1. on[c] = d /\ order[d].status \in Withdrawable
      BY <1>h, <2>1, <2>2, CancelCloses
    <3> QED
      BY <2>1, <2>2, <3>1 DEF CallIsHonest, Unanswered, Withdrawable
  <2>3. CASE ApplyAcceptance(c, on[c], book[Key(on[c])])
    BY <1>h, <2>1, <2>3, AcceptanceNeverRejects
  <2>4. CASE SetStatus(on[c], "UNKNOWN") \/ UNCHANGED order
    BY <1>h, <1>o, <2>1, <2>4 DEF SetStatus, OrderRows
  <2> QED
    BY <1>3, <2>2, <2>3, <2>4 DEF ApplyPlacementResult
<1>4. ASSUME NEW x \in Decisions, CancelAbandoned(x) PROVE Goal
  <2>1. x = d /\ order[d].status = "RESERVED" /\ UNCHANGED <<book, wire>>
    BY <1>h, <1>4, CancelCloses DEF CancelAbandoned
  <2> QED
    BY <1>h, <2>1 DEF OrderIsHonest, Unplaceable, Unanswered
<1>5. ASSUME NEW r \in Reconcilers, NEW x \in Decisions, ResolveUnknown(r, x) PROVE Goal
  <2>1. /\ UNCHANGED <<book, wire>> /\ held[r][x].stage = "UNKNOWN"
        /\ \/ ApplyAcceptance(r, x, held[r][x].bet)
           \/ UNCHANGED order
           \/ /\ Cancel(x, {"UNKNOWN"})
              /\ \/ held[r][x].bet.status = "REJECTED"
                 \/ held[r][x].bet.status = "NONE" /\ held[r][x].age >= Grace
    BY <1>5 DEF ResolveUnknown, GivenUp, orderVars
  <2>2. CASE Cancel(x, {"UNKNOWN"})
             /\ \/ held[r][x].bet.status = "REJECTED"
                \/ held[r][x].bet.status = "NONE" /\ held[r][x].age >= Grace
    <3>1. x = d /\ order[d].status = "UNKNOWN"
      BY <1>h, <2>2, CancelCloses
    <3>2. CASE held[r][x].bet.status = "REJECTED"
      <4>1. book[Key(d)].status = "REJECTED"
        BY <2>1, <3>1, <3>2 DEF IInv, LookupsAreTrue, StillTrue
      <4> QED
        BY <2>1, <3>1, <4>1 DEF Unplaceable, Unanswered
    <3>3. CASE held[r][x].bet.status = "NONE" /\ held[r][x].age >= Grace
      <4>1. RunIsHonest(r, d)
        BY DEF OnceInv
      <4>2. Unsent(d)
        BY <2>1, <3>1, <3>3, <4>1 DEF RunIsHonest, Unsent
      <4> QED
        BY <2>1, <3>1, <4>2 DEF Unplaceable, Unanswered
    <3> QED
      BY <2>2, <3>2, <3>3
  <2>3. CASE ApplyAcceptance(r, x, held[r][x].bet)
    BY <1>h, <2>3, AcceptanceNeverRejects
  <2> QED
    BY <1>h, <2>1, <2>2, <2>3
<1>6. ASSUME NEW c \in Callers, ReserveStake(c) \/ ReserveRefused(c) PROVE Goal
  <2>1. /\ on[c] \in Decisions /\ ~KeyIsUsed(Key(on[c]))
        /\ SetStatus(on[c], "RESERVED") \/ SetStatus(on[c], "REJECTED")
    BY <1>6 DEF ReserveStake, ReserveRefused, At, IInv, WorkInHand
  <2>2. on[c] # d
    BY <2>1 DEF KeyIsUsed, HasOrder
  <2> QED
    BY <1>h, <1>o, <2>1, <2>2 DEF SetStatus
<1>7. ASSUME NEW c \in Callers, Recheck(c) PROVE Goal
  <2>1. on[c] \in Decisions /\ (SetStatus(on[c], "SUBMITTING") \/ UNCHANGED order)
    BY <1>7 DEF Recheck, At, IInv, WorkInHand, orderVars
  <2> QED
    BY <1>h, <1>o, <2>1 DEF SetStatus, OrderRows
<1>8. ASSUME NEW r \in Reconcilers, NEW x \in Decisions, SettleOrder(r, x) PROVE Goal
  <2>1. UNCHANGED order \/ order' = [order EXCEPT ![x] = SettledOrder(@, held[r][x].bet.payout)]
    BY <1>8 DEF SettleOrder, orderVars
  <2> QED
    BY <1>h, <1>o, <2>1 DEF SettledOrder
<1>9. ASSUME NEW x \in Decisions, RecoverStaleSubmission(x) PROVE Goal
  BY <1>h, <1>o, <1>9 DEF RecoverStaleSubmission, SetStatus, OrderRows
<1>10. ASSUME NEW c \in Callers,
              \/ ReserveFailed(c) \/ RejectDecision(c) \/ SubmitRead(c) \/ RecheckRefused(c)
              \/ PlaceOrder(c) \/ PermitRefused(c) \/ PlaceOrderFails(c)
       PROVE  Goal
  BY <1>h, <1>10 DEF ReserveFailed, RejectDecision, SubmitRead, RecheckRefused, PlaceOrder,
                    PermitRefused, PlaceOrderFails, orderVars
<1>11. ASSUME NEW r \in Reconcilers, NEW x \in Decisions,
              ReadOrder(r, x) \/ Lookup(r, x) \/ SettleStake(r, x) \/ LeaveAccepted(r, x)
       PROVE  Goal
  BY <1>h, <1>11 DEF ReadOrder, Lookup, SettleStake, LeaveAccepted, orderVars
<1>12. CASE \/ UNCHANGED vars
            \/ \E a \in Actors : AutoStop(a)
            \/ \E m \in Modes : ChangeMode(m)
            \/ \E c \in Callers, x \in Decisions : ExecuteDecision(c, x)
            \/ \E c \in Callers, x \in Decisions : OperatorHandles(c, x)
            \/ \E k \in Keys : OperatorSettles(k)
            \/ \E x \in Decisions : Tick(x)
            \/ Crash
  BY <1>h, <1>12 DEF vars, orderVars, AutoStop, ChangeMode, ExecuteDecision, ReserveExisting,
                    ReserveBlocked, ReserveDeclined, ReserveBegin, OperatorHandles,
                    OperatorSettles, Tick, Crash
<1> HIDE DEF Goal
<1>13. CASE \E c \in Callers : Proceed(c)
  BY <1>1, <1>2, <1>3, <1>6, <1>7, <1>10, <1>13 DEF Proceed
<1>14. CASE \E r \in Reconcilers, x \in Decisions : Reconcile(r, x)
  BY <1>5, <1>8, <1>11, <1>14 DEF Reconcile
<1> QED
  BY <1>4, <1>9, <1>12, <1>13, <1>14 DEF Next

(* Time goes on by ticks; a new status may set the clock back.             *)
LEMMA AgeMoves ==
    ASSUME IInv, [Next]_vars, NEW d \in Decisions
    PROVE  age'[d] = age[d] \/ age'[d] = 0 \/ Tick(d)
<1> USE DEF orderVars
<1>0. age \in [Decisions -> Ages]
  BY DEF IInv, TypeOK
<1>1. ASSUME NEW x \in Decisions \cup {NoDecision},
             UNCHANGED age \/ age' = [age EXCEPT ![x] = 0]
      PROVE  age'[d] = age[d] \/ age'[d] = 0
  BY <1>0, <1>1
<1>2. ASSUME NEW c \in Callers, Proceed(c)
      PROVE  UNCHANGED age \/ age' = [age EXCEPT ![on[c]] = 0]
  BY <1>2 DEF Proceed, ReserveStake, ReserveRefused, ReserveFailed, RejectDecision, SubmitRead,
              Recheck, RecheckRefused, CancelReserved, PlaceOrder, PermitRefused,
              CancelSubmitting, PlaceOrderFails, ApplyPlacementResult, Cancel
<1>3. ASSUME NEW x \in Decisions, Tick(x) PROVE age'[d] = age[d] \/ Tick(d)
  BY <1>0, <1>3 DEF Tick
<1>4. CASE \/ UNCHANGED vars
           \/ \E a \in Actors : AutoStop(a)
           \/ \E m \in Modes : ChangeMode(m)
           \/ \E c \in Callers, x \in Decisions : ExecuteDecision(c, x)
           \/ \E c \in Callers, x \in Decisions : OperatorHandles(c, x)
           \/ \E k \in Keys : OperatorSettles(k)
           \/ \E x \in Decisions : RecoverStaleSubmission(x) \/ CancelAbandoned(x)
           \/ Crash
  BY <1>4
  DEF vars, AutoStop, ChangeMode, ExecuteDecision, ReserveExisting, ReserveBlocked,
      ReserveDeclined, ReserveBegin, OperatorHandles, OperatorSettles, Crash,
      RecoverStaleSubmission, CancelAbandoned, Cancel
<1>5. ASSUME NEW r \in Reconcilers, NEW x \in Decisions, Reconcile(r, x) PROVE UNCHANGED age
  <2>1. \A from : Cancel(x, from) => UNCHANGED age
    BY DEF Cancel
  <2> QED
    BY <1>5, <2>1
    DEF Reconcile, ReadOrder, Lookup, ResolveUnknown, SettleStake, SettleOrder, LeaveAccepted
<1>6. \A c \in Callers : on[c] \in Decisions \cup {NoDecision}
  BY DEF IInv, TypeOK
<1> QED
  BY <1>1, <1>2, <1>3, <1>4, <1>5, <1>6 DEF Next

(* An order is created for a key nobody used, RESERVED or REJECTED.        *)
LEMMA NewOrderNewKey ==
    ASSUME IInv, [Next]_vars, NEW d \in Decisions, ~HasOrder(d), HasOrder(d)'
    PROVE  ~KeyIsUsed(Key(d))
<1>1. order'[d] # order[d]
  BY DEF HasOrder
<1>2. PICK x \in Decisions : OrderStep(x)
  BY <1>1, StepIsOrderStep
<1>3. x = d
  BY <1>1, <1>2, OrderStepIsLocal
<1> QED
  BY <1>2, <1>3 DEF OrderStep, Creates, Advances, Withdraws, Accepts, WritesSettlement, Closes,
                   HasOrder, Unanswered

(* A RESERVED order was RESERVED before, a SUBMITTING one was not answered. *)
LEMMA StatusMoves ==
    ASSUME IInv, [Next]_vars, NEW d \in Decisions, HasOrder(d)
    PROVE  /\ order'[d].status = "RESERVED" => order[d].status = "RESERVED"
           /\ order'[d].status \in Unanswered => order[d].status \in Unanswered
<1>1. CASE order'[d] = order[d]
  BY <1>1
<1>2. CASE order'[d] # order[d]
  <2>1. PICK x \in Decisions : OrderStep(x)
    BY <1>2, StepIsOrderStep
  <2>2. x = d
    BY <1>2, <2>1, OrderStepIsLocal
  <2>3. order \in [Decisions -> OrderRows] /\ order[d].status \in OrderStatuses
    BY DEF IInv, TypeOK, OrderRows
  <2>4. StatusGoesOn(d)
    BY OrderGoesOn
  <2>5. ASSUME order'[d].status = "RESERVED" PROVE FALSE
    <3>1. ASSUME NEW s, SetStatus(d, s) PROVE order'[d].status = s
      BY <2>3, <3>1 DEF SetStatus, OrderRows
    <3>2. ~Creates(d)
      BY DEF Creates, KeyIsUsed, HasOrder
    <3>3. ~WritesSettlement(d)
      BY <1>2 DEF WritesSettlement
    <3>4. ~Advances(d) /\ ~Withdraws(d)
      BY <2>5, <3>1 DEF Advances, Withdraws
    <3>5. ~Accepts(d) /\ ~Closes(d)
      BY <2>3, <2>5 DEF Accepts, Closes, AcceptedOrder, SettledOrder
    <3> QED
      BY <2>1, <2>2, <3>2, <3>3, <3>4, <3>5 DEF OrderStep
  <2> QED
    BY <2>3, <2>4, <2>5 DEF StatusGoesOn, Answered, Unanswered, HasOrder, OrderStatuses
<1> QED
  BY <1>1, <1>2

LEMMA StepKeepsOrders ==
    ASSUME Punctual, IInv, OnceInv, [Next]_vars, NEW d \in Decisions
    PROVE  OrderIsHonest(d)'
<1>1. OrderIsHonest(d)
  BY DEF OnceInv
<1>2. CASE ~HasOrder(d)
  <2>1. CASE HasOrder(d)'
    <3>1. Unsent(d) /\ ~KeyIsUsed(Key(d)) /\ order[d].status # "SUBMITTING"
      BY <1>2, <2>1, NewOrderNewKey, NewIsUnsent DEF HasOrder
    <3>2. Unsent(d)'
      BY <3>1, UnplaceableStays DEF Unplaceable
    <3> QED
      BY <3>2 DEF OrderIsHonest, Unplaceable, Unsent
  <2>2. CASE ~HasOrder(d)'
    BY <2>2 DEF OrderIsHonest, HasOrder, Unanswered
  <2> QED
    BY <2>1, <2>2
<1>3. CASE HasOrder(d)
  <2>1. ASSUME order'[d].status = "RESERVED" PROVE Unsent(d)'
    <3>1. order[d].status = "RESERVED"
      BY <1>3, <2>1, StatusMoves
    <3> QED
      BY <1>1, <1>3, <3>1, UnplaceableStays DEF OrderIsHonest, Unplaceable
  <2>2. ASSUME order'[d].status = "REJECTED" PROVE Unplaceable(d)'
    <3>1. CASE order[d].status = "REJECTED"
      BY <1>1, <1>3, <3>1, UnplaceableStays DEF OrderIsHonest
    <3>2. CASE order[d].status # "REJECTED"
      BY <1>3, <2>2, <3>2, RejectionIsCertain DEF Unplaceable, Unsent, InFlight
    <3> QED
      BY <3>1, <3>2
  <2>3. ASSUME order'[d].status \in Unanswered, age'[d] >= Grace PROVE ~InFlight(d)'
    <3>1. order[d].status \in Unanswered /\ age[d] \in Int
      BY <1>3, <2>3, StatusMoves DEF IInv, TypeOK, Ages, TooOld
    <3>2. CASE Tick(d)
      <4>1. age'[d] = age[d] + 1 /\ UNCHANGED wire
        BY <3>2 DEF Tick, IInv, TypeOK
      <4>2. ~InFlight(d)
        BY <2>3, <3>2, <4>1 DEF Tick
      <4> QED
        BY <4>1, <4>2 DEF InFlight
    <3>3. CASE age'[d] = age[d]
      <4>1. ~InFlight(d)
        BY <1>1, <2>3, <3>1, <3>3 DEF OrderIsHonest
      <4>2. ~(age[d] < Stale)
        BY <2>3, <3>1, <3>3 DEF Stale, Grace
      <4>3. \A c \in Callers : PlaceOrder(c) => on[c] # d
        BY <4>2, PermitIsForSubmission
      <4> QED
        BY <4>1, <4>3, OnlyPermitsSend DEF InFlight
    <3>4. age'[d] # 0
      BY <2>3 DEF Grace
    <3> QED
      BY <3>2, <3>3, <3>4, AgeMoves
  <2> QED
    BY <2>1, <2>2, <2>3 DEF OrderIsHonest
<1> QED
  BY <1>2, <1>3

-----------------------------------------------------------------------------
(* What a run knows *)

LEMMA StepKeepsRuns ==
    ASSUME Punctual, IInv, OnceInv, [Next]_vars, NEW r \in Reconcilers, NEW d \in Decisions
    PROVE  RunIsHonest(r, d)'
<1>0. held \in [Reconcilers -> [Decisions -> Lookups]]
  BY DEF IInv, TypeOK
<1>1. ASSUME held[r][d].stage # "none", ~InFlight(d)
      PROVE  /\ ~InFlight(d)'
             /\ book[Key(d)].status = "NONE" => book'[Key(d)].status = "NONE"
  <2>1. HasOrder(d) /\ order[d].status # "SUBMITTING"
    BY <1>1 DEF IInv, LookupsAreTrue
  <2>2. ~InFlight(d)'
    BY <1>1, <2>1, PermitIsForSubmission, OnlyPermitsSend DEF InFlight
  <2>3. ASSUME book[Key(d)].status = "NONE" PROVE book'[Key(d)].status = "NONE"
    <3>1. Unsent(d)'
      BY <1>1, <2>1, <2>3, UnplaceableStays DEF Unsent, Unplaceable
    <3> QED
      BY <3>1 DEF Unsent
  <2> QED
    BY <2>2, <2>3
<1>2. CASE held'[r][d] = held[r][d]
  <2>1. RunIsHonest(r, d)
    BY DEF OnceInv
  <2> QED
    BY <1>1, <1>2, <2>1 DEF RunIsHonest
<1>3. CASE held'[r][d].stage \notin {"READ_UNKNOWN", "UNKNOWN"}
  BY <1>3 DEF RunIsHonest
<1>4. ASSUME ReadOrder(r, d) PROVE RunIsHonest(r, d)'
  <2>1. /\ held'[r][d] = ReadAs(order[d].status, age[d])
        /\ order[d].status \in {"UNKNOWN", "ACCEPTED"} /\ UNCHANGED <<book, wire>>
    BY <1>0, <1>4 DEF ReadOrder, LookedUp
  <2>2. OrderIsHonest(d)
    BY DEF OnceInv
  <2> QED
    BY <2>1, <2>2 DEF RunIsHonest, ReadAs, OrderIsHonest, Unanswered, InFlight
<1>5. ASSUME Lookup(r, d), held'[r][d].stage = "UNKNOWN" PROVE RunIsHonest(r, d)'
  <2>1. /\ held'[r][d] = Found(held[r][d], book[Key(d)]) /\ UNCHANGED <<book, wire>>
        /\ held[r][d].stage \in {"READ_UNKNOWN", "READ_ACCEPTED"}
    BY <1>0, <1>5 DEF Lookup, NoLookup, OnceRead
  <2>2. held[r][d].stage = "READ_UNKNOWN"
    BY <1>5, <2>1 DEF Found, OnceRead
  <2>3. RunIsHonest(r, d)
    BY DEF OnceInv
  <2> QED
    BY <2>1, <2>2, <2>3 DEF RunIsHonest, Found, OnceRead, InFlight
<1>6. ASSUME NEW q \in Reconcilers, NEW x \in Decisions, Reconcile(q, x)
      PROVE  \/ held'[r][d] = held[r][d]
             \/ held'[r][d].stage \notin {"READ_UNKNOWN", "UNKNOWN"}
             \/ ReadOrder(r, d)
             \/ Lookup(r, d) /\ held'[r][d].stage = "UNKNOWN"
  <2>1. CASE q # r \/ x # d
    <3>1. \/ UNCHANGED held \/ \E l : held' = [held EXCEPT ![q][x] = l]
      BY <1>6 DEF Reconcile, ReadOrder, Lookup, ResolveUnknown, SettleStake, SettleOrder,
                  LeaveAccepted, Release, MoveTo
    <3> QED
      BY <1>0, <2>1, <3>1
  <2>2. CASE q = r /\ x = d
    <3>1. ASSUME Release(r, d) PROVE held'[r][d].stage = "none"
      BY <1>0, <3>1 DEF Release, NoLookup
    <3>2. ASSUME NEW stage \in {"ACCEPTED", "SETTLING"}, MoveTo(r, d, stage)
          PROVE  held'[r][d].stage = stage
      BY <1>0, <3>2 DEF MoveTo
    <3>3. ASSUME Lookup(r, d)
          PROVE  held'[r][d].stage \in {"none", "UNKNOWN", "ACCEPTED"}
      BY <1>0, <3>3 DEF Lookup, Found, OnceRead, NoLookup
    <3> QED
      BY <1>6, <2>2, <3>1, <3>2, <3>3
      DEF Reconcile, ResolveUnknown, SettleStake, SettleOrder, LeaveAccepted
  <2> QED
    BY <2>1, <2>2
<1>7. CASE Crash
  BY <1>7 DEF Crash, NoLookup, RunIsHonest
<1>8. CASE \/ UNCHANGED vars
           \/ \E a \in Actors : AutoStop(a)
           \/ \E m \in Modes : ChangeMode(m)
           \/ \E c \in Callers, x \in Decisions : ExecuteDecision(c, x)
           \/ \E c \in Callers : Proceed(c)
           \/ \E c \in Callers, x \in Decisions : OperatorHandles(c, x)
           \/ \E k \in Keys : OperatorSettles(k)
           \/ \E x \in Decisions : RecoverStaleSubmission(x) \/ CancelAbandoned(x) \/ Tick(x)
  <2>1. UNCHANGED held
    BY <1>8, ZenonT(60)
    DEF vars, AutoStop, ChangeMode, ExecuteDecision, ReserveExisting, ReserveBlocked,
        ReserveDeclined, ReserveBegin, Proceed, ReserveStake, ReserveRefused, ReserveFailed,
        RejectDecision, SubmitRead, Recheck, RecheckRefused, CancelReserved, PlaceOrder,
        PermitRefused, CancelSubmitting, PlaceOrderFails, ApplyPlacementResult,
        OperatorHandles, OperatorSettles, RecoverStaleSubmission, CancelAbandoned, Tick
  <2> QED
    BY <1>2, <2>1
<1> QED
  BY <1>2, <1>3, <1>4, <1>5, <1>6, <1>7, <1>8 DEF Next

-----------------------------------------------------------------------------
(* What a call knows *)

LEMMA CallsMoveOn ==
    ASSUME TypeOK, NEW c \in Callers, Proceed(c)
    PROVE  pc'[c] # pc[c]
BY DEF TypeOK, Proceed, ReserveStake, ReserveRefused, ReserveFailed, RejectDecision, SubmitRead,
       Recheck, RecheckRefused, CancelReserved, PlaceOrder, PermitRefused, CancelSubmitting,
       PlaceOrderFails, ApplyPlacementResult, Finish, Goto, At

(* A call changes its own order only.                                      *)
LEMMA CallsKeepToTheirOrder ==
    ASSUME IInv, NEW c \in Callers, Proceed(c), NEW d \in Decisions, on[c] # d
    PROVE  order'[d] = order[d] /\ age'[d] = age[d]
<1>0. TypeOK /\ order \in [Decisions -> OrderRows] /\ age \in [Decisions -> Ages]
  BY DEF IInv, TypeOK
<1>1. on[c] \in Decisions
  BY DEF IInv, WorkInHand, Proceed, ReserveStake, ReserveRefused, ReserveFailed, RejectDecision,
         SubmitRead, Recheck, RecheckRefused, CancelReserved, PlaceOrder, PermitRefused,
         CancelSubmitting, PlaceOrderFails, ApplyPlacementResult, At
<1>2. \A from : Cancel(on[c], from) => order'[d] = order[d] /\ UNCHANGED age
  BY <1>0, <1>1, CancelCloses DEF Cancel, orderVars
<1>3. ApplyAcceptance(c, on[c], book[Key(on[c])]) => order'[d] = order[d]
  BY <1>0, <1>1, AcceptanceNeverRejects
<1>4. \A s : SetStatus(on[c], s) => order'[d] = order[d]
  BY <1>0, <1>1 DEF SetStatus
<1>5. age' = [age EXCEPT ![on[c]] = 0] => age'[d] = age[d]
  BY <1>0, <1>1
<1>6. CASE CancelReserved(c) \/ CancelSubmitting(c)
  BY <1>2, <1>6 DEF CancelReserved, CancelSubmitting
<1>7. CASE ApplyPlacementResult(c)
  BY <1>2, <1>3, <1>4, <1>5, <1>7 DEF ApplyPlacementResult
<1>8. CASE ReserveStake(c) \/ ReserveRefused(c) \/ Recheck(c)
  BY <1>4, <1>5, <1>8 DEF ReserveStake, ReserveRefused, Recheck, orderVars
<1>9. CASE \/ ReserveFailed(c) \/ RejectDecision(c) \/ SubmitRead(c) \/ RecheckRefused(c)
           \/ PlaceOrder(c) \/ PermitRefused(c) \/ PlaceOrderFails(c)
  BY <1>9 DEF ReserveFailed, RejectDecision, SubmitRead, RecheckRefused, PlaceOrder,
              PermitRefused, PlaceOrderFails, orderVars
<1> QED
  BY <1>6, <1>7, <1>8, <1>9 DEF Proceed

(* While a call works on an order, nobody else does more to it than cancel *)
(* an abandoned reservation.                                               *)
LEMMA OrderInPeace ==
    ASSUME Punctual, IInv, OnceInv, [Next]_vars,
           NEW c \in Callers, NEW d \in Decisions, on[c] = d, pc'[c] = pc[c]
    PROVE  /\ pc[c] \in BeforePermit => order'[d].status \in {"RESERVED", "REJECTED"}
           /\ pc[c] \in Submitting => order'[d].status = "SUBMITTING" /\ age'[d] < Stale
<1> DEFINE Peace == /\ pc[c] \in BeforePermit => order'[d].status \in {"RESERVED", "REJECTED"}
                    /\ pc[c] \in Submitting => order'[d].status = "SUBMITTING" /\ age'[d] < Stale
<1> SUFFICES ASSUME pc[c] \in BeforePermit \cup Submitting PROVE Peace
  BY DEF BeforePermit, Submitting
<1>0. TypeOK /\ order \in [Decisions -> OrderRows] /\ age \in [Decisions -> Ages]
  BY DEF IInv, TypeOK
<1>h. /\ pc[c] \in BeforePermit => order[d].status \in {"RESERVED", "REJECTED"}
      /\ pc[c] \in Submitting => order[d].status = "SUBMITTING" /\ age[d] < Stale
  BY DEF OnceInv, CallIsHonest
<1>1. ASSUME order'[d] = order[d], age'[d] = age[d] PROVE Peace
  BY <1>h, <1>1
<1>2. ASSUME NEW x \in Callers, Proceed(x) PROVE Peace
  <2>1. x # c
    BY <1>0, <1>2, CallsMoveOn
  <2>2. on[x] # d
    BY <2>1 DEF OnceInv, Alone
  <2> QED
    BY <1>1, <1>2, <2>2, CallsKeepToTheirOrder
<1>3. ASSUME NEW x \in Decisions, RecoverStaleSubmission(x) PROVE Peace
  <2>1. age[d] \in Int /\ Stale \in Int
    BY <1>0 DEF Ages, TooOld, Stale
  <2>2. x # d
    BY <1>3, <1>h, <2>1 DEF RecoverStaleSubmission, BeforePermit, Submitting
  <2> QED
    BY <1>0, <1>1, <1>3, <2>2 DEF RecoverStaleSubmission, SetStatus
<1>4. ASSUME NEW x \in Decisions, CancelAbandoned(x) PROVE Peace
  <2>1. Cancel(x, {"RESERVED"}) /\ UNCHANGED age
    BY <1>4 DEF CancelAbandoned, Cancel, orderVars
  <2>2. CASE order'[d] = order[d]
    BY <1>1, <2>1, <2>2
  <2>3. CASE order'[d] # order[d]
    <3>1. x = d /\ order[d].status = "RESERVED"
      BY <1>0, <2>1, <2>3, CancelCloses
    <3>2. order'[d].status = "REJECTED"
      BY <1>0, <2>1, <3>1 DEF Cancel, SetStatus, OrderRows
    <3> QED
      BY <1>h, <3>1, <3>2
  <2> QED
    BY <2>2, <2>3
<1>5. ASSUME NEW r \in Reconcilers, NEW x \in Decisions, Reconcile(r, x) PROVE Peace
  <2>1. UNCHANGED age
    <3>1. \A from : Cancel(x, from) => UNCHANGED age
      BY DEF Cancel, orderVars
    <3> QED
      BY <1>5, <3>1 DEF Reconcile, ReadOrder, Lookup, ResolveUnknown, SettleStake, SettleOrder,
                        LeaveAccepted, orderVars
  <2>2. CASE order'[d] = order[d]
    BY <1>1, <2>1, <2>2
  <2>3. CASE order'[d] # order[d]
    <3>1. ResolveUnknown(r, x) \/ SettleOrder(r, x)
      BY <1>5, <2>3 DEF Reconcile, ReadOrder, Lookup, SettleStake, LeaveAccepted, orderVars
    <3>2. held[r][x].stage # "none"
      BY <3>1 DEF ResolveUnknown, SettleOrder
    <3>3. x = d
      <4>1. CASE ResolveUnknown(r, x)
        <5>1. \/ ApplyAcceptance(r, x, held[r][x].bet) \/ Cancel(x, {"UNKNOWN"})
              \/ UNCHANGED order
          BY <4>1 DEF ResolveUnknown, orderVars
        <5> QED
          BY <1>0, <2>3, <5>1, CancelCloses, AcceptanceNeverRejects
      <4>2. CASE SettleOrder(r, x)
        BY <1>0, <2>3, <4>2 DEF SettleOrder, orderVars
      <4> QED
        BY <3>1, <4>1, <4>2
    <3>4. order[d].status \notin {"RESERVED", "SUBMITTING"}
      BY <3>2, <3>3 DEF IInv, LookupsAreTrue
    <3>5. order[d].status = "REJECTED"
      BY <1>h, <3>4 DEF BeforePermit, Submitting
    <3> QED
      BY <2>3, <3>5, OrderGoesOn DEF StatusGoesOn, Terminal
  <2> QED
    BY <2>2, <2>3
<1>6. ASSUME NEW x \in Decisions, Tick(x) PROVE Peace
  <2>1. CASE x # d
    BY <1>0, <1>1, <1>6, <2>1 DEF Tick
  <2>2. CASE x = d /\ pc[c] \in Submitting
    <3>1. BeingSubmitted(d)
      BY <2>2 DEF BeingSubmitted, Submitting
    <3>2. ~(age[d] + 1 >= Stale) /\ age'[d] = age[d] + 1 /\ UNCHANGED order
      BY <1>0, <1>6, <2>2, <3>1 DEF Tick
    <3>3. age[d] \in Int /\ Stale \in Int
      BY <1>0 DEF Ages, TooOld, Stale
    <3> QED
      BY <1>h, <2>2, <3>2, <3>3 DEF BeforePermit, Submitting
  <2>3. CASE pc[c] \in BeforePermit
    BY <1>6, <1>h, <2>3 DEF Tick, BeforePermit, Submitting
  <2> QED
    BY <2>1, <2>2, <2>3
<1>7. CASE \/ UNCHANGED vars
           \/ \E a \in Actors : AutoStop(a)
           \/ \E m \in Modes : ChangeMode(m)
           \/ \E x \in Callers, y \in Decisions : ExecuteDecision(x, y)
           \/ \E x \in Callers, y \in Decisions : OperatorHandles(x, y)
           \/ \E k \in Keys : OperatorSettles(k)
           \/ Crash
  <2>1. UNCHANGED <<order, age>>
    BY <1>7 DEF vars, orderVars, AutoStop, ChangeMode, ExecuteDecision, ReserveExisting,
                ReserveBlocked, ReserveDeclined, ReserveBegin, OperatorHandles,
                OperatorSettles, Crash
  <2> QED
    BY <1>1, <2>1
<1> HIDE DEF Peace
<1> QED
  BY <1>2, <1>3, <1>4, <1>5, <1>6, <1>7 DEF Next

LEMMA StepKeepsCalls ==
    ASSUME OneCallerPerDecision, Punctual, IInv, OnceInv, [Next]_vars, NEW c \in Callers
    PROVE  CallIsHonest(c)'
<1> USE DEF CallIsHonest, BeforePermit, Submitting
<1>0. /\ TypeOK /\ pc \in [Callers -> PCs] /\ reply \in [Callers -> {"none", "ACCEPTED", "REJECTED", "UNKNOWN"}]
      /\ on \in [Callers -> Decisions \cup {NoDecision}]
      /\ order \in [Decisions -> OrderRows] /\ age \in [Decisions -> Ages]
  BY DEF IInv, TypeOK
<1>h. /\ CallIsHonest(c)
      /\ pc[c] # "idle" => on[c] \in Decisions
      /\ pc[c] \in BeforePermit \cup Submitting \cup {"withdrawing", "apply"} => HasOrder(on[c])
  BY DEF OnceInv, IInv, WorkInHand, OrderInHand
<1>1. ASSUME pc'[c] = pc[c], on'[c] = on[c], reply'[c] = reply[c] PROVE CallIsHonest(c)'
  <2>0. \A x \in Callers : PlaceOrder(x) /\ on[x] \in Decisions => on[x] # on[c]
    <3>1. ~PlaceOrder(c)
      BY <1>0, <1>1, CallsMoveOn DEF Proceed
    <3> QED
      BY <3>1 DEF OnceInv, Alone
  <2>1. \A x \in Callers : PlaceOrder(x) => on[x] \in Decisions
    BY PermitIsForSubmission
  <2>2. ASSUME Unsent(on[c]), on[c] \in Decisions, HasOrder(on[c]) PROVE Unsent(on[c])'
    <3>1. PICK d \in Decisions : d = on[c]
      BY <2>2
    <3>2. Unsent(d)'
      BY <2>0, <2>1, <2>2, <3>1, UnsentStays, OnlyOrderOfKey
    <3> QED
      BY <1>1, <3>1, <3>2 DEF Unsent, InFlight
  <2>3. ASSUME Unplaceable(on[c]), on[c] \in Decisions, HasOrder(on[c]) PROVE Unplaceable(on[c])'
    <3>1. CASE Unsent(on[c])
      BY <2>2, <2>3, <3>1 DEF Unplaceable
    <3>2. CASE book[Key(on[c])].status = "REJECTED"
      BY <1>1, <2>3, <3>2, RefusalStays, KeysAssumption DEF Unplaceable, Key
    <3> QED
      BY <2>3, <3>1, <3>2 DEF Unplaceable
  <2>4. /\ pc[c] \in BeforePermit => order'[on[c]].status \in {"RESERVED", "REJECTED"}
        /\ pc[c] \in Submitting => order'[on[c]].status = "SUBMITTING" /\ age'[on[c]] < Stale
    BY <1>1, <1>h, OrderInPeace
  <2> QED
    BY <1>1, <1>h, <2>2, <2>3, <2>4
<1>2. ASSUME NEW x \in Callers, NEW d \in Decisions, ExecuteDecision(x, d)
      PROVE  CallIsHonest(c)'
  <2>1. CASE pc'[c] = pc[c] /\ on'[c] = on[c] /\ reply'[c] = reply[c]
    BY <1>1, <2>1
  <2>2. CASE pc'[c] \in {"refused", "reserving"}
    BY <2>2
  <2>3. CASE x = c /\ ReserveExisting(c, d)
    <3>1. /\ pc'[c] = "submit" /\ on'[c] = d /\ order[d].status = "RESERVED"
          /\ UNCHANGED <<order, book, wire>>
      BY <1>0, <2>3 DEF ReserveExisting, Start, Goto, orderVars
    <3>2. Unsent(d)
      BY <3>1 DEF OnceInv, OrderIsHonest
    <3> QED
      BY <3>1, <3>2 DEF Unsent, InFlight
  <2>4. \/ pc'[c] = pc[c] /\ on'[c] = on[c] /\ reply'[c] = reply[c]
        \/ pc'[c] \in {"refused", "reserving"}
        \/ x = c /\ ReserveExisting(c, d)
    BY <1>0, <1>2 DEF ExecuteDecision, ReserveExisting, ReserveBlocked, ReserveDeclined,
                      ReserveBegin, Start, Goto, callerVars
  <2> QED
    BY <2>1, <2>2, <2>3, <2>4
<1>3. ASSUME NEW x \in Callers, Proceed(x), x # c PROVE CallIsHonest(c)'
  <2>1. pc'[c] = pc[c] /\ on'[c] = on[c] /\ reply'[c] = reply[c]
    BY <1>0, <1>3 DEF Proceed, ReserveStake, ReserveRefused, ReserveFailed, RejectDecision,
        SubmitRead, Recheck, RecheckRefused, CancelReserved, PlaceOrder, PermitRefused,
        CancelSubmitting, PlaceOrderFails, ApplyPlacementResult, Finish, Goto
  <2> QED
    BY <1>1, <2>1
<1>4. ASSUME ReserveStake(c) PROVE CallIsHonest(c)'
  <2>1. PICK d \in Decisions : d = on[c] /\ ~KeyIsUsed(Key(d))
    BY <1>h, <1>4 DEF ReserveStake, At
  <2>2. /\ pc'[c] = "submit" /\ on'[c] = d /\ order'[d].status = "RESERVED"
        /\ UNCHANGED <<book, wire>>
    BY <1>0, <1>4, <2>1 DEF ReserveStake, Goto, SetStatus, OrderRows
  <2>3. Unsent(d)
    BY <2>1, NewIsUnsent
  <2> QED
    BY <2>2, <2>3 DEF Unsent, InFlight
<1>5. ASSUME Recheck(c), pc'[c] # "idle" PROVE CallIsHonest(c)'
  <2>1. PICK d \in Decisions : d = on[c]
    BY <1>h, <1>5 DEF Recheck, At
  <2>2. pc[c] = "recheck" /\ order[d].status # "SUBMITTING" /\ Unsent(d)
    BY <1>5, <1>h, <2>1 DEF Recheck, At
  <2>3. /\ pc'[c] = "permit" /\ on'[c] = d /\ SetStatus(d, "SUBMITTING")
        /\ age' = [age EXCEPT ![d] = 0] /\ UNCHANGED <<book, wire>>
    BY <1>0, <1>5, <2>1, <2>2 DEF Recheck, Goto, Finish
  <2>4. order'[d].status = "SUBMITTING" /\ age'[d] < Stale
    BY <1>0, <2>3 DEF SetStatus, OrderRows, Stale
  <2> QED
    BY <2>2, <2>3, <2>4 DEF Unsent, InFlight
<1>6. ASSUME \/ SubmitRead(c) /\ pc'[c] # "idle"
             \/ RecheckRefused(c) \/ PermitRefused(c)
      PROVE  CallIsHonest(c)'
  <2>1. on'[c] = on[c] /\ UNCHANGED <<order, book, wire>> /\ Unsent(on[c])
    BY <1>0, <1>6, <1>h DEF SubmitRead, RecheckRefused, PermitRefused, At, Finish, Goto, orderVars
  <2>2. \/ pc[c] \in BeforePermit /\ pc'[c] \in {"recheck", "cancelling"}
        \/ pc'[c] = "withdrawing"
    BY <1>0, <1>6 DEF SubmitRead, RecheckRefused, PermitRefused, At, Finish, Goto
  <2> QED
    BY <1>h, <2>1, <2>2 DEF Unsent, InFlight
<1>7. ASSUME PlaceOrder(c) PROVE CallIsHonest(c)'
  <2>1. /\ pc[c] = "permit" /\ pc'[c] = "placing" /\ on'[c] = on[c]
        /\ UNCHANGED <<order, age>>
    BY <1>0, <1>7 DEF PlaceOrder, At, Goto, orderVars
  <2> QED
    BY <1>h, <2>1
<1>8. ASSUME PlaceOrderFails(c) PROVE CallIsHonest(c)'
  BY <1>0, <1>8 DEF PlaceOrderFails, Goto
<1>9. ASSUME pc'[c] \in {"idle", "refused", "reserving"} PROVE CallIsHonest(c)'
  BY <1>9
<1>10. CASE Proceed(c)
  <2>1. \/ pc'[c] \in {"idle", "refused", "reserving"}
        \/ ReserveStake(c) \/ (Recheck(c) /\ pc'[c] # "idle")
        \/ (SubmitRead(c) /\ pc'[c] # "idle") \/ RecheckRefused(c) \/ PermitRefused(c)
        \/ PlaceOrder(c) \/ PlaceOrderFails(c)
    BY <1>0, <1>10 DEF Proceed, ReserveRefused, ReserveFailed, RejectDecision, CancelReserved,
                       CancelSubmitting, ApplyPlacementResult, Finish, Goto
  <2> QED
    BY <1>4, <1>5, <1>6, <1>7, <1>8, <1>9, <2>1
<1>11. ASSUME NEW x \in Callers, NEW d \in Decisions, OperatorHandles(x, d)
       PROVE  CallIsHonest(c)'
  <2>1. CASE pc'[c] = pc[c] /\ reply'[c] = reply[c]
    BY <1>1, <1>11, <2>1 DEF OperatorHandles
  <2>2. ASSUME NEW result \in {"ACCEPTED", "UNKNOWN"}, Answer(x, d, result)
        PROVE  (pc'[c] = pc[c] /\ reply'[c] = reply[c]) \/ (pc'[c] = "apply" /\ reply'[c] # "REJECTED")
    BY <1>0, <2>2 DEF Answer, Goto
  <2>3. ASSUME Answer(x, d, "REJECTED")
        PROVE  \/ pc'[c] = pc[c] /\ reply'[c] = reply[c]
               \/ pc'[c] = "apply" /\ x = c /\ on[c] = d
    BY <1>0, <2>3 DEF Answer, Goto
  <2>4. CASE /\ wire' = wire \ {<<c, d>>} /\ <<c, d>> \in wire
             /\ pc'[c] = "apply" /\ on'[c] = d
             /\ book'[Key(d)].status \in {"NONE", "REJECTED"}
    <3>1. ~InFlight(d)'
      BY <2>4 DEF InFlight, OnceInv, OneRequest
    <3> QED
      BY <2>4, <3>1 DEF Unplaceable, Unsent, InFlight
  <2>5. Key(d) \in Keys /\ book \in [Keys -> Bets] /\ UNCHANGED on
        /\ wire' = wire \ {<<x, d>>} /\ <<x, d>> \in wire
    BY <1>11, KeysAssumption DEF Key, IInv, TypeOK, OperatorHandles
  <2>6. ASSUME Answer(x, d, "REJECTED"),
               \/ book[Key(d)].status = "REJECTED" /\ UNCHANGED book
               \/ book[Key(d)].status = "NONE" /\ UNCHANGED book
               \/ book' = [book EXCEPT ![Key(d)] = BetAfter(@, "REJECTED", 0)]
        PROVE  CallIsHonest(c)'
    <3>1. book'[Key(d)].status \in {"NONE", "REJECTED"}
      BY <2>5, <2>6 DEF BetAfter
    <3> QED
      BY <2>1, <2>3, <2>4, <2>5, <2>6, <3>1
  <2>7. ASSUME NEW result \in {"ACCEPTED", "UNKNOWN"}, Answer(x, d, result)
        PROVE  CallIsHonest(c)'
    BY <2>1, <2>2, <2>7
  <2> QED
    BY <1>11, <2>1, <2>6, <2>7 DEF OperatorHandles
<1>12. CASE Crash
  BY <1>12 DEF Crash
<1>13. CASE UNCHANGED callerVars
  BY <1>1, <1>13 DEF callerVars
<1>14. ASSUME \/ UNCHANGED vars
              \/ \E a \in Actors : AutoStop(a)
              \/ \E m \in Modes : ChangeMode(m)
              \/ \E k \in Keys : OperatorSettles(k)
              \/ \E d \in Decisions : RecoverStaleSubmission(d) \/ CancelAbandoned(d) \/ Tick(d)
              \/ \E r \in Reconcilers, d \in Decisions : Reconcile(r, d)
       PROVE  UNCHANGED callerVars
  BY <1>14, RunsLeaveCallers
  DEF vars, callerVars, AutoStop, ChangeMode, OperatorSettles, RecoverStaleSubmission,
      CancelAbandoned, Tick
<1> USE <1>2, <1>3, <1>10, <1>11, <1>12, <1>13, <1>14
<1> QED
  BY DEF Next

-----------------------------------------------------------------------------
(* The order is submitted once *)

LEMMA OnceHolds ==
    ASSUME OneCallerPerDecision, Punctual
    PROVE  Spec => []OnceInv
<1>1. Init => OnceInv
  BY AbsentAssumption DEF Init, OnceInv, Alone, OneRequest, OrderIsHonest, CallIsHonest, RunIsHonest,
     NoOrder, NoLookup, Unanswered, BeforePermit, Submitting
<1>2. IInv /\ OnceInv /\ [Next]_vars => OnceInv'
  BY StepKeepsAlone, StepKeepsOneRequest, StepKeepsOrders, StepKeepsCalls, StepKeepsRuns
  DEF OnceInv
<1> QED
  BY <1>1, <1>2, InvariantHolds, PTL DEF Spec

(* order-execution.service.ts:1081 and :729: as long as no two calls        *)
(* execute one decision and submissions are over before the delays that    *)
(* judge them, a rejected order is no bet at the operator, for any number  *)
(* of orders, calls, runs and crashes, whatever was lost or unseen.        *)
THEOREM RejectionsAreCertain ==
    ASSUME OneCallerPerDecision, Punctual
    PROVE  Spec => []RejectedNeverPlaced
<1>1. OnceInv => RejectedNeverPlaced
  BY DEF OnceInv, OrderIsHonest, Unplaceable, Unsent, RejectedNeverPlaced, Held
<1> QED
  BY <1>1, OnceHolds, PTL

(* order-execution.service.ts:178 "soumission UNIQUE", under the same two  *)
(* conditions: a request only leaves when none ever left for the order.    *)
THEOREM SubmissionsAreUnique ==
    ASSUME OneCallerPerDecision, Punctual
    PROVE  Spec => SubmittedOnce
<1>1. IInv /\ OnceInv /\ [Next]_vars =>
        [\A c \in Callers, d \in Decisions : <<c, d>> \in wire' \ wire =>
            /\ order[d].status = "SUBMITTING"
            /\ ~InFlight(d)
            /\ book[Key(d)].status = "NONE"]_vars
  BY OnlyPermitsSend, PermitIsForSubmission DEF Unsent
<1> QED
  BY <1>1, OnceHolds, InvariantHolds, PTL DEF Spec, SubmittedOnce
=============================================================================
