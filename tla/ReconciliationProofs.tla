------------------------- MODULE ReconciliationProofs -------------------------
(***************************************************************************)
(* A run of the reconciliation finds every gap there was when it began,    *)
(* and one that nothing disturbs stops execution only for a reason, for    *)
(* any orders and instances, any lateness and any number of crashes.       *)
(*                                                                         *)
(* What a run has read is compared with the orders and the operator as     *)
(* they are now: the predicates below take the tick t of an instance, the  *)
(* orders ord and the operator's records op, so that they can be stated of *)
(* a state and of its successor.                                           *)
(***************************************************************************)
EXTENDS Reconciliation, TLAPS

OrderRows == [status : Statuses, age : 0 .. 2]

Exist(ord) == {o \in Orders : ord[o].status # "NONE"}

GapIn(ord, op, o) ==
    \/ ord[o].status = "REJECTED" /\ op[o] \in Bets
    \/ ord[o].status = "RECONCILIATION_REQUIRED"

(* What execution may be stopped for.                                      *)
Troubled(ord, op, o) ==
    GapIn(ord, op, o) \/ (ord[o].status = "UNKNOWN" /\ ord[o].age = 2)

BooksOf(ord) == [exposure |-> Cardinality({o \in Orders : ord[o].status \in Open}),
                 paid     |-> Cardinality({o \in Orders : ord[o].status = "SETTLED"})]
BooksAt(op)  == [exposure |-> Cardinality({o \in Orders : op[o] \in {"placed", "other"}}),
                 paid     |-> Cardinality({o \in Orders : op[o] = "settled"})]

(* What the local records know of the operator.                            *)
Matches(ord, op) ==
    /\ ord \in [Orders -> OrderRows] /\ op \in [Orders -> AtOperator]
    /\ \A o \in Orders :
          /\ ord[o].status \in {"NONE", "RESERVED"} => op[o] = "none"
          /\ ord[o].status = "ACCEPTED" => op[o] \in {"placed", "settled"}
          /\ ord[o].status = "SETTLED" => op[o] = "settled"

(* What was found at the operator stays, but that a placed bet is settled. *)
Became(found, now) == now = found \/ (found = "placed" /\ now = "settled")

(* What every step of the system leaves true: a gap stays a gap.           *)
Evolves(ord, op, ord2, op2) ==
    \A o \in Orders :
        /\ GapIn(ord, op, o) => GapIn(ord2, op2, o) /\ ord2[o].status = ord[o].status
        /\ op[o] \in Found => Became(op[o], op2[o])

(* A step that changes no more than ages.                                  *)
Calm(ord, op, ord2, op2) ==
    /\ op2 = op
    /\ \A o \in Orders : /\ ord2[o].status = ord[o].status
                         /\ ord[o].status = "UNKNOWN" /\ ord[o].age = 2 => ord2[o].age = 2

-----------------------------------------------------------------------------
(* The tick of an instance *)
Fields == {"at", "rows", "looked", "todo", "fresh", "proofs", "books", "items", "late", "past", "quiet",
           "before"}
IsTick(t) == t = [f \in Fields |-> t[f]]

AfterCompare == {"account", "balance", "invariant", "complete", "completed"}
AfterResolve == {"again"} \cup AfterCompare
AfterLookup  == {"resolve"} \cup AfterResolve
AfterRead    == {"lookup"} \cup AfterLookup

HasItem(t, o) == \E item \in t.items : item.order = o

(* Which orders a run has read, looked up and compared.                    *)
Shaped(t) ==
    /\ t.before \subseteq Orders
    /\ t.at \in AfterRead => DOMAIN t.rows \subseteq Orders
    /\ t.at \in AfterLookup => DOMAIN t.looked \subseteq DOMAIN t.rows /\ t.todo \subseteq DOMAIN t.looked
                               /\ \A o \in t.todo : t.rows[o] \in {"UNKNOWN", "ACCEPTED"}
    /\ t.at \in AfterResolve => t.todo = {}
    /\ t.at \notin AfterResolve => t.fresh = <<>> /\ t.proofs = <<>>
    /\ t.at \in AfterCompare => t.fresh # <<>>
    /\ t.fresh # <<>> => DOMAIN t.fresh = DOMAIN t.rows

(* What was found at the operator is what it has.                          *)
LookedTrue(t, op) ==
    t.at \in AfterLookup =>
        \A o \in DOMAIN t.looked : t.looked[o] \in Found => Became(t.looked[o], op[o])

(* A gap from before the run is seen by each of its steps.                 *)
GapsSeen(t, ord, op) ==
    \A o \in t.before :
        /\ GapIn(ord, op, o)
        /\ t.at \in AfterRead => o \in DOMAIN t.rows /\ t.rows[o] = ord[o].status
        /\ t.at \in AfterLookup =>
               /\ o \in DOMAIN t.looked
               /\ t.looked[o] = "failed" => HasItem(t, o)
               /\ t.looked[o] # "failed" /\ ord[o].status = "REJECTED" => t.looked[o] \in Bets
        /\ t.fresh # <<>> => t.fresh[o] = ord[o].status
        /\ t.at \in AfterCompare => HasItem(t, o)

(* What a run knows that nothing has disturbed since it began.             *)
KnowsOrders(t, ord) ==
    /\ t.at \in AfterRead => DOMAIN t.rows = Exist(ord)
    /\ t.at = "lookup" => \A o \in DOMAIN t.rows : ord[o].status = t.rows[o]
    /\ t.at \in AfterLookup => \A o \in DOMAIN t.rows :
           o \in t.todo \/ o \notin DOMAIN t.looked => ord[o].status = t.rows[o]
    /\ t.fresh # <<>> => \A o \in DOMAIN t.fresh : t.fresh[o] = ord[o].status
    /\ t.proofs # <<>> => DOMAIN t.proofs = DOMAIN t.rows
                          /\ \A o \in DOMAIN t.rows : t.proofs[o] = ord[o].status
    /\ t.at = "balance" => t.books = BooksOf(ord)

KnowsOperator(t, ord, op) ==
    t.at \in AfterLookup =>
        /\ DOMAIN t.looked = {o \in DOMAIN t.rows : t.rows[o] \in LookedUp}
        /\ \A o \in DOMAIN t.looked :
              /\ t.looked[o] = IF op[o] \in Found THEN op[o] ELSE "none"
              /\ o \notin t.todo /\ ord[o].status = "ACCEPTED" => t.looked[o] = "placed"

ItemsJustified(t, ord, op) ==
    t.at \in AfterLookup /\ t.items # {} => \E o \in Orders \ t.todo : Troubled(ord, op, o)

Undisturbed(t, ord, op) ==
    t.quiet => KnowsOrders(t, ord) /\ KnowsOperator(t, ord, op) /\ ItemsJustified(t, ord, op)

Kept(t, ord, op) ==
    Shaped(t) /\ LookedTrue(t, op) /\ GapsSeen(t, ord, op) /\ Undisturbed(t, ord, op)

(* The inductive invariant; the lock lets one instance run at a time.      *)
OneAtATime == \A i, j \in Instances : i # j => At(i, "idle") \/ At(j, "idle")

RecInv ==
    /\ Matches(order, operator)
    /\ tick = [i \in Instances |-> tick[i]]
    /\ \A i \in Instances : IsTick(tick[i]) /\ Kept(tick[i], order, operator)
    /\ OneAtATime

-----------------------------------------------------------------------------
(* What another actor does *)

SameRun(t, u) ==
    /\ u.at = t.at /\ u.rows = t.rows /\ u.looked = t.looked /\ u.todo = t.todo
    /\ u.fresh = t.fresh /\ u.proofs = t.proofs /\ u.books = t.books /\ u.items = t.items
    /\ u.before = t.before

LEMMA GapsStaySeen ==
    ASSUME NEW t, NEW u, NEW ord, NEW op, NEW ord2, NEW op2, SameRun(t, u), Shaped(t),
           LookedTrue(t, op), GapsSeen(t, ord, op), Evolves(ord, op, ord2, op2)
    PROVE  Shaped(u) /\ LookedTrue(u, op2) /\ GapsSeen(u, ord2, op2)
<1>1. Shaped(u)
  BY DEF SameRun, Shaped
<1>2. LookedTrue(u, op2)
  <2> SUFFICES ASSUME t.at \in AfterLookup, NEW o \in DOMAIN t.looked, t.looked[o] \in Found
               PROVE  Became(t.looked[o], op2[o])
    BY DEF LookedTrue, SameRun
  <2>1. o \in Orders
    BY DEF Shaped, AfterRead
  <2>2. Became(t.looked[o], op[o])
    BY DEF LookedTrue
  <2>3. op[o] \in Found
    BY <2>2 DEF Became, Found
  <2>4. Became(op[o], op2[o])
    BY <2>1, <2>3 DEF Evolves
  <2> QED
    BY <2>2, <2>4 DEF Became
<1>3. GapsSeen(u, ord2, op2)
  <2> SUFFICES ASSUME NEW o \in t.before
               PROVE  /\ GapIn(ord2, op2, o)
                      /\ ord2[o].status = ord[o].status
    BY DEF GapsSeen, SameRun, HasItem
  <2> QED
    BY DEF GapsSeen, Shaped, Evolves
<1> QED
  BY <1>1, <1>2, <1>3

LEMMA CalmKeeps ==
    ASSUME NEW t, NEW u, NEW ord, NEW op, NEW ord2, NEW op2, SameRun(t, u), Shaped(t),
           u.quiet => t.quiet, Undisturbed(t, ord, op), Calm(ord, op, ord2, op2)
    PROVE  Undisturbed(u, ord2, op2)
<1> SUFFICES ASSUME u.quiet PROVE Undisturbed(u, ord2, op2)
  BY DEF Undisturbed
<1>0. op2 = op /\ \A o \in Orders : ord2[o].status = ord[o].status
  BY DEF Calm
<1>1. Exist(ord2) = Exist(ord) /\ BooksOf(ord2) = BooksOf(ord)
  <2>1. {o \in Orders : ord2[o].status \in Open} = {o \in Orders : ord[o].status \in Open}
        /\ {o \in Orders : ord2[o].status = "SETTLED"} = {o \in Orders : ord[o].status = "SETTLED"}
    BY <1>0
  <2> QED
    BY <1>0, <2>1 DEF Exist, BooksOf
<1>2. KnowsOrders(u, ord2)
  <2>1. KnowsOrders(t, ord)
    BY DEF Undisturbed
  <2>2. t.at \in AfterRead => DOMAIN t.rows \subseteq Orders
    BY DEF Shaped
  <2>3. t.fresh # <<>> => DOMAIN t.fresh \subseteq Orders
    BY DEF Shaped, AfterRead, AfterLookup
  <2>4. t.proofs # <<>> => DOMAIN t.rows \subseteq Orders
    BY DEF Shaped, AfterRead, AfterLookup
  <2>5. t.at \in AfterLookup \/ t.at = "lookup" => t.at \in AfterRead
    BY DEF AfterRead
  <2> QED
    BY <1>0, <1>1, <2>1, <2>2, <2>3, <2>4, <2>5 DEF KnowsOrders, SameRun
<1>3. KnowsOperator(u, ord2, op2)
  <2>1. KnowsOperator(t, ord, op)
    BY DEF Undisturbed
  <2>2. t.at \in AfterLookup => DOMAIN t.looked \subseteq Orders
    BY DEF Shaped, AfterRead
  <2> QED
    BY <1>0, <2>1, <2>2 DEF KnowsOperator, SameRun
<1>4. ItemsJustified(u, ord2, op2)
  <2>1. \A o \in Orders : Troubled(ord, op, o) => Troubled(ord2, op2, o)
    BY <1>0 DEF Troubled, GapIn, Calm
  <2>2. ItemsJustified(t, ord, op)
    BY DEF Undisturbed
  <2> QED
    BY <2>1, <2>2 DEF ItemsJustified, SameRun
<1> QED
  BY <1>2, <1>3, <1>4 DEF Undisturbed

-----------------------------------------------------------------------------
(* Orders and operator, step by step.                                      *)

(* One order and what the operator has of it, before and after.            *)
RowMatches(r, x) ==
    /\ r \in OrderRows /\ x \in AtOperator
    /\ r.status \in {"NONE", "RESERVED"} => x = "none"
    /\ r.status = "ACCEPTED" => x \in {"placed", "settled"}
    /\ r.status = "SETTLED" => x = "settled"

RowGap(r, x) == (r.status = "REJECTED" /\ x \in Bets) \/ r.status = "RECONCILIATION_REQUIRED"

RowEvolves(r, x, r2, x2) ==
    /\ RowGap(r, x) => RowGap(r2, x2) /\ r2.status = r.status
    /\ x \in Found => Became(x, x2)

LEMMA ByRows ==
    ASSUME NEW ord, NEW op, Matches(ord, op), NEW ord2, NEW op2,
           ord2 = [o \in Orders |-> ord2[o]], op2 = [o \in Orders |-> op2[o]],
           \A o \in Orders : RowMatches(ord[o], op[o]) =>
               RowMatches(ord2[o], op2[o]) /\ RowEvolves(ord[o], op[o], ord2[o], op2[o])
    PROVE  Matches(ord2, op2) /\ Evolves(ord, op, ord2, op2)
<1>1. \A o \in Orders : RowMatches(ord[o], op[o])
  BY DEF Matches, RowMatches
<1>2. \A o \in Orders : RowMatches(ord2[o], op2[o]) /\ RowEvolves(ord[o], op[o], ord2[o], op2[o])
  BY <1>1
<1>3. ord2 \in [Orders -> OrderRows] /\ op2 \in [Orders -> AtOperator]
  BY <1>2 DEF RowMatches
<1> QED
  BY <1>2, <1>3 DEF Matches, RowMatches, Evolves, RowEvolves, RowGap, GapIn

(* A new status that tells no more of the operator than the old one, or    *)
(* what the operator is known to have.                                     *)
Leads(r, x, r2) ==
    /\ r2 \in OrderRows
    /\ r.status \notin {"REJECTED", "RECONCILIATION_REQUIRED"} \/ r2.status = r.status
    /\ r2.status \in {"NONE", "RESERVED"} => x = "none"
    /\ r2.status = "ACCEPTED" => x \in {"placed", "settled"}
    /\ r2.status = "SETTLED" => x = "settled"

LEMMA LeadsEvolves ==
    ASSUME NEW r, NEW x, NEW r2, RowMatches(r, x), Leads(r, x, r2)
    PROVE  RowMatches(r2, x) /\ RowEvolves(r, x, r2, x)
BY DEF RowMatches, Leads, RowEvolves, RowGap, Became

LEMMA UnchangedEvolves ==
    ASSUME NEW r, NEW x, RowMatches(r, x)
    PROVE  RowMatches(r, x) /\ RowEvolves(r, x, r, x)
BY DEF RowMatches, RowEvolves, RowGap, Became

LEMMA OneRowMoves ==
    ASSUME NEW ord, NEW op, Matches(ord, op), NEW o \in Orders, NEW r2,
           RowMatches(ord[o], op[o]) => Leads(ord[o], op[o], r2)
    PROVE  /\ Matches([ord EXCEPT ![o] = r2], op)
           /\ Evolves(ord, op, [ord EXCEPT ![o] = r2], op)
<1> DEFINE ord2 == [ord EXCEPT ![o] = r2]
<1>1. /\ ord2 = [p \in Orders |-> ord2[p]] /\ op = [p \in Orders |-> op[p]]
      /\ \A p \in Orders : ord2[p] = IF p = o THEN r2 ELSE ord[p]
  BY DEF Matches
<1> HIDE DEF ord2
<1>2. ASSUME NEW p \in Orders, RowMatches(ord[p], op[p])
      PROVE  RowMatches(ord2[p], op[p]) /\ RowEvolves(ord[p], op[p], ord2[p], op[p])
  <2>1. CASE p = o
    BY <1>1, <1>2, <2>1, LeadsEvolves
  <2>2. CASE p # o
    BY <1>1, <1>2, <2>2, UnchangedEvolves
  <2> QED
    BY <2>1, <2>2
<1>3. Matches(ord2, op) /\ Evolves(ord, op, ord2, op)
  <2>1. \A p \in Orders : RowMatches(ord[p], op[p]) =>
            RowMatches(ord2[p], op[p]) /\ RowEvolves(ord[p], op[p], ord2[p], op[p])
    BY <1>2
  <2> QED
    BY <1>1, <2>1, ByRows
<1> QED
  BY <1>3 DEF ord2

LEMMA OneRecordMoves ==
    ASSUME NEW ord, NEW op, Matches(ord, op), NEW o \in Orders, NEW x2 \in AtOperator,
           ord[o].status \notin {"NONE", "RESERVED"},
           op[o] \notin Found \/ (op[o] = "placed" /\ x2 = "settled")
    PROVE  /\ Matches(ord, [op EXCEPT ![o] = x2])
           /\ Evolves(ord, op, ord, [op EXCEPT ![o] = x2])
<1> DEFINE op2 == [op EXCEPT ![o] = x2]
<1>1. /\ op2 = [p \in Orders |-> op2[p]] /\ ord = [p \in Orders |-> ord[p]]
      /\ \A p \in Orders : op2[p] = IF p = o THEN x2 ELSE op[p]
  BY DEF Matches
<1> HIDE DEF op2
<1>2. ASSUME NEW p \in Orders, RowMatches(ord[p], op[p])
      PROVE  RowMatches(ord[p], op2[p]) /\ RowEvolves(ord[p], op[p], ord[p], op2[p])
  <2>1. CASE p = o
    <3>1. op2[o] = x2
      BY <1>1
    <3> QED
      BY <1>2, <2>1, <3>1 DEF RowMatches, RowEvolves, RowGap, Became, Found, Bets
  <2>2. CASE p # o
    BY <1>1, <1>2, <2>2, UnchangedEvolves
  <2> QED
    BY <2>1, <2>2
<1>3. Matches(ord, op2) /\ Evolves(ord, op, ord, op2)
  <2>1. \A p \in Orders : RowMatches(ord[p], op[p]) =>
            RowMatches(ord[p], op2[p]) /\ RowEvolves(ord[p], op[p], ord[p], op2[p])
    BY <1>2
  <2> QED
    BY <1>1, <2>1, ByRows
<1> QED
  BY <1>3 DEF op2

(* Recovery and cancellation move every order that has waited too long.    *)
LEMMA WaitingMove ==
    ASSUME NEW ord, NEW op, Matches(ord, op), NEW S,
           NEW from \in {"SUBMITTING", "RESERVED"}, NEW to \in {"UNKNOWN", "REJECTED"},
           NEW ord2, ord2 = [o \in Orders |-> IF ord[o].status = from /\ o \in S
                                              THEN [status |-> to, age |-> 0] ELSE ord[o]]
    PROVE  Matches(ord2, op) /\ Evolves(ord, op, ord2, op)
<1>1. /\ ord2 = [o \in Orders |-> ord2[o]] /\ op = [o \in Orders |-> op[o]]
      /\ \A o \in Orders : ord2[o] = IF ord[o].status = from /\ o \in S
                                     THEN [status |-> to, age |-> 0] ELSE ord[o]
  BY DEF Matches
<1>2. ASSUME NEW o \in Orders, RowMatches(ord[o], op[o])
      PROVE  RowMatches(ord2[o], op[o]) /\ RowEvolves(ord[o], op[o], ord2[o], op[o])
  <2>1. CASE ord[o].status = from /\ o \in S
    <3>1. ord2[o] = [status |-> to, age |-> 0]
      BY <1>1, <2>1
    <3>2. Leads(ord[o], op[o], ord2[o])
      BY <2>1, <3>1 DEF Leads, OrderRows, Statuses
    <3> QED
      BY <1>2, <3>2, LeadsEvolves
  <2>2. CASE ~ (ord[o].status = from /\ o \in S)
    BY <1>1, <1>2, <2>2, UnchangedEvolves
  <2> QED
    BY <2>1, <2>2
<1>3. \A o \in Orders : RowMatches(ord[o], op[o]) =>
          RowMatches(ord2[o], op[o]) /\ RowEvolves(ord[o], op[o], ord2[o], op[o])
  BY <1>2
<1> QED
  BY <1>1, <1>3, ByRows

(* What a lookup makes of an order.                                        *)
LEMMA ResolvedLeads ==
    ASSUME NEW r, NEW x, RowMatches(r, x), NEW was, NEW found, found \in Found => Became(found, x)
    PROVE  Leads(r, x, IF Resolved(was, found, r) = r.status THEN r
                       ELSE [status |-> Resolved(was, found, r), age |-> 0])
<1> DEFINE accepted == IF r.status \notin {"UNKNOWN", "SUBMITTING", "RESERVED"} THEN r.status
                       ELSE IF found = "other" THEN "RECONCILIATION_REQUIRED" ELSE "ACCEPTED"
           is == Resolved(was, found, r)
<1>1. r \in OrderRows /\ r.status \in Statuses
  BY DEF RowMatches, OrderRows
<1>2. CASE was = "UNKNOWN" /\ found \in Bets
  <2>1. is = IF found = "settled" /\ accepted = "ACCEPTED" THEN "SETTLED" ELSE accepted
    <3>1. was = "UNKNOWN" /\ found # "refused" /\ found # "none"
      BY <1>2 DEF Bets
    <3> QED
      BY <1>2, <3>1 DEF Resolved
  <2>2. found \in Found /\ Became(found, x)
    BY <1>2 DEF Bets, Found
  <2>3. CASE r.status \notin {"UNKNOWN", "SUBMITTING", "RESERVED"}
    <3>1. is = IF found = "settled" /\ r.status = "ACCEPTED" THEN "SETTLED" ELSE r.status
      BY <2>1, <2>3
    <3> HIDE DEF is
    <3> QED
      BY <1>1, <2>2, <3>1 DEF RowMatches, Leads, Became, OrderRows, Statuses, is
  <2>4. CASE r.status \in {"UNKNOWN", "SUBMITTING", "RESERVED"}
    <3>1. is \in {"SETTLED", "RECONCILIATION_REQUIRED", "ACCEPTED"}
      BY <2>1, <2>4
    <3>2. is = "SETTLED" => x = "settled"
      BY <2>1, <2>2, <2>4 DEF Became
    <3>3. is = "ACCEPTED" => x \in {"placed", "settled"}
      BY <1>2, <2>1, <2>2, <2>4 DEF Became, Bets
    <3> HIDE DEF is
    <3> QED
      BY <1>1, <2>4, <3>1, <3>2, <3>3 DEF Leads, OrderRows, Statuses, is
  <2> QED
    BY <2>3, <2>4
<1>3. CASE was = "ACCEPTED" /\ found = "settled" /\ r.status = "ACCEPTED"
  <2>1. is = "SETTLED" /\ Became(found, x)
    BY <1>3 DEF Resolved, Found
  <2> HIDE DEF is
  <2> QED
    BY <1>1, <1>3, <2>1 DEF Leads, OrderRows, Statuses, Became, is
<1>4. CASE was = "UNKNOWN" /\ r.status = "UNKNOWN"
           /\ (found = "refused" \/ (found = "none" /\ r.age = 1))
  <2>1. is = "REJECTED"
    BY <1>4 DEF Resolved, Bets
  <2> HIDE DEF is
  <2> QED
    BY <1>1, <1>4, <2>1 DEF Leads, OrderRows, Statuses, is
<1>5. CASE ~ (was = "UNKNOWN" /\ found \in Bets)
           /\ ~ (was = "ACCEPTED" /\ found = "settled" /\ r.status = "ACCEPTED")
           /\ ~ (was = "UNKNOWN" /\ r.status = "UNKNOWN"
                 /\ (found = "refused" \/ (found = "none" /\ r.age = 1)))
  <2>1. is = r.status
    BY <1>5 DEF Resolved
  <2> HIDE DEF is
  <2> QED
    BY <1>1, <2>1 DEF Leads, RowMatches, is
<1> QED
  BY <1>2, <1>3, <1>4, <1>5

-----------------------------------------------------------------------------
(* The steps of a run *)
LEMMA NothingRead == DOMAIN <<>> = {}
OBVIOUS

(* A tick that is in no run, or whose run has read nothing.                *)
IsRest(u) == IsTick(u) /\ u.at \notin AfterRead /\ u.before = {} /\ u.fresh = <<>> /\ u.proofs = <<>>

LEMMA RestKept ==
    ASSUME NEW u, IsRest(u), NEW ord, NEW op
    PROVE  Kept(u, ord, op)
<1>1. u.before = {} /\ u.fresh = <<>> /\ u.proofs = <<>>
  BY DEF IsRest
<1>2. /\ u.at \notin AfterRead /\ u.at \notin AfterLookup /\ u.at \notin AfterResolve
      /\ u.at \notin AfterCompare /\ u.at # "lookup" /\ u.at # "balance"
  BY DEF IsRest, AfterRead, AfterLookup, AfterResolve, AfterCompare
<1>3. Shaped(u) /\ LookedTrue(u, op) /\ GapsSeen(u, ord, op)
  BY <1>1, <1>2 DEF Shaped, LookedTrue, GapsSeen
<1>4. Undisturbed(u, ord, op)
  BY <1>1, <1>2 DEF Undisturbed, KnowsOrders, KnowsOperator, ItemsJustified
<1> QED
  BY <1>3, <1>4 DEF Kept

(* Before the orders are read, there is nothing to know.                   *)
LEMMA EarlyKnows ==
    ASSUME NEW t, Shaped(t), t.at \notin AfterRead, NEW ord, NEW op
    PROVE  Undisturbed(t, ord, op)
<1>1. t.at \notin AfterLookup /\ t.at \notin AfterResolve /\ t.at # "lookup" /\ t.at # "balance"
  BY DEF AfterRead, AfterLookup, AfterResolve, AfterCompare
<1> QED
  BY <1>1 DEF Shaped, Undisturbed, KnowsOrders, KnowsOperator, ItemsJustified

LEMMA OpenKept ==
    ASSUME NEW t, IsTick(t), Shaped(t), t.at = "open", NEW ord, NEW op, NEW u,
           u = [t EXCEPT !.at = "recover", !.quiet = TRUE, !.before = {o \in Orders : GapIn(ord, op, o)}]
    PROVE  Kept(u, ord, op)
<1>1. /\ u.at = "recover" /\ u.before = {o \in Orders : GapIn(ord, op, o)}
      /\ u.fresh = t.fresh /\ u.proofs = t.proofs
  BY DEF IsTick, Fields
<1>2. u.at \notin AfterRead /\ u.at \notin AfterLookup /\ u.at \notin AfterResolve /\ u.at \notin AfterCompare
      /\ t.at \notin AfterResolve
  BY <1>1 DEF AfterRead, AfterLookup, AfterResolve, AfterCompare
<1>3. Shaped(u)
  BY <1>1, <1>2 DEF Shaped
<1>4. LookedTrue(u, op) /\ GapsSeen(u, ord, op)
  BY <1>1, <1>2, <1>3 DEF LookedTrue, GapsSeen, Shaped
<1> QED
  BY <1>2, <1>3, <1>4, EarlyKnows DEF Kept

(* Recovery and cancellation go on to the next step.                       *)
LEMMA EarlyStepKept ==
    ASSUME NEW t, IsTick(t), NEW ord, NEW op, NEW ord2, Kept(t, ord, op),
           t.at \in {"recover", "cancel"}, NEW at \in {"cancel", "read"}, NEW u,
           u = [t EXCEPT !.at = at], Evolves(ord, op, ord2, op)
    PROVE  Kept(u, ord2, op)
<1>1. Shaped(t) /\ LookedTrue(t, op) /\ GapsSeen(t, ord2, op)
  BY GapsStaySeen DEF SameRun, Kept
<1>2. u.at = at /\ u.before = t.before /\ u.fresh = t.fresh /\ u.proofs = t.proofs
  BY DEF IsTick, Fields
<1>3. u.at \notin AfterRead /\ u.at \notin AfterLookup /\ u.at \notin AfterResolve /\ u.at \notin AfterCompare
      /\ t.at \notin AfterResolve
  BY <1>2 DEF AfterRead, AfterLookup, AfterResolve, AfterCompare
<1>4. Shaped(u)
  BY <1>1, <1>2, <1>3 DEF Shaped
<1>5. LookedTrue(u, op) /\ GapsSeen(u, ord2, op)
  BY <1>1, <1>2, <1>3 DEF LookedTrue, GapsSeen, Shaped
<1> QED
  BY <1>3, <1>4, <1>5, EarlyKnows DEF Kept

LEMMA ReadKept ==
    ASSUME NEW t, IsTick(t), NEW ord, NEW op, Kept(t, ord, op), t.at = "read", NEW u,
           u = [t EXCEPT !.at = "lookup", !.rows = [o \in Exist(ord) |-> ord[o].status]]
    PROVE  Kept(u, ord, op)
<1>1. /\ u.at = "lookup" /\ u.before = t.before /\ u.fresh = t.fresh /\ u.proofs = t.proofs
      /\ u.rows = [o \in Exist(ord) |-> ord[o].status]
  BY DEF IsTick, Fields
<1>2. u.at \in AfterRead /\ u.at \notin AfterLookup /\ u.at \notin AfterResolve /\ u.at \notin AfterCompare
      /\ t.at \notin AfterResolve
  BY <1>1 DEF AfterRead, AfterLookup, AfterResolve, AfterCompare
<1>3. t.fresh = <<>> /\ t.proofs = <<>> /\ t.before \subseteq Orders
  BY <1>2 DEF Kept, Shaped
<1>4. Shaped(u)
  BY <1>1, <1>2, <1>3 DEF Shaped, Exist
<1>5. LookedTrue(u, op)
  BY <1>2 DEF LookedTrue
<1>6. GapsSeen(u, ord, op)
  <2>1. \A o \in t.before : GapIn(ord, op, o) /\ o \in Exist(ord)
    BY <1>3 DEF Kept, GapsSeen, GapIn, Exist
  <2> QED
    BY <1>1, <1>2, <1>3, <2>1 DEF GapsSeen
<1>7. Undisturbed(u, ord, op)
  BY <1>1, <1>2, <1>3 DEF Undisturbed, KnowsOrders, KnowsOperator, ItemsJustified
<1> QED
  BY <1>4, <1>5, <1>6, <1>7 DEF Kept

LEMMA LookupKept ==
    ASSUME NEW t, IsTick(t), NEW ord, NEW op, Matches(ord, op), Kept(t, ord, op), t.at = "lookup",
           NEW asked, asked = {o \in DOMAIN t.rows : t.rows[o] \in LookedUp},
           NEW failed \in SUBSET asked, NEW u,
           u = [t EXCEPT
                  !.at = "resolve",
                  !.looked = [o \in asked |-> IF o \in failed THEN "failed"
                                              ELSE IF op[o] \in Found THEN op[o] ELSE "none"],
                  !.todo = {o \in asked \ failed : t.rows[o] \in {"UNKNOWN", "ACCEPTED"}},
                  !.items = {Item(o, "LOOKUP") : o \in failed},
                  !.quiet = @ /\ failed = {}]
    PROVE  Kept(u, ord, op)
<1>1. /\ u.at = "resolve" /\ u.rows = t.rows /\ u.before = t.before
      /\ u.fresh = t.fresh /\ u.proofs = t.proofs
  BY DEF IsTick, Fields
<1>2. u.looked = [o \in asked |-> IF o \in failed THEN "failed"
                                  ELSE IF op[o] \in Found THEN op[o] ELSE "none"]
  BY DEF IsTick, Fields
<1>3. /\ u.todo = {o \in asked \ failed : t.rows[o] \in {"UNKNOWN", "ACCEPTED"}}
      /\ u.items = {Item(o, "LOOKUP") : o \in failed}
      /\ u.quiet = (t.quiet /\ failed = {})
  BY DEF IsTick, Fields
<1>4. u.at \in AfterRead /\ u.at \in AfterLookup /\ u.at \notin AfterResolve /\ u.at \notin AfterCompare
      /\ t.at \in AfterRead /\ t.at \notin AfterResolve /\ u.at # "lookup" /\ u.at # "balance"
  BY <1>1 DEF AfterRead, AfterLookup, AfterResolve, AfterCompare
<1>5. /\ t.fresh = <<>> /\ t.proofs = <<>> /\ t.before \subseteq Orders /\ DOMAIN t.rows \subseteq Orders
  BY <1>4 DEF Kept, Shaped
<1>6. DOMAIN u.looked = asked /\ asked \subseteq DOMAIN t.rows /\ asked \subseteq Orders
  BY <1>2, <1>5
<1>7. Shaped(u)
  BY <1>1, <1>3, <1>4, <1>5, <1>6 DEF Shaped
<1>8. LookedTrue(u, op)
  <2>1. \A o \in asked : u.looked[o] \in Found => u.looked[o] = op[o]
    BY <1>2 DEF Found
  <2> QED
    BY <1>6, <2>1 DEF LookedTrue, Became
<1>9. GapsSeen(u, ord, op)
  <2> SUFFICES ASSUME NEW o \in t.before
               PROVE  /\ GapIn(ord, op, o) /\ o \in DOMAIN t.rows /\ t.rows[o] = ord[o].status
                      /\ o \in asked
                      /\ u.looked[o] = "failed" => HasItem(u, o)
                      /\ u.looked[o] # "failed" /\ ord[o].status = "REJECTED" => u.looked[o] \in Bets
    BY <1>1, <1>4, <1>5, <1>6 DEF GapsSeen
  <2>1. GapIn(ord, op, o) /\ o \in DOMAIN t.rows /\ t.rows[o] = ord[o].status
    BY <1>4 DEF Kept, GapsSeen
  <2>2. o \in asked
    BY <2>1 DEF GapIn, LookedUp
  <2>3. u.looked[o] = IF o \in failed THEN "failed" ELSE IF op[o] \in Found THEN op[o] ELSE "none"
    BY <1>2, <2>2
  <2>4. o \in failed => HasItem(u, o)
    <3>1. o \in failed => Item(o, "LOOKUP") \in u.items
      BY <1>3
    <3>2. Item(o, "LOOKUP").order = o
      BY DEF Item
    <3> QED
      BY <3>1, <3>2 DEF HasItem
  <2>5. u.looked[o] = "failed" => o \in failed
    BY <2>3 DEF Found
  <2>6. u.looked[o] # "failed" /\ ord[o].status = "REJECTED" => u.looked[o] \in Bets
    BY <2>1, <2>3 DEF GapIn, Bets, Found
  <2> QED
    BY <2>1, <2>2, <2>4, <2>5, <2>6
<1>10. Undisturbed(u, ord, op)
  <2> SUFFICES ASSUME t.quiet, failed = {} PROVE Undisturbed(u, ord, op)
    BY <1>3 DEF Undisturbed
  <2>1. KnowsOrders(t, ord)
    BY DEF Kept, Undisturbed
  <2>2. DOMAIN t.rows = Exist(ord) /\ \A o \in DOMAIN t.rows : ord[o].status = t.rows[o]
    BY <1>4, <2>1 DEF KnowsOrders
  <2>3. KnowsOrders(u, ord)
    BY <1>1, <1>4, <1>5, <2>2 DEF KnowsOrders
  <2>4. \A o \in asked : u.looked[o] = IF op[o] \in Found THEN op[o] ELSE "none"
    BY <1>2
  <2>5. \A o \in asked : o \notin u.todo => ord[o].status # "ACCEPTED"
    BY <1>3, <2>2
  <2>6. KnowsOperator(u, ord, op)
    BY <1>1, <1>6, <2>4, <2>5 DEF KnowsOperator
  <2>7. ItemsJustified(u, ord, op)
    BY <1>3 DEF ItemsJustified
  <2> QED
    BY <2>3, <2>6, <2>7 DEF Undisturbed
<1> QED
  BY <1>7, <1>8, <1>9, <1>10 DEF Kept

(* An undisturbed order is as it was read when its lookup is applied.      *)
LEMMA ResolvedQuietly ==
    ASSUME NEW r, NEW x, RowMatches(r, x), r.status \in {"UNKNOWN", "ACCEPTED"},
           NEW found, found = IF x \in Found THEN x ELSE "none"
    PROVE  /\ Resolved(r.status, found, r) # "NONE"
           /\ Resolved(r.status, found, r) = "ACCEPTED" => found = "placed"
           /\ r.status = "UNKNOWN" /\ found = "none" /\ r.age = 2
                  => Resolved(r.status, found, r) = "UNKNOWN"
<1>1. CASE r.status = "UNKNOWN" /\ found \in Bets
  <2>1. found # "none" /\ found # "refused"
    BY <1>1 DEF Bets
  <2>2. Resolved(r.status, found, r) =
            IF found = "other" THEN "RECONCILIATION_REQUIRED"
            ELSE IF found = "settled" THEN "SETTLED" ELSE "ACCEPTED"
    BY <1>1, <2>1 DEF Resolved
  <2> QED
    BY <1>1, <2>1, <2>2 DEF Bets
<1>2. CASE r.status = "UNKNOWN" /\ found \notin Bets
  <2>1. Resolved(r.status, found, r) =
            IF found = "refused" \/ (found = "none" /\ r.age = 1) THEN "REJECTED" ELSE "UNKNOWN"
    BY <1>2 DEF Resolved
  <2> QED
    BY <2>1
<1>3. CASE r.status = "ACCEPTED"
  <2>1. Resolved(r.status, found, r) = IF found = "settled" THEN "SETTLED" ELSE "ACCEPTED"
    BY <1>3 DEF Resolved
  <2>2. x \in {"placed", "settled"} /\ found = x
    BY <1>3 DEF RowMatches, Found
  <2> QED
    BY <1>3, <2>1, <2>2
<1> QED
  BY <1>1, <1>2, <1>3

LEMMA ResolveKept ==
    ASSUME NEW t, IsTick(t), NEW ord, NEW op, Matches(ord, op), Kept(t, ord, op), t.at = "resolve",
           NEW o \in t.todo, NEW r2, NEW old, NEW bad, NEW u, NEW ord2,
           r2 = IF Resolved(t.rows[o], t.looked[o], ord[o]) = ord[o].status THEN ord[o]
                ELSE [status |-> Resolved(t.rows[o], t.looked[o], ord[o]), age |-> 0],
           old = (t.rows[o] = "UNKNOWN" /\ t.looked[o] = "none" /\ ord[o].age = 2),
           bad = (t.rows[o] = "UNKNOWN" /\ t.looked[o] \in Bets
                  /\ Resolved(t.rows[o], t.looked[o], ord[o]) = "RECONCILIATION_REQUIRED"),
           ord2 = [ord EXCEPT ![o] = r2],
           u = [t EXCEPT !.todo = @ \ {o},
                         !.items = @ \cup (IF old \/ bad THEN {Item(o, "ORDER")} ELSE {})]
    PROVE  Matches(ord2, op) /\ Evolves(ord, op, ord2, op) /\ Kept(u, ord2, op)
<1> DEFINE new == IF old \/ bad THEN {Item(o, "ORDER")} ELSE {}
<1>1. /\ u.at = "resolve" /\ u.rows = t.rows /\ u.looked = t.looked /\ u.before = t.before
      /\ u.fresh = t.fresh /\ u.proofs = t.proofs /\ u.quiet = t.quiet
      /\ u.todo = t.todo \ {o} /\ u.items = t.items \cup new
  <2> HIDE DEF new
  <2>1. u = [t EXCEPT !.todo = @ \ {o}, !.items = @ \cup new]
    BY DEF new
  <2> QED
    BY <2>1 DEF IsTick, Fields
<1>2. t.at \in AfterRead /\ t.at \in AfterLookup /\ t.at \notin AfterResolve /\ t.at \notin AfterCompare
  BY DEF AfterRead, AfterLookup, AfterResolve, AfterCompare
<1>3. /\ Shaped(t) /\ LookedTrue(t, op) /\ GapsSeen(t, ord, op)
      /\ t.fresh = <<>> /\ t.proofs = <<>> /\ t.before \subseteq Orders
      /\ DOMAIN t.rows \subseteq Orders /\ DOMAIN t.looked \subseteq DOMAIN t.rows
      /\ t.todo \subseteq DOMAIN t.looked /\ t.rows[o] \in {"UNKNOWN", "ACCEPTED"}
  BY <1>2 DEF Kept, Shaped
<1>4. o \in Orders /\ RowMatches(ord[o], op[o])
  BY <1>3 DEF Matches, RowMatches
<1>5. t.looked[o] \in Found => Became(t.looked[o], op[o])
  BY <1>2, <1>3 DEF LookedTrue
<1>6. Leads(ord[o], op[o], r2)
  BY <1>4, <1>5, ResolvedLeads
<1>7. Matches(ord2, op) /\ Evolves(ord, op, ord2, op)
  BY <1>4, <1>6, OneRowMoves
<1>8. \A p \in Orders : ord2[p] = IF p = o THEN r2 ELSE ord[p]
  BY DEF Matches
<1>9. Shaped(u)
  BY <1>1, <1>2, <1>3 DEF Shaped
<1>10. LookedTrue(u, op)
  BY <1>1, <1>2, <1>3 DEF LookedTrue
<1>11. GapsSeen(u, ord2, op)
  <2>1. GapsSeen(t, ord2, op)
    BY <1>3, <1>7, GapsStaySeen DEF SameRun
  <2> HIDE DEF new
  <2>2. \A p : HasItem(t, p) => HasItem(u, p)
    BY <1>1 DEF HasItem
  <2> QED
    BY <1>1, <1>2, <2>1, <2>2 DEF GapsSeen
<1>12. Undisturbed(u, ord2, op)
  <2> SUFFICES ASSUME t.quiet PROVE KnowsOrders(u, ord2) /\ KnowsOperator(u, ord2, op) /\ ItemsJustified(u, ord2, op)
    BY <1>1 DEF Undisturbed
  <2>1. KnowsOrders(t, ord) /\ KnowsOperator(t, ord, op) /\ ItemsJustified(t, ord, op)
    BY DEF Kept, Undisturbed
  <2>2. ord[o].status = t.rows[o] /\ t.looked[o] = IF op[o] \in Found THEN op[o] ELSE "none"
    BY <1>2, <1>3, <2>1 DEF KnowsOrders, KnowsOperator
  <2> DEFINE is == Resolved(t.rows[o], t.looked[o], ord[o])
  <2>3. /\ is # "NONE" /\ (is = "ACCEPTED" => t.looked[o] = "placed")
        /\ old => is = "UNKNOWN"
    <3> DEFINE r == ord[o]
               f == t.looked[o]
               x == op[o]
               w == Resolved(r.status, f, r)
    <3>1. /\ RowMatches(r, x) /\ r.status \in {"UNKNOWN", "ACCEPTED"}
          /\ f = (IF x \in Found THEN x ELSE "none") /\ is = w
      BY <1>3, <1>4, <2>2
    <3>2. old => r.status = "UNKNOWN" /\ f = "none" /\ r.age = 2
      BY <2>2
    <3> HIDE DEF is, r, f, x
    <3>3. /\ w # "NONE" /\ (w = "ACCEPTED" => f = "placed")
          /\ r.status = "UNKNOWN" /\ f = "none" /\ r.age = 2 => w = "UNKNOWN"
      BY <3>1, ResolvedQuietly
    <3> HIDE DEF w
    <3> QED
      BY <3>1, <3>2, <3>3 DEF f
  <2>4. ord2[o] = (IF is = ord[o].status THEN ord[o] ELSE [status |-> is, age |-> 0])
        /\ ord2[o].status = is
    BY <1>4, <1>8
  <2> HIDE DEF is
  <2>5. Exist(ord2) = Exist(ord)
    <3>1. o \in Exist(ord)
      BY <1>2, <1>3, <2>1 DEF KnowsOrders
    <3> QED
      BY <1>8, <2>3, <2>4, <3>1 DEF Exist
  <2>6. KnowsOrders(u, ord2)
    <3>1. \A p \in DOMAIN t.rows : p \in u.todo \/ p \notin DOMAIN t.looked => ord2[p].status = t.rows[p]
      BY <1>1, <1>2, <1>3, <1>8, <2>1 DEF KnowsOrders
    <3>2. DOMAIN t.rows = Exist(ord2)
      BY <1>2, <2>1, <2>5 DEF KnowsOrders
    <3> QED
      BY <1>1, <1>3, <3>1, <3>2 DEF KnowsOrders
  <2>7. KnowsOperator(u, ord2, op)
    <3>1. \A p \in DOMAIN t.looked : p \notin u.todo /\ ord2[p].status = "ACCEPTED" => t.looked[p] = "placed"
      BY <1>1, <1>2, <1>3, <1>8, <2>1, <2>3, <2>4 DEF KnowsOperator
    <3> QED
      BY <1>1, <1>2, <2>1, <3>1 DEF KnowsOperator
  <2>8. ItemsJustified(u, ord2, op)
    <3>1. CASE old
      <4>1. ord2[o].status = "UNKNOWN" /\ ord2[o].age = 2
        BY <2>2, <2>3, <2>4, <3>1
      <4> QED
        BY <1>1, <1>4, <4>1 DEF ItemsJustified, Troubled
    <3>2. CASE bad
      <4>1. ord2[o].status = "RECONCILIATION_REQUIRED"
        BY <2>4, <3>2 DEF is
      <4> QED
        BY <1>1, <1>4, <4>1 DEF ItemsJustified, Troubled, GapIn
    <3>3. CASE ~ old /\ ~ bad
      <4>1. u.items = t.items
        BY <1>1, <3>3
      <4>2. t.items # {} => \E p \in Orders \ t.todo : Troubled(ord, op, p)
        BY <1>2, <2>1 DEF ItemsJustified
      <4>3. \A p \in Orders \ t.todo : Troubled(ord, op, p) => Troubled(ord2, op, p)
        BY <1>8 DEF Troubled, GapIn
      <4> QED
        BY <1>1, <4>1, <4>2, <4>3 DEF ItemsJustified
    <3> QED
      BY <3>1, <3>2, <3>3
  <2> QED
    BY <2>6, <2>7, <2>8
<1> QED
  BY <1>7, <1>9, <1>10, <1>11, <1>12 DEF Kept

(* Steps that leave what was read and found, and the items.                *)
LEMMA EndResolveKept ==
    ASSUME NEW t, IsTick(t), NEW ord, NEW op, Kept(t, ord, op), t.at = "resolve", t.todo = {}, NEW u,
           u = [t EXCEPT !.at = "again"]
    PROVE  Kept(u, ord, op)
<1>1. /\ u.at = "again" /\ u.rows = t.rows /\ u.looked = t.looked /\ u.before = t.before
      /\ u.fresh = t.fresh /\ u.proofs = t.proofs /\ u.quiet = t.quiet
      /\ u.todo = t.todo /\ u.items = t.items
  BY DEF IsTick, Fields
<1>2. /\ t.at \in AfterRead /\ t.at \in AfterLookup /\ t.at \notin AfterResolve
      /\ u.at \in AfterRead /\ u.at \in AfterLookup /\ u.at \in AfterResolve /\ u.at \notin AfterCompare
  BY <1>1 DEF AfterRead, AfterLookup, AfterResolve, AfterCompare
<1>3. t.fresh = <<>> /\ t.proofs = <<>>
  BY <1>2 DEF Kept, Shaped
<1>4. Shaped(u)
  BY <1>1, <1>2, <1>3 DEF Kept, Shaped
<1>5. LookedTrue(u, op) /\ GapsSeen(u, ord, op)
  BY <1>1, <1>2, <1>3 DEF Kept, LookedTrue, GapsSeen, HasItem
<1>6. Undisturbed(u, ord, op)
  BY <1>1, <1>2, <1>3 DEF Kept, Undisturbed, KnowsOrders, KnowsOperator, ItemsJustified
<1> QED
  BY <1>4, <1>5, <1>6 DEF Kept

LEMMA FreshKept ==
    ASSUME NEW t, IsTick(t), NEW ord, NEW op, Kept(t, ord, op), t.at = "again", NEW u,
           u = [t EXCEPT !.fresh = [o \in DOMAIN t.rows |-> ord[o].status]]
    PROVE  Kept(u, ord, op)
<1>1. /\ u.at = "again" /\ u.rows = t.rows /\ u.looked = t.looked /\ u.before = t.before
      /\ u.proofs = t.proofs /\ u.quiet = t.quiet /\ u.todo = t.todo /\ u.items = t.items
      /\ u.fresh = [o \in DOMAIN t.rows |-> ord[o].status]
  BY DEF IsTick, Fields
<1>2. t.at \in AfterRead /\ t.at \in AfterLookup /\ t.at \in AfterResolve /\ t.at \notin AfterCompare
  BY DEF AfterRead, AfterLookup, AfterResolve, AfterCompare
<1>3. Shaped(u)
  BY <1>1, <1>2 DEF Kept, Shaped
<1>4. LookedTrue(u, op)
  BY <1>1 DEF Kept, LookedTrue
<1>5. GapsSeen(u, ord, op)
  BY <1>1, <1>2 DEF Kept, GapsSeen, HasItem
<1>6. Undisturbed(u, ord, op)
  BY <1>1, <1>2 DEF Kept, Undisturbed, KnowsOrders, KnowsOperator, ItemsJustified
<1> QED
  BY <1>3, <1>4, <1>5, <1>6 DEF Kept

LEMMA ProofsKept ==
    ASSUME NEW t, IsTick(t), NEW ord, NEW op, Kept(t, ord, op), t.at = "again", NEW u,
           u = [t EXCEPT !.proofs = [o \in DOMAIN t.rows |-> ord[o].status]]
    PROVE  Kept(u, ord, op)
<1>1. /\ u.at = "again" /\ u.rows = t.rows /\ u.looked = t.looked /\ u.before = t.before
      /\ u.fresh = t.fresh /\ u.quiet = t.quiet /\ u.todo = t.todo /\ u.items = t.items
      /\ u.proofs = [o \in DOMAIN t.rows |-> ord[o].status]
  BY DEF IsTick, Fields
<1>2. t.at \in AfterRead /\ t.at \in AfterLookup /\ t.at \in AfterResolve /\ t.at \notin AfterCompare
  BY DEF AfterRead, AfterLookup, AfterResolve, AfterCompare
<1>3. Shaped(u)
  BY <1>1, <1>2 DEF Kept, Shaped
<1>4. LookedTrue(u, op)
  BY <1>1 DEF Kept, LookedTrue
<1>5. GapsSeen(u, ord, op)
  BY <1>1, <1>2 DEF Kept, GapsSeen, HasItem
<1>6. Undisturbed(u, ord, op)
  BY <1>1, <1>2 DEF Kept, Undisturbed, KnowsOrders, KnowsOperator, ItemsJustified
<1> QED
  BY <1>3, <1>4, <1>5, <1>6 DEF Kept

(* What the comparison of an order finds.                                  *)
LEMMA GapIsCompared ==
    ASSUME NEW o, NEW status, NEW found, NEW proof,
           status = "RECONCILIATION_REQUIRED" \/ (status = "REJECTED" /\ found \in Bets)
    PROVE  \E item \in CompareOrder(o, status, found, proof) : item.order = o
<1>1. Item(o, "ORDER") \in CompareOrder(o, status, found, proof)
  BY DEF CompareOrder
<1>2. Item(o, "ORDER").order = o
  BY DEF Item
<1> QED
  BY <1>1, <1>2

LEMMA OnlyGapsAreCompared ==
    ASSUME NEW o, NEW status, NEW x, NEW found, found = "none" \/ found = x,
           status \in {"ACCEPTED", "SETTLED"} => found \in {"placed", "settled"},
           status = "SETTLED" => found = "settled",
           CompareOrder(o, status, found, status) # {}
    PROVE  status = "RECONCILIATION_REQUIRED" \/ (status = "REJECTED" /\ x \in Bets)
<1> DEFINE sure == status \in {"ACCEPTED", "SETTLED"}
           gaps == [ORDER      |-> \/ sure /\ found \notin {"placed", "settled"}
                                   \/ status = "REJECTED" /\ found \in Bets
                                   \/ status = "RECONCILIATION_REQUIRED",
                    RECEIPT    |-> sure /\ status \notin {"ACCEPTED", "SETTLED"},
                    LEDGER     |-> \/ status = "SETTLED" /\ status # "SETTLED"
                                   \/ status = "REJECTED" /\ status # "REJECTED",
                    SETTLEMENT |-> status = "SETTLED" /\ found \in {"placed", "other", "refused"}]
<1>1. CompareOrder(o, status, found, status) = {Item(o, type) : type \in {t \in DOMAIN gaps : gaps[t]}}
  BY DEF CompareOrder
<1>2. /\ DOMAIN gaps = {"ORDER", "RECEIPT", "LEDGER", "SETTLEMENT"}
      /\ ~ gaps["RECEIPT"] /\ ~ gaps["LEDGER"] /\ ~ gaps["SETTLEMENT"]
      /\ gaps["ORDER"] => \/ status = "REJECTED" /\ found \in Bets
                          \/ status = "RECONCILIATION_REQUIRED"
  OBVIOUS
<1> HIDE DEF gaps
<1>3. PICK t \in DOMAIN gaps : gaps[t]
  BY <1>1
<1>4. gaps["ORDER"]
  BY <1>2, <1>3
<1> QED
  BY <1>2, <1>4 DEF Bets

LEMMA CompareKept ==
    ASSUME NEW t, IsTick(t), NEW ord, NEW op, Matches(ord, op), Kept(t, ord, op), t.at = "again",
           t.fresh # <<>>, t.proofs # <<>>, NEW compared, NEW u,
           compared = {o \in DOMAIN t.fresh : t.fresh[o] # "UNKNOWN" /\ FoundFor(t, o) # "failed"},
           u = [t EXCEPT !.at = "account",
                         !.items = @ \cup UNION {CompareOrder(o, t.fresh[o], FoundFor(t, o), t.proofs[o])
                                                   : o \in compared}]
    PROVE  Kept(u, ord, op)
<1> DEFINE new == UNION {CompareOrder(o, t.fresh[o], FoundFor(t, o), t.proofs[o]) : o \in compared}
<1>1. /\ u.at = "account" /\ u.rows = t.rows /\ u.looked = t.looked /\ u.before = t.before
      /\ u.fresh = t.fresh /\ u.proofs = t.proofs /\ u.quiet = t.quiet /\ u.todo = t.todo
      /\ u.items = t.items \cup new
  <2> HIDE DEF new
  <2>1. u = [t EXCEPT !.at = "account", !.items = @ \cup new]
    BY DEF new
  <2> QED
    BY <2>1 DEF IsTick, Fields
<1>2. /\ t.at \in AfterRead /\ t.at \in AfterLookup /\ t.at \in AfterResolve
      /\ u.at \in AfterRead /\ u.at \in AfterLookup /\ u.at \in AfterResolve /\ u.at \in AfterCompare
      /\ u.at # "balance" /\ u.at # "lookup"
  BY <1>1 DEF AfterRead, AfterLookup, AfterResolve, AfterCompare
<1>3. /\ Shaped(t) /\ LookedTrue(t, op) /\ GapsSeen(t, ord, op)
      /\ t.todo = {} /\ DOMAIN t.fresh = DOMAIN t.rows /\ DOMAIN t.rows \subseteq Orders
      /\ DOMAIN t.looked \subseteq DOMAIN t.rows
  BY <1>2 DEF Kept, Shaped
<1>4. Shaped(u) /\ LookedTrue(u, op)
  BY <1>1, <1>2, <1>3 DEF Shaped, LookedTrue
<1>5. ASSUME NEW o \in compared
      PROVE  CompareOrder(o, t.fresh[o], FoundFor(t, o), t.proofs[o]) \subseteq new
  BY <1>5
<1>6. GapsSeen(u, ord, op)
  <2> SUFFICES ASSUME NEW o \in t.before PROVE HasItem(u, o)
    BY <1>1, <1>2, <1>3 DEF GapsSeen, HasItem
  <2>1. /\ GapIn(ord, op, o) /\ o \in DOMAIN t.rows /\ o \in DOMAIN t.looked
        /\ t.fresh[o] = ord[o].status
        /\ t.looked[o] = "failed" => HasItem(t, o)
        /\ t.looked[o] # "failed" /\ ord[o].status = "REJECTED" => t.looked[o] \in Bets
    BY <1>2, <1>3 DEF GapsSeen
  <2>2. FoundFor(t, o) = t.looked[o]
    BY <2>1 DEF FoundFor
  <2>3. CASE t.looked[o] = "failed"
    <3> HIDE DEF new
    <3> QED
      BY <1>1, <2>1, <2>3 DEF HasItem
  <2>4. CASE t.looked[o] # "failed"
    <3>1. o \in compared
      BY <1>3, <2>1, <2>2, <2>4 DEF GapIn
    <3>2. \E item \in CompareOrder(o, t.fresh[o], FoundFor(t, o), t.proofs[o]) : item.order = o
      BY <2>1, <2>2, <2>4, GapIsCompared DEF GapIn
    <3>3. CompareOrder(o, t.fresh[o], FoundFor(t, o), t.proofs[o]) \subseteq new
      BY <1>5, <3>1
    <3> HIDE DEF new
    <3> QED
      BY <1>1, <3>2, <3>3 DEF HasItem
  <2> QED
    BY <2>3, <2>4
<1>7. Undisturbed(u, ord, op)
  <2> SUFFICES ASSUME t.quiet PROVE KnowsOrders(u, ord) /\ KnowsOperator(u, ord, op) /\ ItemsJustified(u, ord, op)
    BY <1>1 DEF Undisturbed
  <2>1. KnowsOrders(t, ord) /\ KnowsOperator(t, ord, op) /\ ItemsJustified(t, ord, op)
    BY DEF Kept, Undisturbed
  <2>2. KnowsOrders(u, ord) /\ KnowsOperator(u, ord, op)
    BY <1>1, <1>2, <2>1 DEF KnowsOrders, KnowsOperator
  <2>3. ASSUME NEW o \in compared, CompareOrder(o, t.fresh[o], FoundFor(t, o), t.proofs[o]) # {}
        PROVE  o \in Orders /\ GapIn(ord, op, o)
    <3> DEFINE s == ord[o].status
               f == FoundFor(t, o)
               x == op[o]
    <3>1. o \in DOMAIN t.rows /\ o \in Orders
      BY <1>3
    <3>2. t.fresh[o] = s /\ t.proofs[o] = s
      BY <1>3, <2>1, <3>1 DEF KnowsOrders
    <3>3. f = IF o \in DOMAIN t.looked /\ x \in Found THEN x ELSE "none"
      BY <1>2, <2>1 DEF FoundFor, KnowsOperator
    <3>4. s \in {"ACCEPTED", "SETTLED"} => x \in {"placed", "settled"}
      BY <3>1 DEF Matches
    <3>5. s = "SETTLED" => x = "settled"
      BY <3>1 DEF Matches
    <3>6. s \in {"ACCEPTED", "SETTLED"} => o \in DOMAIN t.looked
      <4>1. o \notin DOMAIN t.looked => t.rows[o] = s /\ s \notin LookedUp
        BY <1>2, <2>1, <3>1 DEF KnowsOrders, KnowsOperator
      <4> QED
        BY <4>1 DEF LookedUp
    <3>7. CompareOrder(o, s, f, s) # {}
      BY <2>3, <3>2
    <3>a. GapIn(ord, op, o) <=> s = "RECONCILIATION_REQUIRED" \/ (s = "REJECTED" /\ x \in Bets)
      BY DEF GapIn
    <3> HIDE DEF s, f, x
    <3>8. f = "none" \/ f = x
      BY <3>3
    <3>9. /\ s \in {"ACCEPTED", "SETTLED"} => f \in {"placed", "settled"}
          /\ s = "SETTLED" => f = "settled"
      BY <3>3, <3>4, <3>5, <3>6 DEF Found
    <3> QED
      BY <3>1, <3>7, <3>8, <3>9, <3>a, OnlyGapsAreCompared
  <2>4. ItemsJustified(u, ord, op)
    <3> SUFFICES ASSUME u.items # {} PROVE \E p \in Orders \ u.todo : Troubled(ord, op, p)
      BY DEF ItemsJustified
    <3>1. CASE t.items # {}
      BY <1>1, <1>2, <2>1, <3>1 DEF ItemsJustified
    <3>2. CASE new # {}
      <4>1. PICK o \in compared : CompareOrder(o, t.fresh[o], FoundFor(t, o), t.proofs[o]) # {}
        BY <3>2
      <4>2. o \in Orders /\ GapIn(ord, op, o)
        BY <2>3, <4>1
      <4> QED
        BY <1>1, <1>3, <4>2 DEF Troubled
    <3> HIDE DEF new
    <3> QED
      BY <1>1, <3>1, <3>2
  <2> QED
    BY <2>2, <2>4
<1> QED
  BY <1>4, <1>6, <1>7 DEF Kept

(* The last steps only add items.                                          *)
LEMMA LastStepKept ==
    ASSUME NEW t, IsTick(t), NEW ord, NEW op, Kept(t, ord, op), t.at \in AfterCompare,
           NEW at \in AfterCompare, NEW new, NEW books, NEW quiet, NEW u,
           u = [t EXCEPT !.at = at, !.books = books, !.items = @ \cup new, !.quiet = quiet],
           quiet => t.quiet, at = "balance" => books = BooksOf(ord),
           quiet /\ new # {} => \E o \in Orders : Troubled(ord, op, o)
    PROVE  Kept(u, ord, op)
<1>1. /\ u.at = at /\ u.rows = t.rows /\ u.looked = t.looked /\ u.before = t.before
      /\ u.fresh = t.fresh /\ u.proofs = t.proofs /\ u.todo = t.todo /\ u.items = t.items \cup new
  BY DEF IsTick, Fields
<1>2. u.quiet = quiet /\ u.books = books
  BY DEF IsTick, Fields
<1>3. /\ t.at \in AfterRead /\ t.at \in AfterLookup /\ t.at \in AfterResolve
      /\ at \in AfterRead /\ at \in AfterLookup /\ at \in AfterResolve
      /\ at # "lookup"
  BY DEF AfterRead, AfterLookup, AfterResolve, AfterCompare
<1>4. /\ Shaped(t) /\ LookedTrue(t, op) /\ GapsSeen(t, ord, op) /\ t.todo = {} /\ t.fresh # <<>>
  BY <1>3 DEF Kept, Shaped
<1>5. Shaped(u) /\ LookedTrue(u, op)
  BY <1>1, <1>3, <1>4 DEF Shaped, LookedTrue
<1>6. GapsSeen(u, ord, op)
  BY <1>1, <1>3, <1>4 DEF GapsSeen, HasItem
<1>7. Undisturbed(u, ord, op)
  <2> SUFFICES ASSUME quiet PROVE KnowsOrders(u, ord) /\ KnowsOperator(u, ord, op) /\ ItemsJustified(u, ord, op)
    BY <1>2 DEF Undisturbed
  <2>1. KnowsOrders(t, ord) /\ KnowsOperator(t, ord, op) /\ ItemsJustified(t, ord, op)
    BY DEF Kept, Undisturbed
  <2>2. KnowsOrders(u, ord)
    BY <1>1, <1>2, <1>3, <2>1 DEF KnowsOrders
  <2>3. KnowsOperator(u, ord, op)
    BY <1>1, <1>3, <2>1 DEF KnowsOperator
  <2>4. ItemsJustified(u, ord, op)
    BY <1>1, <1>3, <1>4, <2>1 DEF ItemsJustified
  <2> QED
    BY <2>2, <2>3, <2>4
<1> QED
  BY <1>5, <1>6, <1>7 DEF Kept

(* With no trouble the balances agree.                                     *)
LEMMA BalancesAgree ==
    ASSUME NEW t, NEW ord, NEW op, Matches(ord, op), Kept(t, ord, op), t.at = "balance", t.quiet,
           \A o \in DOMAIN t.fresh : ~ Ambiguous(t.fresh[o]),
           \A o \in Orders : ~ Troubled(ord, op, o)
    PROVE  t.books = BooksAt(op)
<1>1. t.at \in AfterRead /\ t.at \in AfterLookup /\ t.at \in AfterResolve /\ t.at \in AfterCompare
  BY DEF AfterRead, AfterLookup, AfterResolve, AfterCompare
<1>2. KnowsOrders(t, ord) /\ KnowsOperator(t, ord, op) /\ Shaped(t)
  BY DEF Kept, Undisturbed
<1>3. /\ t.books = BooksOf(ord) /\ DOMAIN t.rows = Exist(ord) /\ DOMAIN t.fresh = DOMAIN t.rows
      /\ t.todo = {} /\ \A o \in DOMAIN t.rows : t.fresh[o] = ord[o].status
  BY <1>1, <1>2 DEF KnowsOrders, Shaped
<1>4. ASSUME NEW o \in Orders
      PROVE  /\ ord[o].status \in Open <=> op[o] \in {"placed", "other"}
             /\ ord[o].status = "SETTLED" <=> op[o] = "settled"
  <2>0. ord[o].status \in Statuses /\ RowMatches(ord[o], op[o])
    BY DEF Matches, RowMatches, OrderRows
  <2>1. CASE ord[o].status = "NONE"
    BY <2>0, <2>1 DEF RowMatches, Open
  <2>2. CASE ord[o].status \in {"RESERVED", "SUBMITTING", "UNKNOWN"}
    <3>1. o \in DOMAIN t.rows
      BY <1>3, <2>2 DEF Exist
    <3>2. Ambiguous(t.fresh[o])
      BY <1>3, <2>2, <3>1 DEF Ambiguous
    <3> QED
      BY <1>3, <3>1, <3>2
  <2>3. CASE ord[o].status = "ACCEPTED"
    <3>1. o \in DOMAIN t.rows
      BY <1>3, <2>3 DEF Exist
    <3>2. o \in DOMAIN t.looked
      <4>1. o \notin DOMAIN t.looked => t.rows[o] = "ACCEPTED" /\ t.rows[o] \notin LookedUp
        BY <1>1, <1>2, <2>3, <3>1 DEF KnowsOrders, KnowsOperator
      <4> QED
        BY <4>1 DEF LookedUp
    <3>3. t.looked[o] = "placed" /\ t.looked[o] = IF op[o] \in Found THEN op[o] ELSE "none"
      BY <1>1, <1>2, <1>3, <2>3, <3>2 DEF KnowsOperator
    <3>4. op[o] = "placed"
      BY <3>3
    <3> QED
      BY <2>3, <3>4 DEF Open
  <2>4. CASE ord[o].status = "SETTLED"
    BY <2>0, <2>4 DEF RowMatches, Open
  <2>5. CASE ord[o].status = "REJECTED"
    <3>1. op[o] \notin Bets
      BY <2>5 DEF Troubled, GapIn
    <3> QED
      BY <2>5, <3>1 DEF Bets, Open
  <2>6. CASE ord[o].status = "RECONCILIATION_REQUIRED"
    BY <2>6 DEF Troubled, GapIn
  <2> QED
    BY <2>0, <2>1, <2>2, <2>3, <2>4, <2>5, <2>6 DEF Statuses
<1>5. /\ {o \in Orders : ord[o].status \in Open} = {o \in Orders : op[o] \in {"placed", "other"}}
      /\ {o \in Orders : ord[o].status = "SETTLED"} = {o \in Orders : op[o] = "settled"}
  BY <1>4
<1> QED
  BY <1>3, <1>5 DEF BooksOf, BooksAt

-----------------------------------------------------------------------------
(* The invariant *)

(* A step of the pipeline or the operator disturbs the runs.               *)
LEMMA DisturbingStep ==
    ASSUME RecInv, tick' = Disturbed, Matches(order', operator'),
           Evolves(order, operator, order', operator')
    PROVE  RecInv'
<1>1. ASSUME NEW i \in Instances
      PROVE  /\ IsTick(tick'[i]) /\ SameRun(tick[i], tick'[i]) /\ tick'[i].quiet = FALSE
             /\ tick'[i].at = tick[i].at
  <2>1. tick'[i] = [tick[i] EXCEPT !.quiet = FALSE] /\ IsTick(tick[i])
    BY DEF RecInv, Disturbed
  <2> DEFINE t == tick[i]
             u == tick'[i]
  <2>2. u = [t EXCEPT !.quiet = FALSE] /\ IsTick(t)
    BY <2>1
  <2> HIDE DEF t, u
  <2>3. IsTick(u) /\ SameRun(t, u) /\ u.quiet = FALSE /\ u.at = t.at
    BY <2>2 DEF IsTick, Fields, SameRun
  <2> QED
    BY <2>3 DEF t, u
<1>2. ASSUME NEW i \in Instances
      PROVE  Kept(tick'[i], order', operator')
  <2>1. /\ Shaped(tick[i]) /\ LookedTrue(tick[i], operator) /\ GapsSeen(tick[i], order, operator)
    BY DEF RecInv, Kept
  <2>2. /\ Shaped(tick'[i]) /\ LookedTrue(tick'[i], operator')
        /\ GapsSeen(tick'[i], order', operator')
    BY <1>1, <2>1, GapsStaySeen
  <2>3. Undisturbed(tick'[i], order', operator')
    BY <1>1 DEF Undisturbed
  <2> QED
    BY <2>2, <2>3 DEF Kept
<1>3. tick' = [i \in Instances |-> tick'[i]]
  BY DEF Disturbed
<1>4. OneAtATime'
  BY <1>1 DEF RecInv, OneAtATime, At
<1> QED
  BY <1>1, <1>2, <1>3, <1>4 DEF RecInv

(* A step that no run notices.                                             *)
LEMMA UnnoticedStep ==
    ASSUME RecInv, Matches(order', operator'), Calm(order, operator, order', operator'),
           tick' = [i \in Instances |-> tick'[i]],
           \A i \in Instances : /\ IsTick(tick'[i]) /\ SameRun(tick[i], tick'[i])
                                /\ tick'[i].quiet = tick[i].quiet
    PROVE  RecInv'
<1>1. Evolves(order, operator, order', operator')
  BY DEF Calm, Evolves, GapIn, Became
<1>2. ASSUME NEW i \in Instances
      PROVE  Kept(tick'[i], order', operator')
  <2>1. Kept(tick[i], order, operator) /\ Shaped(tick[i]) /\ LookedTrue(tick[i], operator)
        /\ GapsSeen(tick[i], order, operator) /\ Undisturbed(tick[i], order, operator)
    BY DEF RecInv, Kept
  <2>2. /\ Shaped(tick'[i]) /\ LookedTrue(tick'[i], operator')
        /\ GapsSeen(tick'[i], order', operator')
    BY <1>1, <2>1, GapsStaySeen
  <2>3. Undisturbed(tick'[i], order', operator')
    BY <2>1, CalmKeeps
  <2> QED
    BY <2>2, <2>3 DEF Kept
<1>3. OneAtATime'
  BY DEF RecInv, OneAtATime, At, SameRun
<1> QED
  BY <1>2, <1>3 DEF RecInv

(* A step of one instance while the others are idle.                       *)
LEMMA OwnStep ==
    ASSUME RecInv, NEW i \in Instances, \A j \in Instances : j # i => At(j, "idle"),
           tick' = [tick EXCEPT ![i] = tick'[i]],
           Matches(order', operator'), Evolves(order, operator, order', operator'),
           IsTick(tick'[i]), Kept(tick'[i], order', operator')
    PROVE  RecInv'
<1>1. \A j \in Instances : j # i => tick'[j] = tick[j]
  BY DEF RecInv
<1>2. tick' = [j \in Instances |-> tick'[j]]
  BY DEF RecInv
<1>3. ASSUME NEW j \in Instances, j # i
      PROVE  IsTick(tick'[j]) /\ Kept(tick'[j], order', operator') /\ tick'[j].at = "idle"
  <2>1. tick'[j] = tick[j] /\ tick[j].at = "idle" /\ IsTick(tick[j]) /\ Kept(tick[j], order, operator)
    BY <1>1, <1>3 DEF RecInv, At
  <2>2. Shaped(tick[j]) /\ LookedTrue(tick[j], operator) /\ GapsSeen(tick[j], order, operator)
    BY <2>1 DEF Kept
  <2>3. SameRun(tick[j], tick[j])
    BY DEF SameRun
  <2>4. LookedTrue(tick[j], operator') /\ GapsSeen(tick[j], order', operator')
    BY <2>2, <2>3, GapsStaySeen
  <2>5. Undisturbed(tick[j], order', operator')
    <3>1. tick[j].at \notin AfterRead
      BY <2>1 DEF AfterRead, AfterLookup, AfterResolve, AfterCompare
    <3> QED
      BY <2>2, <3>1, EarlyKnows
  <2> QED
    BY <2>1, <2>2, <2>4, <2>5 DEF Kept
<1>4. \A j \in Instances : IsTick(tick'[j]) /\ Kept(tick'[j], order', operator')
  BY <1>3
<1>5. OneAtATime'
  BY <1>3 DEF OneAtATime, At
<1> QED
  BY <1>2, <1>4, <1>5 DEF RecInv

(* The same, when orders and operator stay as they are.                    *)
LEMMA NothingEvolves ==
    ASSUME RecInv, UNCHANGED <<order, operator>>
    PROVE  Matches(order', operator') /\ Evolves(order, operator, order', operator')
BY DEF RecInv, Evolves, Became

LEMMA OthersIdle ==
    ASSUME RecInv, NEW i \in Instances, ~ At(i, "idle")
    PROVE  \A j \in Instances : j # i => At(j, "idle")
BY DEF RecInv, OneAtATime

LEMMA QuietStep ==
    ASSUME RecInv, NEW i \in Instances, ~ At(i, "idle"), UNCHANGED <<order, operator>>,
           NEW u, Goes(i, u), IsTick(u), Kept(u, order, operator)
    PROVE  RecInv'
<1>1. tick' = [tick EXCEPT ![i] = u] /\ tick'[i] = u
  BY DEF Goes, RecInv
<1>2. Kept(tick'[i], order', operator')
  BY <1>1
<1> QED
  BY <1>1, <1>2, OwnStep, NothingEvolves, OthersIdle

LEMMA RestStep ==
    ASSUME RecInv, NEW i \in Instances, ~ At(i, "idle"), UNCHANGED <<order, operator>>,
           NEW u, IsRest(u), Goes(i, u)
    PROVE  RecInv'
<1>1. IsTick(u) /\ Kept(u, order, operator)
  BY RestKept DEF IsRest
<1> QED
  BY <1>1, QuietStep

LEMMA RestsAreEarly ==
    \A at \in {"idle", "open", "lateness", "failed", "stop", "unlock"} : at \notin AfterRead
BY DEF AfterRead, AfterLookup, AfterResolve, AfterCompare

LEMMA RestingAt ==
    ASSUME NEW at \in {"idle", "open", "lateness", "failed", "stop", "unlock"}
    PROVE  /\ IsRest([Idle EXCEPT !.at = at])
           /\ \A late : IsRest([Idle EXCEPT !.at = at, !.late = late])
           /\ \A i : IsRest(Left(i, at))
<1>1. ASSUME NEW late PROVE IsRest([Idle EXCEPT !.at = at, !.late = late])
  <2> DEFINE u == [Idle EXCEPT !.at = at, !.late = late]
  <2>1. IsTick(u)
    BY DEF Idle, IsTick, Fields
  <2>2. u.at = at /\ u.before = {} /\ u.fresh = <<>> /\ u.proofs = <<>>
    BY DEF Idle
  <2> HIDE DEF u
  <2>3. IsRest(u)
    BY <2>1, <2>2, RestsAreEarly DEF IsRest
  <2> QED
    BY <2>3 DEF u
<1>2. IsRest([Idle EXCEPT !.at = at])
  <2> DEFINE u == [Idle EXCEPT !.at = at]
  <2>1. IsTick(u)
    BY DEF Idle, IsTick, Fields
  <2>2. u.at = at /\ u.before = {} /\ u.fresh = <<>> /\ u.proofs = <<>>
    BY DEF Idle
  <2> HIDE DEF u
  <2>3. IsRest(u)
    BY <2>1, <2>2, RestsAreEarly DEF IsRest
  <2> QED
    BY <2>3 DEF u
<1>3. ASSUME NEW i PROVE IsRest(Left(i, at))
  <2> DEFINE late == tick[i].late
  <2>1. Left(i, at) = [Idle EXCEPT !.at = at, !.late = late]
    BY DEF Left
  <2> HIDE DEF late
  <2> QED
    BY <1>1, <2>1
<1> QED
  BY <1>1, <1>2, <1>3

LEMMA IdleRests == IsRest(Idle) /\ Idle.at = "idle"
<1>1. IsTick(Idle)
  BY DEF Idle, IsTick, Fields
<1>2. Idle.at = "idle" /\ Idle.before = {} /\ Idle.fresh = <<>> /\ Idle.proofs = <<>>
  BY DEF Idle
<1> QED
  BY <1>1, <1>2, RestsAreEarly DEF IsRest

LEMMA InitHolds == Init => RecInv
<1> SUFFICES ASSUME Init PROVE RecInv
  OBVIOUS
<1>1. Matches(order, operator)
  BY DEF Init, Matches, OrderRows, Statuses, AtOperator
<1>2. IsTick(Idle) /\ Kept(Idle, order, operator) /\ Idle.at = "idle"
  BY IdleRests, RestKept DEF IsRest
<1>3. tick = [i \in Instances |-> Idle]
  BY DEF Init
<1> QED
  BY <1>1, <1>2, <1>3 DEF RecInv, OneAtATime, At

(* The pipeline, one order at a time.                                      *)
LEMMA MoveHolds ==
    ASSUME RecInv, NEW o \in Orders, NEW from, NEW to, Move(o, from, to), UNCHANGED operator,
           RowMatches(order[o], operator[o]) => Leads(order[o], operator[o], [status |-> to, age |-> 0])
    PROVE  RecInv'
<1> DEFINE r2 == [status |-> to, age |-> 0]
<1>1. order' = [order EXCEPT ![o] = r2] /\ tick' = Disturbed
  BY DEF Move
<1>2. Matches(order, operator) /\ (RowMatches(order[o], operator[o]) => Leads(order[o], operator[o], r2))
  BY DEF RecInv
<1> HIDE DEF r2
<1>3. Matches(order', operator') /\ Evolves(order, operator, order', operator')
  BY <1>1, <1>2, OneRowMoves
<1> QED
  BY <1>1, <1>3, DisturbingStep

LEMMA PipelineHolds ==
    ASSUME RecInv, NEW o \in Orders, Pipeline(o)
    PROVE  RecInv'
<1>0. Matches(order, operator) /\ RowMatches(order[o], operator[o])
  BY DEF RecInv, Matches, RowMatches
<1>1. CASE Reserve(o)
  <2>1. Move(o, {"NONE"}, "RESERVED") /\ UNCHANGED operator /\ Status(o) = "NONE"
    BY <1>1 DEF Reserve, Move
  <2>2. Leads(order[o], operator[o], [status |-> "RESERVED", age |-> 0])
    BY <1>0, <2>1 DEF Leads, RowMatches, OrderRows, Statuses, Status
  <2> QED
    BY <2>1, <2>2, MoveHolds
<1>2. CASE Submit(o)
  <2>1. Move(o, {"RESERVED"}, "SUBMITTING") /\ UNCHANGED operator /\ Status(o) = "RESERVED"
    BY <1>2 DEF Submit, Move
  <2>2. Leads(order[o], operator[o], [status |-> "SUBMITTING", age |-> 0])
    BY <1>0, <2>1 DEF Leads, RowMatches, OrderRows, Statuses, Status
  <2> QED
    BY <2>1, <2>2, MoveHolds
<1>3. CASE Send(o)
  <2>1. /\ order[o].status = "SUBMITTING" /\ operator[o] = "none"
        /\ operator' = [operator EXCEPT ![o] = "flying"] /\ order' = order /\ tick' = Disturbed
    BY <1>3 DEF Send, Status
  <2>2. "flying" \in AtOperator /\ operator[o] \notin Found
    BY <2>1 DEF AtOperator, Found
  <2> DEFINE x2 == "flying"
             op2 == [operator EXCEPT ![o] = x2]
  <2>3. x2 \in AtOperator /\ operator' = op2 /\ order' = order /\ tick' = Disturbed
    BY <2>1, <2>2
  <2>4. order[o].status \notin {"NONE", "RESERVED"}
    BY <2>1
  <2>5. operator[o] \notin Found
    BY <2>2
  <2> HIDE DEF x2
  <2>6. Matches(order, op2) /\ Evolves(order, operator, order, op2)
    BY <1>0, <2>3, <2>4, <2>5, OneRecordMoves
  <2> HIDE DEF op2
  <2>7. Matches(order', operator') /\ Evolves(order, operator, order', operator')
    BY <2>3, <2>6
  <2> QED
    BY <2>3, <2>7, DisturbingStep
<1>4. CASE Accept(o)
  <2>1. /\ Move(o, {"SUBMITTING", "UNKNOWN"}, "ACCEPTED") /\ UNCHANGED operator
        /\ Status(o) \in {"SUBMITTING", "UNKNOWN"} /\ operator[o] = "placed"
    BY <1>4 DEF Accept, Move
  <2>2. Leads(order[o], operator[o], [status |-> "ACCEPTED", age |-> 0])
    BY <1>0, <2>1 DEF Leads, RowMatches, OrderRows, Statuses, Status
  <2> QED
    BY <2>1, <2>2, MoveHolds
<1>5. CASE Violate(o)
  <2>1. /\ Move(o, {"SUBMITTING", "UNKNOWN"}, "RECONCILIATION_REQUIRED") /\ UNCHANGED operator
        /\ Status(o) \in {"SUBMITTING", "UNKNOWN"}
    BY <1>5 DEF Violate, Move
  <2>2. Leads(order[o], operator[o], [status |-> "RECONCILIATION_REQUIRED", age |-> 0])
    BY <1>0, <2>1 DEF Leads, RowMatches, OrderRows, Statuses, Status
  <2> QED
    BY <2>1, <2>2, MoveHolds
<1>6. CASE GetRefusal(o)
  <2>1. /\ Move(o, {"SUBMITTING"}, "REJECTED") /\ UNCHANGED operator /\ Status(o) = "SUBMITTING"
    BY <1>6 DEF GetRefusal, Move
  <2>2. Leads(order[o], operator[o], [status |-> "REJECTED", age |-> 0])
    BY <1>0, <2>1 DEF Leads, RowMatches, OrderRows, Statuses, Status
  <2> QED
    BY <2>1, <2>2, MoveHolds
<1>7. CASE TimeOut(o)
  <2>1. /\ Move(o, {"SUBMITTING"}, "UNKNOWN") /\ UNCHANGED operator /\ Status(o) = "SUBMITTING"
    BY <1>7 DEF TimeOut, Move
  <2>2. Leads(order[o], operator[o], [status |-> "UNKNOWN", age |-> 0])
    BY <1>0, <2>1 DEF Leads, RowMatches, OrderRows, Statuses, Status
  <2> QED
    BY <2>1, <2>2, MoveHolds
<1>8. CASE Withdraw(o)
  <2>1. /\ Move(o, {"RESERVED", "SUBMITTING"}, "REJECTED") /\ UNCHANGED operator
        /\ Status(o) \in {"RESERVED", "SUBMITTING"}
    BY <1>8 DEF Withdraw, Move
  <2>2. Leads(order[o], operator[o], [status |-> "REJECTED", age |-> 0])
    BY <1>0, <2>1 DEF Leads, RowMatches, OrderRows, Statuses, Status
  <2> QED
    BY <2>1, <2>2, MoveHolds
<1>9. CASE Operate(o)
  <2>1. order' = order /\ tick' = Disturbed
    BY <1>9 DEF Operate
  <2>2. PICK x2 \in AtOperator : /\ operator' = [operator EXCEPT ![o] = x2]
                                 /\ \/ operator[o] = "flying"
                                    \/ operator[o] = "placed" /\ x2 = "settled"
    BY <1>9 DEF Operate, AtOperator
  <2>3. /\ order[o].status \notin {"NONE", "RESERVED"}
        /\ operator[o] \notin Found \/ (operator[o] = "placed" /\ x2 = "settled")
    BY <1>0, <2>2 DEF RowMatches, Found
  <2>4. Matches(order', operator') /\ Evolves(order, operator, order', operator')
    BY <1>0, <2>1, <2>2, <2>3, OneRecordMoves
  <2> QED
    BY <2>1, <2>4, DisturbingStep
<1>10. CASE Age(o)
  <2>1. /\ order[o].status \in {"RESERVED", "SUBMITTING", "UNKNOWN"}
        /\ order[o].age < (IF order[o].status = "UNKNOWN" THEN 2 ELSE 1)
        /\ order' = [order EXCEPT ![o].age = @ + 1] /\ UNCHANGED <<operator, tick>>
    BY <1>10 DEF Age, Status
  <2>2. order \in [Orders -> OrderRows] /\ order[o] \in OrderRows
    BY <1>0 DEF Matches
  <2>3. /\ order' \in [Orders -> OrderRows]
        /\ \A p \in Orders : order'[p].status = order[p].status /\ (p # o => order'[p] = order[p])
    BY <2>1, <2>2 DEF OrderRows
  <2>4. Matches(order', operator')
    BY <1>0, <2>1, <2>3 DEF Matches
  <2>5. Calm(order, operator, order', operator')
    BY <2>1, <2>3 DEF Calm
  <2> QED
    BY <2>1, <2>4, <2>5, UnnoticedStep DEF RecInv, SameRun
<1> QED
  BY <1>1, <1>2, <1>3, <1>4, <1>5, <1>6, <1>7, <1>8, <1>9, <1>10 DEF Pipeline

(* The run of an instance.                                                 *)
LEMMA RunHolds ==
    ASSUME RecInv, NEW i \in Instances, Run(i)
    PROVE  RecInv'
<1> DEFINE t == tick[i]
<1>0. IsTick(t) /\ Kept(t, order, operator) /\ Shaped(t) /\ Matches(order, operator)
  BY DEF RecInv, Kept
<1>1. CASE OpenRun(i)
  <2>1. t.at = "open" /\ ~ At(i, "idle") /\ UNCHANGED <<order, operator>>
    BY <1>1 DEF OpenRun, At
  <2> DEFINE u == [t EXCEPT !.at = "recover", !.quiet = TRUE, !.before = {o \in Orders : Gap(o)}]
  <2>2. CASE Goes(i, u)
    <3>1. {o \in Orders : Gap(o)} = {o \in Orders : GapIn(order, operator, o)}
      BY DEF Gap, GapIn, Status
    <3>2. IsTick(u)
      BY <1>0 DEF IsTick
    <3>3. Kept(u, order, operator)
      <4>1. u = [t EXCEPT !.at = "recover", !.quiet = TRUE,
                          !.before = {o \in Orders : GapIn(order, operator, o)}]
        BY <3>1
      <4> HIDE DEF u, t
      <4> QED
        BY <1>0, <2>1, <4>1, OpenKept
    <3> HIDE DEF u
    <3> QED
      BY <2>1, <2>2, <3>2, <3>3, QuietStep
  <2>3. CASE Goes(i, Left(i, "lateness"))
    <3>1. IsRest(Left(i, "lateness"))
      BY RestingAt
    <3> QED
      BY <2>1, <2>3, <3>1, RestStep
  <2> QED
    BY <1>1, <2>2, <2>3 DEF OpenRun
<1>2. CASE Recover(i)
  <2> DEFINE u == [t EXCEPT !.at = "cancel"]
             S == {o \in Orders : order[o].age >= 1}
  <2>1. t.at = "recover" /\ ~ At(i, "idle") /\ operator' = operator /\ Goes(i, u)
    BY <1>2 DEF Recover, At
  <2>2. order' = [o \in Orders |-> IF order[o].status = "SUBMITTING" /\ o \in S
                                   THEN [status |-> "UNKNOWN", age |-> 0] ELSE order[o]]
    BY <1>2 DEF Recover, Status
  <2>3. IsTick(u) /\ u.at = "cancel"
    BY <1>0 DEF IsTick, Fields
  <2> HIDE DEF S
  <2>4. Matches(order', operator') /\ Evolves(order, operator, order', operator')
    BY <1>0, <2>1, <2>2, WaitingMove
  <2>5. Kept(u, order', operator')
    <3>1. u = [t EXCEPT !.at = "cancel"]
      OBVIOUS
    <3> HIDE DEF u, t
    <3> QED
      BY <1>0, <2>1, <2>4, <3>1, EarlyStepKept
  <2> HIDE DEF u
  <2>6. tick' = [tick EXCEPT ![i] = u] /\ tick'[i] = u
    BY <2>1 DEF Goes, RecInv
  <2> QED
    BY <2>1, <2>3, <2>4, <2>5, <2>6, OwnStep, OthersIdle
<1>3. CASE CancelAbandoned(i)
  <2> DEFINE u == [t EXCEPT !.at = "read"]
             S == {o \in Orders : order[o].age >= 1}
  <2>1. t.at = "cancel" /\ ~ At(i, "idle") /\ operator' = operator /\ Goes(i, u)
    BY <1>3 DEF CancelAbandoned, At
  <2>2. order' = [o \in Orders |-> IF order[o].status = "RESERVED" /\ o \in S
                                   THEN [status |-> "REJECTED", age |-> 0] ELSE order[o]]
    BY <1>3 DEF CancelAbandoned, Status
  <2>3. IsTick(u) /\ u.at = "read"
    BY <1>0 DEF IsTick, Fields
  <2> HIDE DEF S
  <2>4. Matches(order', operator') /\ Evolves(order, operator, order', operator')
    BY <1>0, <2>1, <2>2, WaitingMove
  <2>5. Kept(u, order', operator')
    <3>1. u = [t EXCEPT !.at = "read"]
      OBVIOUS
    <3> HIDE DEF u, t
    <3> QED
      BY <1>0, <2>1, <2>4, <3>1, EarlyStepKept
  <2> HIDE DEF u
  <2>6. tick' = [tick EXCEPT ![i] = u] /\ tick'[i] = u
    BY <2>1 DEF Goes, RecInv
  <2> QED
    BY <2>1, <2>3, <2>4, <2>5, <2>6, OwnStep, OthersIdle
<1>4. CASE ReadOrders(i)
  <2> DEFINE u == [t EXCEPT !.at = "lookup", !.rows = [o \in Exist(order) |-> order[o].status]]
  <2>1. t.at = "read" /\ ~ At(i, "idle") /\ UNCHANGED <<order, operator>>
    BY <1>4 DEF ReadOrders, At
  <2>2. Goes(i, u)
    BY <1>4 DEF ReadOrders, Existing, Exist, Status
  <2>3. IsTick(u)
    BY <1>0 DEF IsTick
  <2>4. Kept(u, order, operator)
    BY <1>0, <2>1, ReadKept
  <2> HIDE DEF u
  <2> QED
    BY <2>1, <2>2, <2>3, <2>4, QuietStep
<1>5. CASE Lookup(i)
  <2> DEFINE asked == {o \in DOMAIN t.rows : t.rows[o] \in LookedUp}
             u(failed) == [t EXCEPT
                 !.at = "resolve",
                 !.looked = [o \in asked |-> IF o \in failed THEN "failed"
                                             ELSE IF operator[o] \in Found THEN operator[o] ELSE "none"],
                 !.todo = {o \in asked \ failed : t.rows[o] \in {"UNKNOWN", "ACCEPTED"}},
                 !.items = {Item(o, "LOOKUP") : o \in failed},
                 !.quiet = @ /\ failed = {}]
  <2>1. t.at = "lookup" /\ ~ At(i, "idle") /\ UNCHANGED <<order, operator>>
    BY <1>5 DEF Lookup, At
  <2>2. PICK failed \in SUBSET asked : Goes(i, u(failed))
    BY <1>5 DEF Lookup
  <2>3. IsTick(u(failed))
    BY <1>0 DEF IsTick, Fields
  <2>4. Kept(u(failed), order, operator)
    BY <1>0, <2>1, LookupKept
  <2> DEFINE v == u(failed)
  <2>5. Goes(i, v) /\ IsTick(v) /\ Kept(v, order, operator)
    BY <2>2, <2>3, <2>4
  <2> HIDE DEF v, u
  <2> QED
    BY <2>1, <2>5, QuietStep
<1>6. ASSUME NEW o \in Orders, Resolve(i, o) PROVE RecInv'
  <2> DEFINE is  == Resolved(t.rows[o], t.looked[o], order[o])
             old == t.rows[o] = "UNKNOWN" /\ t.looked[o] = "none" /\ order[o].age = 2
             bad == t.rows[o] = "UNKNOWN" /\ t.looked[o] \in Bets /\ is = "RECONCILIATION_REQUIRED"
             r2  == IF is = order[o].status THEN order[o] ELSE [status |-> is, age |-> 0]
             u   == [t EXCEPT !.todo = @ \ {o},
                              !.items = @ \cup (IF old \/ bad THEN {Item(o, "ORDER")} ELSE {})]
  <2>1. t.at = "resolve" /\ ~ At(i, "idle") /\ o \in t.todo /\ operator' = operator /\ Goes(i, u)
    BY <1>6 DEF Resolve, At
  <2>2. order' = [order EXCEPT ![o] = r2]
    BY <1>0, <1>6 DEF Resolve, Matches
  <2>3. IsTick(u)
    BY <1>0 DEF IsTick
  <2>4. Matches(order', operator) /\ Evolves(order, operator, order', operator) /\ Kept(u, order', operator)
    BY <1>0, <2>1, <2>2, ResolveKept
  <2> HIDE DEF u
  <2>5. tick' = [tick EXCEPT ![i] = u] /\ tick'[i] = u
    BY <2>1 DEF Goes, RecInv
  <2> QED
    BY <2>1, <2>3, <2>4, <2>5, OwnStep, OthersIdle
<1>7. CASE EndResolve(i)
  <2> DEFINE u == [t EXCEPT !.at = "again"]
  <2>1. /\ t.at = "resolve" /\ t.todo = {} /\ ~ At(i, "idle") /\ UNCHANGED <<order, operator>>
        /\ Goes(i, u)
    BY <1>7 DEF EndResolve, At
  <2>2. IsTick(u) /\ Kept(u, order, operator)
    BY <1>0, <2>1, EndResolveKept DEF IsTick
  <2> HIDE DEF u
  <2> QED
    BY <2>1, <2>2, QuietStep
<1>8. CASE ReadFresh(i)
  <2> DEFINE u == [t EXCEPT !.fresh = [o \in DOMAIN t.rows |-> order[o].status]]
  <2>1. t.at = "again" /\ ~ At(i, "idle") /\ UNCHANGED <<order, operator>> /\ Goes(i, u)
    BY <1>8 DEF ReadFresh, At, Status
  <2>2. IsTick(u) /\ Kept(u, order, operator)
    BY <1>0, <2>1, FreshKept DEF IsTick
  <2> HIDE DEF u
  <2> QED
    BY <2>1, <2>2, QuietStep
<1>9. CASE ReadProofs(i)
  <2> DEFINE u == [t EXCEPT !.proofs = [o \in DOMAIN t.rows |-> order[o].status]]
  <2>1. t.at = "again" /\ ~ At(i, "idle") /\ UNCHANGED <<order, operator>> /\ Goes(i, u)
    BY <1>9 DEF ReadProofs, At, Status
  <2>2. IsTick(u) /\ Kept(u, order, operator)
    BY <1>0, <2>1, ProofsKept DEF IsTick
  <2> HIDE DEF u
  <2> QED
    BY <2>1, <2>2, QuietStep
<1>10. CASE Compare(i)
  <2> DEFINE compared == {o \in DOMAIN t.fresh : t.fresh[o] # "UNKNOWN" /\ FoundFor(t, o) # "failed"}
             u == [t EXCEPT !.at = "account",
                            !.items = @ \cup UNION {CompareOrder(o, t.fresh[o], FoundFor(t, o), t.proofs[o])
                                                      : o \in compared}]
  <2>1. /\ t.at = "again" /\ t.fresh # <<>> /\ t.proofs # <<>> /\ ~ At(i, "idle")
        /\ UNCHANGED <<order, operator>> /\ Goes(i, u)
    BY <1>10 DEF Compare, At
  <2>2. IsTick(u) /\ Kept(u, order, operator)
    <3>1. IsTick(u)
      BY <1>0 DEF IsTick
    <3>2. Kept(u, order, operator)
      BY <1>0, <2>1, CompareKept
    <3> QED
      BY <3>1, <3>2
  <2> HIDE DEF u
  <2> QED
    BY <2>1, <2>2, QuietStep
<1>a. ASSUME NEW at \in AfterCompare, NEW new, NEW books, NEW quiet, NEW u,
             t.at \in AfterCompare, UNCHANGED <<order, operator>>, Goes(i, u),
             u = [t EXCEPT !.at = at, !.books = books, !.items = @ \cup new, !.quiet = quiet],
             quiet => t.quiet, at = "balance" => books = BooksOf(order),
             quiet /\ new # {} => \E o \in Orders : Troubled(order, operator, o)
      PROVE  RecInv'
  <2>1. IsTick(u)
    BY <1>0, <1>a DEF IsTick
  <2>2. Kept(u, order, operator)
    <3> HIDE DEF t
    <3> QED
      BY <1>0, <1>a, LastStepKept
  <2>3. ~ At(i, "idle")
    BY <1>a DEF At, AfterCompare
  <2> QED
    BY <1>a, <2>1, <2>2, <2>3, QuietStep
<1>11. CASE ReadAccount(i)
  <2> DEFINE u == [t EXCEPT !.at = "balance", !.books = LocalBooks]
             at == "balance"
             n == {}
             b == LocalBooks
             q == t.quiet
  <2>1. t.at \in AfterCompare /\ UNCHANGED <<order, operator>> /\ Goes(i, u)
    BY <1>11 DEF ReadAccount, At, AfterCompare
  <2>2. LocalBooks = BooksOf(order)
    BY DEF LocalBooks, BooksOf, Status
  <2>3. u = [t EXCEPT !.at = at, !.books = b, !.items = @ \cup n, !.quiet = q]
    BY <1>0 DEF IsTick, Fields
  <2>4. at \in AfterCompare /\ (at = "balance" => b = BooksOf(order))
    BY <2>2 DEF AfterCompare
  <2>5. (q => t.quiet) /\ (q /\ n # {} => \E o \in Orders : Troubled(order, operator, o))
    OBVIOUS
  <2> HIDE DEF u, at, n, b, q
  <2> QED
    BY <1>a, <2>1, <2>3, <2>4, <2>5
<1>12. CASE ReadBalance(i)
  <2> DEFINE compares == \A o \in DOMAIN t.fresh : ~ Ambiguous(t.fresh[o])
             new(readable) == IF compares /\ (~ readable \/ t.books # OperatorBooks)
                              THEN {Item(Account, "BALANCE")} ELSE {}
             u(readable) == [t EXCEPT !.at = "invariant", !.items = @ \cup new(readable),
                                      !.quiet = @ /\ readable]
  <2>1. t.at = "balance" /\ t.at \in AfterCompare /\ UNCHANGED <<order, operator>>
    BY <1>12 DEF ReadBalance, At, AfterCompare
  <2>2. PICK readable \in BOOLEAN : Goes(i, u(readable))
    BY <1>12 DEF ReadBalance
  <2> DEFINE v == u(readable)
             q == t.quiet /\ readable
             n == new(readable)
             b == t.books
  <2>3. v = [t EXCEPT !.at = "invariant", !.books = b, !.items = @ \cup n, !.quiet = q]
    <3> HIDE DEF new
    <3> QED
      BY <1>0 DEF IsTick, Fields
  <2>4. q /\ n # {} => \E o \in Orders : Troubled(order, operator, o)
    <3> SUFFICES ASSUME q, n # {}, \A o \in Orders : ~ Troubled(order, operator, o)
                 PROVE  FALSE
      OBVIOUS
    <3>1. compares /\ t.books # OperatorBooks
      OBVIOUS
    <3>2. OperatorBooks = BooksAt(operator)
      BY DEF OperatorBooks, BooksAt
    <3>3. t.books = BooksAt(operator)
      BY <1>0, <2>1, <3>1, BalancesAgree
    <3> QED
      BY <3>1, <3>2, <3>3
  <2>5. "invariant" \in AfterCompare
    BY DEF AfterCompare
  <2>6. Goes(i, v) /\ (q => t.quiet)
    BY <2>2
  <2> HIDE DEF u, v, q, n, b, new
  <2> QED
    BY <1>a, <2>1, <2>3, <2>4, <2>5, <2>6
<1>13. CASE CheckInvariant(i)
  <2> DEFINE new(broken) == IF broken THEN {Item(Account, "LEDGER")} ELSE {}
             u(broken) == [t EXCEPT !.at = "complete", !.items = @ \cup new(broken)]
  <2>1. t.at \in AfterCompare /\ UNCHANGED <<order, operator>>
    BY <1>13 DEF CheckInvariant, At, AfterCompare
  <2>2. PICK broken \in {FALSE, ~ t.quiet} : Goes(i, u(broken))
    BY <1>13 DEF CheckInvariant
  <2> DEFINE v == u(broken)
             at == "complete"
             q == t.quiet
             n == new(broken)
             b == t.books
  <2>3. v = [t EXCEPT !.at = at, !.books = b, !.items = @ \cup n, !.quiet = q]
    <3> HIDE DEF new
    <3> QED
      BY <1>0 DEF IsTick, Fields
  <2>4. q /\ n # {} => \E o \in Orders : Troubled(order, operator, o)
    OBVIOUS
  <2>5. at \in AfterCompare /\ (at = "balance" => b = BooksOf(order))
    BY DEF AfterCompare
  <2>6. Goes(i, v) /\ (q => t.quiet)
    BY <2>2
  <2> HIDE DEF u, v, q, n, b, new, at
  <2> QED
    BY <1>a, <2>1, <2>3, <2>4, <2>5, <2>6
<1>14. CASE Complete(i)
  <2> DEFINE u == [t EXCEPT !.at = "completed"]
             at == "completed"
             n == {}
             b == t.books
             q == t.quiet
  <2>1. t.at \in AfterCompare /\ UNCHANGED <<order, operator>> /\ Goes(i, u)
    BY <1>14 DEF Complete, At, AfterCompare
  <2>3. u = [t EXCEPT !.at = at, !.books = b, !.items = @ \cup n, !.quiet = q]
    BY <1>0 DEF IsTick, Fields
  <2>4. at \in AfterCompare /\ (at = "balance" => b = BooksOf(order))
    BY DEF AfterCompare
  <2>5. (q => t.quiet) /\ (q /\ n # {} => \E o \in Orders : Troubled(order, operator, o))
    OBVIOUS
  <2> HIDE DEF u, at, n, b, q
  <2> QED
    BY <1>a, <2>1, <2>3, <2>4, <2>5
<1>15. CASE StopForGaps(i) \/ StopForFailedRun(i) \/ StopForFailure(i) \/ CheckLateness(i)
  <2>1. /\ ~ At(i, "idle") /\ UNCHANGED <<order, operator>>
        /\ \/ Goes(i, [Idle EXCEPT !.at = "lateness"])
           \/ Goes(i, Left(i, "lateness"))
           \/ Goes(i, [Idle EXCEPT !.at = "unlock"])
    BY <1>15 DEF StopForGaps, StopForFailedRun, StopForFailure, CheckLateness, At
  <2>2. /\ IsRest([Idle EXCEPT !.at = "lateness"]) /\ IsRest(Left(i, "lateness"))
        /\ IsRest([Idle EXCEPT !.at = "unlock"])
    BY RestingAt
  <2> QED
    BY <2>1, <2>2, RestStep
<1>16. CASE Unlock(i)
  <2>1. ~ At(i, "idle") /\ UNCHANGED <<order, operator>> /\ Goes(i, Idle)
    BY <1>16 DEF Unlock, At
  <2> QED
    BY <2>1, IdleRests, RestStep
<1> QED
  BY <1>1, <1>2, <1>3, <1>4, <1>5, <1>6, <1>7, <1>8, <1>9, <1>10, <1>11, <1>12, <1>13, <1>14,
     <1>15, <1>16 DEF Run

LEMMA StepHolds == RecInv /\ [Next]_vars => RecInv'
<1> SUFFICES ASSUME RecInv, [Next]_vars PROVE RecInv'
  OBVIOUS
<1>1. ASSUME NEW o \in Orders, Pipeline(o) PROVE RecInv'
  BY <1>1, PipelineHolds
<1>2. ASSUME NEW i \in Instances, Run(i) PROVE RecInv'
  BY <1>2, RunHolds
<1>3. ASSUME NEW i \in Instances, BeginTick(i) PROVE RecInv'
  <2> DEFINE late == lag > Late
             u == [Idle EXCEPT !.at = "open", !.late = late]
  <2>1. /\ \A j \in Instances : At(j, "idle")
        /\ tick' = [tick EXCEPT ![i] = u] /\ UNCHANGED <<order, operator>>
    BY <1>3 DEF BeginTick, Goes
  <2> HIDE DEF late
  <2>2. IsTick(u) /\ Kept(u, order, operator)
    BY RestKept, RestingAt DEF IsRest
  <2> HIDE DEF u
  <2>3. tick'[i] = u
    BY <2>1 DEF RecInv
  <2> QED
    BY <2>1, <2>2, <2>3, OwnStep, NothingEvolves
<1>4. ASSUME NEW i \in Instances, Fail(i) \/ FailTick(i) PROVE RecInv'
  <2>1. /\ ~ At(i, "idle") /\ UNCHANGED <<order, operator>>
        /\ Goes(i, Left(i, "failed")) \/ Goes(i, [Idle EXCEPT !.at = "stop"])
    BY <1>4 DEF Fail, FailTick, OutsideTheRun, Executing, At
  <2>2. IsRest(Left(i, "failed")) /\ IsRest([Idle EXCEPT !.at = "stop"])
    BY RestingAt
  <2> QED
    BY <2>1, <2>2, RestStep
<1>5. ASSUME NEW i \in Instances, Crash(i) PROVE RecInv'
  <2>1. ~ At(i, "idle") /\ UNCHANGED <<order, operator>> /\ Goes(i, Idle)
    BY <1>5 DEF Crash, At
  <2> QED
    BY <2>1, IdleRests, RestStep
<1>6. ASSUME UNCHANGED <<order, operator>>
      PROVE  Matches(order', operator') /\ Calm(order, operator, order', operator')
  BY <1>6 DEF RecInv, Calm
<1>7. CASE NextSlot
  <2>1. tick' = [i \in Instances |-> [tick[i] EXCEPT !.past = Executing(i)]] /\ UNCHANGED <<order, operator>>
    BY <1>7 DEF NextSlot
  <2>2. ASSUME NEW i \in Instances
        PROVE  IsTick(tick'[i]) /\ SameRun(tick[i], tick'[i]) /\ tick'[i].quiet = tick[i].quiet
    <3> DEFINE t == tick[i]
               u == tick'[i]
               p == Executing(i)
    <3>1. u = [t EXCEPT !.past = p] /\ IsTick(t)
      BY <2>1 DEF RecInv
    <3> HIDE DEF t, u, p
    <3>2. IsTick(u) /\ SameRun(t, u) /\ u.quiet = t.quiet
      BY <3>1 DEF IsTick, Fields, SameRun
    <3> QED
      BY <3>2 DEF t, u
  <2>3. tick' = [i \in Instances |-> tick'[i]]
    BY <2>1
  <2> QED
    BY <1>6, <2>1, <2>2, <2>3, UnnoticedStep
<1>8. CASE Reactivate
  <2>1. UNCHANGED <<order, operator, tick>>
    BY <1>8 DEF Reactivate
  <2> QED
    BY <1>6, <2>1, UnnoticedStep DEF RecInv, SameRun
<1>9. CASE UNCHANGED vars
  <2>1. UNCHANGED <<order, operator, tick>>
    BY <1>9 DEF vars
  <2> QED
    BY <1>6, <2>1, UnnoticedStep DEF RecInv, SameRun
<1> QED
  BY <1>1, <1>2, <1>3, <1>4, <1>5, <1>7, <1>8, <1>9 DEF Next

(* In every state of the scheduler the lock keeps ticks apart, what a run  *)
(* has read of a gap stays true whatever the pipeline commits, and a run   *)
(* that nothing disturbed knows orders and operator as they are            *)
(* (runTick, openBatch, lookupOperatorOrders, resolveUnknown).             *)
THEOREM RunsAreWatched == Spec => []RecInv
<1>1. Init => RecInv
  BY InitHolds
<1>2. RecInv /\ [Next]_vars => RecInv'
  BY StepHolds
<1> QED
  BY <1>1, <1>2, PTL DEF Spec

-----------------------------------------------------------------------------
(* A completed run has an item about every order that was in a gap when it *)
(* began: a rejected order that is a bet at the operator is found out,     *)
(* whatever the pipeline does meanwhile (compareOrder, lookupOperatorOrders).*)
THEOREM GapsAreFound == Spec => []GapsAreReported
<1>1. ASSUME RecInv PROVE GapsAreReported
  <2> SUFFICES ASSUME NEW i \in Instances, At(i, "completed"), NEW o \in tick[i].before
               PROVE  HasItem(tick[i], o)
    BY DEF GapsAreReported, HasItem
  <2>1. GapsSeen(tick[i], order, operator)
    BY <1>1 DEF RecInv, Kept
  <2> QED
    BY <2>1 DEF GapsSeen, At, AfterCompare
<1> QED
  BY <1>1, RunsAreWatched, PTL

(* A completed run that nothing disturbed has an item only when there is a *)
(* gap or an order that has been unknown too long: it stops execution for  *)
(* nothing else, the comparison of the balances included                   *)
(* (compareBalance, stopTriggerFor).                                       *)
THEOREM QuietRunsStopForTrouble == Spec => []QuietRunsAgree
<1>1. ASSUME RecInv PROVE QuietRunsAgree
  <2> SUFFICES ASSUME NEW i \in Instances, At(i, "completed"), tick[i].quiet, tick[i].items # {}
               PROVE  \E o \in Orders : Gap(o) \/ (Status(o) = "UNKNOWN" /\ order[o].age = 2)
    BY DEF QuietRunsAgree
  <2>1. ItemsJustified(tick[i], order, operator)
    BY <1>1 DEF RecInv, Kept, Undisturbed
  <2>2. \E o \in Orders : Troubled(order, operator, o)
    BY <2>1 DEF ItemsJustified, At, AfterLookup, AfterResolve, AfterCompare
  <2> QED
    BY <2>2 DEF Troubled, GapIn, Gap, Status
<1> QED
  BY <1>1, RunsAreWatched, PTL
===============================================================================
