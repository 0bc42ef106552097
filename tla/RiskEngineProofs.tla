-------------------------- MODULE RiskEngineProofs --------------------------
(***************************************************************************)
(* First the ledger: it keeps its promises for any accounts, keys, writers,*)
(* checkers and amounts.  Its invariant adds to the committed journals what*)
(* the open transactions hold: one writer per account, entries that        *)
(* continue its journal, keys nobody else has.                             *)
(*                                                                         *)
(* Then the risk engine: it leaves the ledger what it is, and keeps the    *)
(* limits of the policy - the exposure, the stakes and the loss of a day - *)
(* for any transactions and policy.  A reservation is judged and booked    *)
(* under one lock of its account, so what was judged still holds when the  *)
(* entry is written.                                                       *)
(***************************************************************************)
EXTENDS RiskEngine, SequenceTheorems, FoldTheorems, TLAPS

-----------------------------------------------------------------------------
(* The ledger *)

(* What the tables and the transactions hold; checkers change none of it.  *)
tables == <<account, journal, txn, answers>>

(* A writer holds its account alone.                                       *)
LocksExclude ==
    \A v, w \in Writers : txn[v].on = txn[w].on /\ txn[v].on # NoAccount => v = w

(* A transaction goes on where the journal of its account ends.            *)
PendingReplays ==
    \A w \in Writers :
        txn[w].on # NoAccount =>
            /\ journal[txn[w].on] \o txn[w].new # <<>>
            /\ Reaches(journal[txn[w].on] \o txn[w].new, txn[w].row)

(* An idle writer has written nothing and was told nothing.                *)
IdleHasNothing ==
    \A w \in Writers : txn[w].on = NoAccount => txn[w] = Idle

(* Keys that are not committed yet are new, and one writer's.              *)
PendingKeysAreNew ==
    /\ \A w \in Writers, a \in Accounts :
          \A i \in 1 .. Len(txn[w].new), j \in 1 .. Len(journal[a]) :
              txn[w].new[i].key # journal[a][j].key
    /\ \A v, w \in Writers :
          \A i \in 1 .. Len(txn[v].new), j \in 1 .. Len(txn[w].new) :
              txn[v].new[i].key = txn[w].new[j].key => v = w /\ i = j

(* The opening of an account is an entry of that account.                  *)
OpenKeysStay ==
    /\ \A a, b \in Accounts : \A i \in 1 .. Len(journal[b]) :
          journal[b][i].key = OpenKey(a) => a = b
    /\ \A w \in Writers, a \in Accounts : \A i \in 1 .. Len(txn[w].new) :
          txn[w].new[i].key = OpenKey(a) => txn[w].on = a

(* What a transaction was told is in the journal or in what it writes.     *)
ToldIsTrue ==
    \A w \in Writers : \A m \in txn[w].told :
        /\ m.on = txn[w].on
        /\ \/ \E i \in 1 .. Len(journal[m.on]) : 
                 Movement(m.on, journal[m.on][i].key, journal[m.on][i].type, journal[m.on][i]) = m
           \/ \E i \in 1 .. Len(txn[w].new) : 
                 Movement(m.on, txn[w].new[i].key, txn[w].new[i].type, txn[w].new[i]) = m

IInv ==
    /\ LedgerTypes
    /\ LocksExclude
    /\ IdleHasNothing
    /\ JournalReplays
    /\ PendingReplays
    /\ OneEntryPerKey
    /\ PendingKeysAreNew
    /\ OpenKeysStay
    /\ AnswersAreTrue
    /\ ToldIsTrue

-----------------------------------------------------------------------------
(* Operators *)

LEMMA EffectTypes ==
    ASSUME NEW type \in EntryTypes, NEW stake \in Int, NEW paid \in Int
    PROVE  /\ MovementEffect(type, stake, paid).amount \in Int
           /\ MovementEffect(type, stake, paid).delta \in Int
BY DEF MovementEffect, EntryTypes

(* A typed movement that leaves no balance below zero makes a typed row    *)
(* and a typed entry.                                                      *)
LEMMA AppendedTypes ==
    ASSUME NEW row \in Rows, NEW key \in EntryKeys, NEW type \in EntryTypes, NEW effect,
           effect.amount \in Int, effect.delta \in Int,
           After(Balances(row), effect).available >= 0,
           After(Balances(row), effect).reserved >= 0,
           NEW row2, row2 = RowOf(After(Balances(row), effect), row.version + 1)
    PROVE  /\ row2 \in Rows
           /\ Entry(key, type, effect, row2) \in Entries
<1>1. row2 \in Rows
  BY DEF Rows, RowOf, After, Balances
<1>2. Entry(key, type, effect, row2) \in Entries
  BY <1>1 DEF Entry, Entries, Rows
<1> QED
  BY <1>1, <1>2

LEMMA MovementTypes ==
    ASSUME NEW a \in Accounts, NEW key \in EntryKeys, NEW type \in EntryTypes, NEW effect,
           effect.amount \in Int, effect.delta \in Int
    PROVE  Movement(a, key, type, effect) \in Movements
BY DEF Movement, Movements

(* An entry made from the row that s reaches takes s to the next row.      *)
LEMMA ReachesGrows ==
    ASSUME NEW s \in Seq(Entries), NEW row \in Rows, Reaches(s, row),
           NEW key, NEW type, NEW effect, NEW row2,
           row2 = RowOf(After(Balances(row), effect), row.version + 1),
           Entry(key, type, effect, row2) \in Entries
    PROVE  Reaches(Append(s, Entry(key, type, effect, row2)), row2)
<1> DEFINE e == Entry(key, type, effect, row2)
           t == Append(s, e)
<1>1. /\ t \in Seq(Entries) /\ Len(t) = Len(s) + 1 /\ Len(s) \in Nat
      /\ \A i \in 1 .. Len(s) : t[i] = s[i]
      /\ t[Len(s) + 1] = e
  BY AppendProperties, LenProperties
<1>2. ASSUME NEW i \in 1 .. Len(s) + 1
      PROVE  RowBefore(t, i) = RowBefore(s, i)
  BY <1>1, <1>2 DEF RowBefore
<1>3. RowBefore(t, Len(s) + 2) = row2
  <2>1. Len(s) + 2 # 1 /\ (Len(s) + 2) - 1 = Len(s) + 1
    BY <1>1
  <2>2. RowBefore(t, Len(s) + 2) = RowOf([available |-> e.availableAfter, reserved |-> e.reservedAfter],
                                         e.version)
    BY <1>1, <2>1 DEF RowBefore
  <2> QED
    BY <2>2 DEF Entry, RowOf, After, Balances
<1>4. After(Balances(row), e) = After(Balances(row), effect)
  BY DEF Entry, After
<1>5. ASSUME NEW i \in 1 .. Len(t)
      PROVE  RowOf(After(Balances(RowBefore(t, i)), t[i]), RowBefore(t, i).version + 1)
               = RowBefore(t, i + 1)
  <2>1. CASE i \in 1 .. Len(s)
    <3>1. i + 1 \in 1 .. Len(s) + 1 /\ i \in 1 .. Len(s) + 1
      BY <1>1, <2>1
    <3>2. RowBefore(t, i) = RowBefore(s, i) /\ RowBefore(t, i + 1) = RowBefore(s, i + 1)
      BY <1>2, <3>1
    <3> QED
      BY <1>1, <2>1, <3>2 DEF Reaches
  <2>2. CASE i = Len(s) + 1
    <3>1. RowBefore(t, i) = row
      BY <1>1, <1>2, <2>2 DEF Reaches
    <3>2. i + 1 = Len(s) + 2 /\ t[i] = e
      BY <1>1, <2>2
    <3> QED
      BY <1>3, <1>4, <3>1, <3>2
  <2> QED
    BY <1>1, <2>1, <2>2
<1>6. Len(t) + 1 = Len(s) + 2
  BY <1>1
<1> QED
  BY <1>3, <1>5, <1>6 DEF Reaches

LEMMA ConcatAppend ==
    ASSUME NEW s \in Seq(Entries), NEW t \in Seq(Entries), NEW e \in Entries
    PROVE  /\ s \o Append(t, e) = Append(s \o t, e)
           /\ s \o Append(t, e) # <<>>
           /\ s \o t \in Seq(Entries)
<1>1. <<e>> \in Seq(Entries) /\ s \o t \in Seq(Entries)
  BY ConcatProperties
<1>2. s \o Append(t, e) = Append(s \o t, e)
  BY <1>1, AppendIsConcat, ConcatAssociative, SMTT(60)
<1> QED
  BY <1>1, <1>2, AppendProperties

(* A journal with entries never leads back to the absent row.              *)
LEMMA ReachedRowExists ==
    ASSUME NEW s \in Seq(Entries), s # <<>>, NEW row, Reaches(s, row)
    PROVE  row # NoRow
<1>1. Len(s) \in Nat /\ Len(s) \in 1 .. Len(s)
  BY LenProperties, EmptySeq
<1>2. RowBefore(s, Len(s)).version \in Nat
  <2>1. CASE Len(s) = 1
    BY <2>1 DEF RowBefore, RowOf
  <2>2. CASE Len(s) # 1
    <3> DEFINE n == Len(s)
    <3>3. n \in Nat /\ n \in 1 .. n /\ n # 1
      BY <1>1, <2>2
    <3> HIDE DEF n
    <3>4. n - 1 \in 1 .. n
      BY <3>3
    <3>1. Len(s) - 1 \in 1 .. Len(s)
      BY <3>4 DEF n
    <3>2. s[Len(s) - 1] \in Entries
      BY <3>1, ElementOfSeq
    <3> QED
      BY <2>2, <3>2 DEF RowBefore, RowOf, Entries
  <2> QED
    BY <2>1, <2>2
<1>3. row = RowOf(After(Balances(RowBefore(s, Len(s))), s[Len(s)]), RowBefore(s, Len(s)).version + 1)
  BY <1>1 DEF Reaches
<1>4. row.version = RowBefore(s, Len(s)).version + 1
  BY <1>3 DEF RowOf
<1>5. NoRow.version = 0
  BY DEF NoRow, RowOf
<1> QED
  BY <1>2, <1>4, <1>5

LEMMA OpenedRow == Reaches(<<>>, RowOf(NoMoney, 1))
<1>1. Len(<<>>) = 0
  OBVIOUS
<1>2. Len(<<>>) + 1 = 1
  BY <1>1
<1> QED
  BY <1>1, <1>2 DEF Reaches, RowBefore

-----------------------------------------------------------------------------
(* Steps *)

LEMMA InitIsSafe == Init => IInv
<1> SUFFICES ASSUME Init PROVE IInv
  OBVIOUS
<1>1. NoRow \in Rows
  BY DEF NoRow, NoMoney, RowOf, Rows
<1>2. <<>> \in Seq(Entries) /\ Len(<<>>) = 0
  OBVIOUS
<1>3. LedgerTypes
  <2>1. Idle \in [on : Accounts \cup {NoAccount}, row : Rows, new : Seq(Entries),
                  told : SUBSET Movements]
    BY <1>1, <1>2 DEF Idle
  <2>2. /\ account \in [Accounts -> Rows]
        /\ txn \in [Writers -> [on : Accounts \cup {NoAccount}, row : Rows, new : Seq(Entries),
                                told : SUBSET Movements]]
        /\ answers \subseteq Movements
    BY <1>1, <2>1 DEF Init
  <2>3. journal \in [Accounts -> Seq(Entries)]
    BY <1>2 DEF Init
  <2> QED
    BY <2>2, <2>3 DEF LedgerTypes
<1>4. \A w \in Writers : txn[w] = Idle
  BY DEF Init
<1>5. \A a \in Accounts : journal[a] = <<>> /\ account[a] = NoRow
  BY DEF Init
<1>6. LocksExclude /\ IdleHasNothing /\ PendingReplays
  <2>1. \A w \in Writers : txn[w].on = NoAccount
    BY <1>4 DEF Idle
  <2> QED
    BY <1>4, <2>1 DEF LocksExclude, IdleHasNothing, PendingReplays
<1>7. JournalReplays /\ OneEntryPerKey
  BY <1>2, <1>5 DEF JournalReplays, OneEntryPerKey
<1>8. PendingKeysAreNew /\ OpenKeysStay
  BY <1>2, <1>4, <1>5 DEF PendingKeysAreNew, OpenKeysStay, Idle
<1>9. AnswersAreTrue /\ ToldIsTrue
  BY <1>4 DEF Init, AnswersAreTrue, ToldIsTrue, Idle
<1> QED
  BY <1>3, <1>6, <1>7, <1>8, <1>9 DEF IInv

(* One append of writer w on account a, whose journal and whose entries so *)
(* far reach the row: openAccount and append are both such a step.         *)
Grows(w, a, row, key, type, effect) ==
    /\ txn[w].on \in {a, NoAccount}
    /\ \A v \in Writers \ {w} : txn[v].on # a
    /\ Reaches(journal[a] \o txn[w].new, row)
    /\ effect.amount \in Int /\ effect.delta \in Int
    /\ After(Balances(row), effect).available >= 0
    /\ After(Balances(row), effect).reserved >= 0
    /\ \A b \in Accounts : key = OpenKey(b) => a = b
    /\ \A b \in Accounts : \A i \in 1 .. Len(journal[b]) : journal[b][i].key # key
    /\ \A v \in Writers : \A i \in 1 .. Len(txn[v].new) : txn[v].new[i].key # key
    /\ txn' = [txn EXCEPT ![w] = Appended([on |-> a, row |-> row, new |-> txn[w].new,
                                           told |-> txn[w].told], key, type, effect)]
    /\ UNCHANGED <<account, journal, answers>>

(* The tables after such a step, writer by writer.                         *)
LEMMA GrownTables ==
    ASSUME LedgerTypes, NEW w \in Writers, NEW a \in Accounts, NEW row \in Rows,
           NEW key \in EntryKeys, NEW type \in EntryTypes, NEW effect,
           Grows(w, a, row, key, type, effect),
           NEW row2, row2 = RowOf(After(Balances(row), effect), row.version + 1),
           NEW e, e = Entry(key, type, effect, row2)
    PROVE  /\ row2 \in Rows /\ e \in Entries /\ e.key = key
           /\ Movement(a, e.key, e.type, e) = Movement(a, key, type, effect)
           /\ Movement(a, key, type, effect) \in Movements
           /\ txn'[w].on = a
           /\ txn'[w].row = row2
           /\ txn'[w].new = Append(txn[w].new, e)
           /\ txn'[w].told = txn[w].told \cup {Movement(a, key, type, effect)}
           /\ \A v \in Writers \ {w} : txn'[v] = txn[v]
           /\ LedgerTypes'
<1> DEFINE T == [on : Accounts \cup {NoAccount}, row : Rows, new : Seq(Entries),
                 told : SUBSET Movements]
           base == [on |-> a, row |-> row, new |-> txn[w].new, told |-> txn[w].told]
           next == Appended(base, key, type, effect)
<1>1. row2 \in Rows /\ e \in Entries
  BY AppendedTypes DEF Grows
<1>2. /\ e.key = key
      /\ Movement(a, e.key, e.type, e) = Movement(a, key, type, effect)
  BY DEF Entry, Movement
<1>3. Movement(a, key, type, effect) \in Movements
  BY MovementTypes DEF Grows
<1>4. txn[w] \in T /\ txn \in [Writers -> T]
  BY DEF LedgerTypes
<1>5. /\ next.on = a /\ next.row = row2 /\ next.new = Append(txn[w].new, e)
      /\ next.told = txn[w].told \cup {Movement(a, key, type, effect)}
  BY DEF Appended
<1>6. next \in T
  <2>1. Append(txn[w].new, e) \in Seq(Entries)
    BY <1>1, <1>4, AppendProperties
  <2>2. txn[w].told \cup {Movement(a, key, type, effect)} \in SUBSET Movements
    BY <1>3, <1>4
  <2>3. next = [on |-> a, row |-> row2, new |-> Append(txn[w].new, e),
                told |-> txn[w].told \cup {Movement(a, key, type, effect)}]
    BY DEF Appended
  <2> QED
    <3>1. a \in Accounts \cup {NoAccount} /\ row2 \in Rows
      BY <1>1
    <3> QED
      BY <2>1, <2>2, <2>3, <3>1, <1>1, SMTT(60)
<1>7. txn' = [txn EXCEPT ![w] = next]
  BY DEF Grows
<1> HIDE DEF next, T
<1>8. txn'[w] = next /\ txn' \in [Writers -> T] /\ \A v \in Writers \ {w} : txn'[v] = txn[v]
  BY <1>4, <1>6, <1>7
<1>9. LedgerTypes'
  BY <1>8 DEF LedgerTypes, Grows, T
<1> QED
  BY <1>1, <1>2, <1>3, <1>5, <1>8, <1>9

LEMMA GrowsIsSafe ==
    ASSUME IInv, NEW w \in Writers, NEW a \in Accounts, NEW row \in Rows,
           NEW key \in EntryKeys, NEW type \in EntryTypes, NEW effect,
           Grows(w, a, row, key, type, effect)
    PROVE  IInv'
<1> DEFINE row2 == RowOf(After(Balances(row), effect), row.version + 1)
           e == Entry(key, type, effect, row2)
           old == txn[w].new
<1>1. LedgerTypes
  BY DEF IInv
<1>2. /\ row2 \in Rows /\ e \in Entries /\ e.key = key
      /\ Movement(a, e.key, e.type, e) = Movement(a, key, type, effect)
      /\ txn'[w].on = a
      /\ txn'[w].row = row2
      /\ txn'[w].new = Append(old, e)
      /\ txn'[w].told = txn[w].told \cup {Movement(a, key, type, effect)}
      /\ \A v \in Writers \ {w} : txn'[v] = txn[v]
      /\ LedgerTypes'
  BY <1>1, GrownTables
<1>3. UNCHANGED <<account, journal, answers>>
  BY DEF Grows
<1>4. /\ old \in Seq(Entries) /\ journal[a] \in Seq(Entries)
      /\ a # NoAccount
  BY <1>1, NoAccountAssumption DEF LedgerTypes
<1>5. /\ Len(old) \in Nat /\ Len(Append(old, e)) = Len(old) + 1
      /\ \A i \in 1 .. Len(old) : Append(old, e)[i] = old[i]
      /\ Append(old, e)[Len(old) + 1] = e
  BY <1>2, <1>4, AppendProperties, LenProperties
<1>6. LocksExclude'
  BY <1>2 DEF IInv, LocksExclude, Grows
<1>7. IdleHasNothing'
  BY <1>2, <1>4 DEF IInv, IdleHasNothing
<1>8. (JournalReplays /\ OneEntryPerKey /\ AnswersAreTrue)'
  BY <1>3 DEF IInv, JournalReplays, OneEntryPerKey, AnswersAreTrue
<1>9. PendingReplays'
  <2>1. ASSUME NEW v \in Writers, txn'[v].on # NoAccount
        PROVE  /\ journal[txn'[v].on] \o txn'[v].new # <<>>
               /\ Reaches(journal[txn'[v].on] \o txn'[v].new, txn'[v].row)
    <3>1. CASE v = w
      <4>1. /\ journal[a] \o Append(old, e) = Append(journal[a] \o old, e)
            /\ journal[a] \o Append(old, e) # <<>>
            /\ journal[a] \o old \in Seq(Entries)
        BY <1>2, <1>4, ConcatAppend
      <4>2. Reaches(Append(journal[a] \o old, e), row2)
        BY <1>2, <4>1, ReachesGrows DEF Grows
      <4> QED
        BY <1>2, <3>1, <4>1, <4>2
    <3>2. CASE v # w
      BY <1>2, <2>1, <3>2 DEF IInv, PendingReplays
    <3> QED
      BY <3>1, <3>2
  <2> QED
    BY <1>3, <2>1 DEF PendingReplays
<1>10. PendingKeysAreNew'
  <2> DEFINE fresh(v, i) == v = w /\ i = Len(old) + 1
  <2>1. ASSUME NEW v \in Writers, NEW i \in 1 .. Len(txn'[v].new)
        PROVE  \/ v = w /\ i = Len(old) + 1 /\ txn'[v].new[i].key = key
               \/ i \in 1 .. Len(txn[v].new) /\ txn'[v].new[i] = txn[v].new[i]
                    /\ ~ fresh(v, i)
    <3>1. CASE v = w
      <4>1. i \in 1 .. Len(old) \/ i = Len(old) + 1
        BY <1>2, <1>5, <3>1, SMTT(60)
      <4> QED
        BY <1>2, <1>5, <3>1, <4>1, SMTT(60)
    <3> QED
      BY <1>2, <3>1
  <2>2. /\ \A b \in Accounts : \A i \in 1 .. Len(journal[b]) : journal[b][i].key # key
        /\ \A v \in Writers : \A i \in 1 .. Len(txn[v].new) : txn[v].new[i].key # key
    BY DEF Grows
  <2>3. ASSUME NEW v \in Writers, NEW b \in Accounts,
               NEW i \in 1 .. Len(txn'[v].new), NEW j \in 1 .. Len(journal[b])
        PROVE  txn'[v].new[i].key # journal[b][j].key
    <3>1. CASE fresh(v, i)
      <4>1. txn'[v].new[i].key = key
        BY <2>1, <3>1
      <4>2. journal[b][j].key # key
        BY <2>2
      <4> QED
        BY <4>1, <4>2
    <3>2. CASE ~ fresh(v, i)
      <4>1. i \in 1 .. Len(txn[v].new) /\ txn'[v].new[i] = txn[v].new[i]
        BY <2>1, <3>2
      <4>2. \A k \in 1 .. Len(txn[v].new) : txn[v].new[k].key # journal[b][j].key
        BY DEF IInv, PendingKeysAreNew
      <4> QED
        BY <4>1, <4>2
    <3> QED
      BY <3>1, <3>2
  <2>4. ASSUME NEW v \in Writers, NEW x \in Writers, NEW i \in 1 .. Len(txn'[v].new),
               NEW j \in 1 .. Len(txn'[x].new), txn'[v].new[i].key = txn'[x].new[j].key
        PROVE  v = x /\ i = j
    <3>1. CASE fresh(v, i) /\ fresh(x, j)
      BY <3>1
    <3>2. CASE fresh(v, i) /\ ~ fresh(x, j)
      <4>1. j \in 1 .. Len(txn[x].new) /\ txn'[x].new[j] = txn[x].new[j]
        BY <2>1, <3>2
      <4>2. txn'[v].new[i].key = key
        BY <2>1, <3>2
      <4>3. txn[x].new[j].key # key
        BY <2>2, <4>1
      <4> QED
        BY <2>4, <4>1, <4>2, <4>3
    <3>3. CASE ~ fresh(v, i) /\ fresh(x, j)
      <4>1. i \in 1 .. Len(txn[v].new) /\ txn'[v].new[i] = txn[v].new[i]
        BY <2>1, <3>3
      <4>2. txn'[x].new[j].key = key
        BY <2>1, <3>3
      <4>3. txn[v].new[i].key # key
        BY <2>2, <4>1
      <4> QED
        BY <2>4, <4>1, <4>2, <4>3
    <3>4. CASE ~ fresh(v, i) /\ ~ fresh(x, j)
      <4>1. i \in 1 .. Len(txn[v].new) /\ txn'[v].new[i] = txn[v].new[i]
        BY <2>1, <3>4
      <4>2. j \in 1 .. Len(txn[x].new) /\ txn'[x].new[j] = txn[x].new[j]
        BY <2>1, <3>4
      <4> QED
        BY <2>4, <4>1, <4>2, SMTT(60) DEF IInv, PendingKeysAreNew
    <3> QED
      BY <3>1, <3>2, <3>3, <3>4
  <2> QED
    BY <1>3, <2>3, <2>4, SMTT(60) DEF PendingKeysAreNew
<1>11. OpenKeysStay'
  <2>1. ASSUME NEW v \in Writers, NEW b \in Accounts, NEW i \in 1 .. Len(txn'[v].new),
               txn'[v].new[i].key = OpenKey(b)
        PROVE  txn'[v].on = b
    <3>1. CASE v = w /\ i = Len(old) + 1
      BY <1>2, <1>5, <2>1, <3>1, SMTT(60) DEF Grows
    <3>2. CASE v = w /\ i # Len(old) + 1
      <4>1. i \in 1 .. Len(old) + 1 /\ i # Len(old) + 1
        BY <1>2, <1>5, <3>2
      <4>2. i \in 1 .. Len(old)
        BY <1>5, <4>1
      <4>3. txn'[v].new[i] = old[i]
        BY <1>2, <1>5, <3>2, <4>2
      <4>4. txn[w].on = b
        BY <2>1, <4>2, <4>3 DEF IInv, OpenKeysStay
      <4>5. b # NoAccount
        BY NoAccountAssumption
      <4> QED
        BY <1>2, <3>2, <4>4, <4>5 DEF Grows
    <3>3. CASE v # w
      BY <1>2, <2>1, <3>3 DEF IInv, OpenKeysStay
    <3> QED
      BY <3>1, <3>2, <3>3
  <2> QED
    BY <1>3, <2>1 DEF IInv, OpenKeysStay
<1>12. ToldIsTrue'
  <2>1. ASSUME NEW v \in Writers, NEW m \in txn'[v].told
        PROVE  /\ m.on = txn'[v].on
               /\ \/ \E i \in 1 .. Len(journal[m.on]) :
                        Movement(m.on, journal[m.on][i].key, journal[m.on][i].type, journal[m.on][i]) = m
                  \/ \E i \in 1 .. Len(txn'[v].new) :
                        Movement(m.on, txn'[v].new[i].key, txn'[v].new[i].type, txn'[v].new[i]) = m
    <3>1. CASE v = w /\ m = Movement(a, key, type, effect)
      <4>1. m.on = a
        BY <3>1 DEF Movement
      <4>2. Len(old) + 1 \in 1 .. Len(txn'[w].new) /\ txn'[w].new[Len(old) + 1] = e
        BY <1>2, <1>5
      <4> QED
        BY <1>2, <3>1, <4>1, <4>2, ZenonT(60)
    <3>2. CASE v = w /\ m \in txn[w].told
      <4>1. txn[w].on # NoAccount
        BY <3>2 DEF IInv, IdleHasNothing, Idle
      <4>2. txn[w].on = a
        BY <4>1 DEF Grows
      <4>3. /\ m.on = a
            /\ \/ \E i \in 1 .. Len(journal[m.on]) :
                     Movement(m.on, journal[m.on][i].key, journal[m.on][i].type, journal[m.on][i]) = m
               \/ \E i \in 1 .. Len(old) :
                     Movement(m.on, old[i].key, old[i].type, old[i]) = m
        BY <3>2, <4>2 DEF IInv, ToldIsTrue
      <4>4. \A i \in 1 .. Len(old) : i \in 1 .. Len(txn'[w].new) /\ txn'[w].new[i] = old[i]
        BY <1>2, <1>5
      <4> QED
        BY <1>2, <3>2, <4>3, <4>4
    <3>3. CASE v # w
      BY <1>2, <2>1, <3>3 DEF IInv, ToldIsTrue
    <3> QED
      BY <1>2, <2>1, <3>1, <3>2, <3>3, SMTT(60)
  <2> QED
    BY <1>3, <2>1 DEF ToldIsTrue
<1> QED
  BY <1>2, <1>6, <1>7, <1>8, <1>9, <1>10, <1>11, <1>12 DEF IInv

LEMMA OpenGrows ==
    ASSUME IInv, NEW w \in Writers, NEW a \in Accounts, Open(w, a)
    PROVE  /\ RowOf(NoMoney, 1) \in Rows
           /\ OpenKey(a) \in EntryKeys /\ "ADJUSTMENT" \in EntryTypes
           /\ \E cents \in Cents :
                 Grows(w, a, RowOf(NoMoney, 1), OpenKey(a), "ADJUSTMENT",
                       MovementEffect("ADJUSTMENT", cents, cents))
<1> DEFINE row == RowOf(NoMoney, 1)
<1>1. PICK cents \in Cents :
          txn' = [txn EXCEPT ![w] =
                     Appended(Started(a, row), OpenKey(a), "ADJUSTMENT",
                              MovementEffect("ADJUSTMENT", cents, cents))]
  BY DEF Open
<1> DEFINE effect == MovementEffect("ADJUSTMENT", cents, cents)
<1>2. cents \in Nat /\ effect.amount = cents /\ effect.delta = 0
  BY CentsAssumption DEF MovementEffect
<1>3. /\ row \in Rows
      /\ After(Balances(row), effect).available >= 0
      /\ After(Balances(row), effect).reserved >= 0
  BY <1>2 DEF Rows, RowOf, NoMoney, After, Balances
<1>4. txn[w].on = NoAccount /\ txn[w].new = <<>> /\ txn[w].told = {}
  BY DEF Open, Idle
<1>5. journal[a] = <<>> /\ account[a] = NoRow
  BY ReachedRowExists DEF Open, IInv, JournalReplays, LedgerTypes
<1>6. Reaches(journal[a] \o txn[w].new, row)
  <2>1. <<>> \o <<>> = <<>>
    BY ConcatEmptySeq
  <2> QED
    BY <1>4, <1>5, <2>1, OpenedRow
<1>7. \A v \in Writers : txn[v].on # a
  BY DEF Open, IsLocked
<1>8. \A b \in Accounts : OpenKey(a) = OpenKey(b) => a = b
  BY DEF OpenKey
<1>9. \A b \in Accounts : \A i \in 1 .. Len(journal[b]) : journal[b][i].key # OpenKey(a)
  <2>1. SUFFICES ASSUME NEW b \in Accounts, NEW i \in 1 .. Len(journal[b]),
                        journal[b][i].key = OpenKey(a)
                 PROVE  FALSE
    OBVIOUS
  <2>2. a = b
    BY <2>1 DEF IInv, OpenKeysStay
  <2>3. Len(journal[b]) = 0
    BY <1>5, <2>2
  <2> QED
    BY <2>3
<1>10. \A v \in Writers : \A i \in 1 .. Len(txn[v].new) : txn[v].new[i].key # OpenKey(a)
  BY <1>7 DEF IInv, OpenKeysStay
<1>11. Grows(w, a, row, OpenKey(a), "ADJUSTMENT", effect)
  <2>1. Appended(Started(a, row), OpenKey(a), "ADJUSTMENT", effect)
          = Appended([on |-> a, row |-> row, new |-> txn[w].new, told |-> txn[w].told],
                     OpenKey(a), "ADJUSTMENT", effect)
    BY <1>4 DEF Started
  <2>2. UNCHANGED <<account, journal, answers>>
    BY DEF Open
  <2> HIDE DEF row, effect
  <2>3. effect.amount \in Int /\ effect.delta \in Int
    BY <1>2
  <2> QED
    BY <1>1, <1>3, <1>4, <1>6, <1>7, <1>8, <1>9, <1>10, <2>1, <2>2, <2>3 DEF Grows, effect, row
<1>12. OpenKey(a) \in EntryKeys /\ "ADJUSTMENT" \in EntryTypes
  BY DEF EntryKeys, EntryTypes
<1> QED
  BY <1>3, <1>11, <1>12

LEMMA OpenIsSafe ==
    ASSUME IInv, NEW w \in Writers, NEW a \in Accounts, Open(w, a)
    PROVE  IInv'
BY OpenGrows, GrowsIsSafe

LEMMA AppendEntryGrows ==
    ASSUME IInv, NEW w \in Writers, NEW key \in Keys, NEW type \in OrderTypes,
           NEW stake \in Cents, NEW paid \in Cents \cup {0},
           AppendEntry(w, key, type, stake, paid)
    PROVE  /\ txn[w].on \in Accounts /\ txn[w].row \in Rows
           /\ key \in EntryKeys /\ type \in EntryTypes
           /\ Grows(w, txn[w].on, txn[w].row, key, type, MovementEffect(type, stake, paid))
<1> DEFINE effect == MovementEffect(type, stake, paid)
           a == txn[w].on
           row == txn[w].row
<1>1. a \in Accounts /\ row \in Rows
  BY DEF IInv, LedgerTypes, AppendEntry, Writing
<1>2. effect.amount \in Int /\ effect.delta \in Int
  BY CentsAssumption, EffectTypes DEF OrderTypes
<1>3. /\ After(Balances(row), effect).available >= 0
      /\ After(Balances(row), effect).reserved >= 0
  BY DEF AppendEntry, Plannable
<1>4. \A v \in Writers \ {w} : txn[v].on # a
  BY <1>1, NoAccountAssumption DEF IInv, LocksExclude
<1>5. Reaches(journal[a] \o txn[w].new, row)
  BY <1>1, NoAccountAssumption DEF IInv, PendingReplays
<1>6. \A b \in Accounts : key # OpenKey(b)
  BY KeysAssumption
<1>7. \A b \in Accounts : \A i \in 1 .. Len(journal[b]) : journal[b][i].key # key
  BY DEF AppendEntry, IsFree, Committed, EntriesOf
<1>8. \A v \in Writers : \A i \in 1 .. Len(txn[v].new) : txn[v].new[i].key # key
  BY DEF AppendEntry, IsFree, WrittenBy, EntriesOf
<1>9. Grows(w, a, row, key, type, effect)
  <2>1. Appended(txn[w], key, type, effect)
          = Appended([on |-> a, row |-> row, new |-> txn[w].new, told |-> txn[w].told],
                     key, type, effect)
    BY DEF Appended
  <2>2. /\ txn' = [txn EXCEPT ![w] = Appended(txn[w], key, type, effect)]
        /\ UNCHANGED <<account, journal, answers>>
    <3>1. txn \in [Writers -> [on : Accounts \cup {NoAccount}, row : Rows, new : Seq(Entries),
                               told : SUBSET Movements]]
      BY DEF IInv, LedgerTypes
    <3> QED
      BY <3>1 DEF AppendEntry
  <2> HIDE DEF effect
  <2> QED
    BY <1>2, <1>3, <1>4, <1>5, <1>6, <1>7, <1>8, <2>1, <2>2 DEF Grows
<1>10. key \in EntryKeys /\ type \in EntryTypes
  BY DEF EntryKeys, OrderTypes
<1> QED
  BY <1>1, <1>9, <1>10

LEMMA AppendEntryIsSafe ==
    ASSUME IInv, NEW w \in Writers, NEW key \in Keys, NEW type \in OrderTypes,
           NEW stake \in Cents, NEW paid \in Cents \cup {0},
           AppendEntry(w, key, type, stake, paid)
    PROVE  IInv'
BY AppendEntryGrows, GrowsIsSafe

LEMMA SameKeysAreNew ==
    ASSUME PendingKeysAreNew, UNCHANGED journal,
           \A v \in Writers : txn'[v].new = txn[v].new
    PROVE  PendingKeysAreNew'
<1>1. ASSUME NEW w \in Writers, NEW a \in Accounts,
             NEW i \in 1 .. Len(txn'[w].new), NEW j \in 1 .. Len(journal[a])
      PROVE  txn'[w].new[i].key # journal[a][j].key
  <2>1. i \in 1 .. Len(txn[w].new) /\ txn'[w].new[i] = txn[w].new[i]
    OBVIOUS
  <2> QED
    BY <2>1 DEF PendingKeysAreNew
<1>2. ASSUME NEW v \in Writers, NEW w \in Writers, NEW i \in 1 .. Len(txn'[v].new),
             NEW j \in 1 .. Len(txn'[w].new), txn'[v].new[i].key = txn'[w].new[j].key
      PROVE  v = w /\ i = j
  <2>1. i \in 1 .. Len(txn[v].new) /\ txn'[v].new[i] = txn[v].new[i]
    OBVIOUS
  <2>2. j \in 1 .. Len(txn[w].new) /\ txn'[w].new[j] = txn[w].new[j]
    OBVIOUS
  <2> QED
    BY <1>2, <2>1, <2>2 DEF PendingKeysAreNew
<1> QED
  BY <1>1, <1>2, SMTT(60) DEF PendingKeysAreNew

LEMMA LockIsSafe ==
    ASSUME IInv, NEW w \in Writers, NEW a \in Accounts, LockAccount(w, a)
    PROVE  IInv'
<1> DEFINE T == [on : Accounts \cup {NoAccount}, row : Rows, new : Seq(Entries),
                 told : SUBSET Movements]
<1>1. /\ txn \in [Writers -> T] /\ account[a] \in Rows /\ journal[a] \in Seq(Entries)
  BY DEF IInv, LedgerTypes
<1>2. txn[w] = Idle /\ account[a] # NoRow /\ \A v \in Writers : txn[v].on # a
  BY DEF LockAccount, IsLocked
<1>3. UNCHANGED <<account, journal, answers>>
  BY DEF LockAccount
<1>4. Started(a, account[a]) \in T
  <2>1. <<>> \in Seq(Entries) /\ {} \in SUBSET Movements
    BY EmptySeq
  <2> QED
    BY <1>1, <2>1 DEF Started
<1>5. txn' = [txn EXCEPT ![w] = Started(a, account[a])]
  BY DEF LockAccount
<1> HIDE DEF T
<1>6. /\ txn'[w] = Started(a, account[a]) /\ txn' \in [Writers -> T]
      /\ \A v \in Writers \ {w} : txn'[v] = txn[v]
  BY <1>1, <1>4, <1>5
<1>7. /\ txn'[w].on = a /\ txn'[w].row = account[a] /\ txn'[w].new = <<>> /\ txn'[w].told = {}
      /\ a # NoAccount
  BY <1>6, NoAccountAssumption DEF Started
<1>8. LedgerTypes'
  BY <1>3, <1>6 DEF IInv, LedgerTypes, T
<1>9. LocksExclude'
  BY <1>2, <1>6, <1>7 DEF IInv, LocksExclude
<1>10. IdleHasNothing'
  BY <1>6, <1>7 DEF IInv, IdleHasNothing
<1>11. (JournalReplays /\ OneEntryPerKey /\ AnswersAreTrue)'
  BY <1>3 DEF IInv, JournalReplays, OneEntryPerKey, AnswersAreTrue
<1>12. PendingReplays'
  <2>1. journal[a] # <<>> /\ Reaches(journal[a], account[a])
    BY <1>2 DEF IInv, JournalReplays
  <2>2. journal[a] \o <<>> = journal[a]
    BY <1>1, ConcatEmptySeq
  <2>3. ASSUME NEW v \in Writers, txn'[v].on # NoAccount
        PROVE  /\ journal[txn'[v].on] \o txn'[v].new # <<>>
               /\ Reaches(journal[txn'[v].on] \o txn'[v].new, txn'[v].row)
    <3>1. CASE v = w
      BY <1>7, <2>1, <2>2, <3>1
    <3>2. CASE v # w
      BY <1>6, <2>3, <3>2 DEF IInv, PendingReplays
    <3> QED
      BY <3>1, <3>2
  <2> QED
    BY <1>3, <2>3 DEF PendingReplays
<1>13. \A v \in Writers : txn'[v].new = txn[v].new
  BY <1>2, <1>6, <1>7 DEF Idle
<1>14. PendingKeysAreNew'
  BY <1>3, <1>13, SameKeysAreNew DEF IInv
<1>15. OpenKeysStay'
  <2>1. ASSUME NEW v \in Writers, NEW b \in Accounts, NEW i \in 1 .. Len(txn'[v].new),
               txn'[v].new[i].key = OpenKey(b)
        PROVE  txn'[v].on = b
    <3>1. v # w
      <4>1. Len(<<>>) = 0
        OBVIOUS
      <4> QED
        BY <1>7, <4>1
    <3> QED
      BY <1>6, <2>1, <3>1 DEF IInv, OpenKeysStay
  <2> QED
    BY <1>3, <2>1 DEF IInv, OpenKeysStay
<1>16. ToldIsTrue'
  <2>1. ASSUME NEW v \in Writers, NEW m \in txn'[v].told
        PROVE  v # w /\ txn'[v] = txn[v]
    BY <1>6, <1>7
  <2> QED
    BY <1>3, <2>1 DEF IInv, ToldIsTrue
<1> QED
  BY <1>8, <1>9, <1>10, <1>11, <1>12, <1>14, <1>15, <1>16 DEF IInv

(* A replay only adds to what the transaction was told.                    *)
LEMMA ReplayIsSafe ==
    ASSUME IInv, NEW w \in Writers, NEW key \in Keys, NEW type \in OrderTypes,
           NEW stake \in Cents, NEW paid \in Cents \cup {0},
           Replay(w, key, type, stake, paid)
    PROVE  IInv'
<1> DEFINE effect == MovementEffect(type, stake, paid)
           a == txn[w].on
           m == Movement(a, key, type, effect)
           T == [on : Accounts \cup {NoAccount}, row : Rows, new : Seq(Entries),
                 told : SUBSET Movements]
<1>1. txn \in [Writers -> T] /\ a \in Accounts /\ a # NoAccount
  BY DEF IInv, LedgerTypes, Replay, Writing
<1>2. UNCHANGED <<account, journal, answers>>
  BY DEF Replay
<1>3. m \in Movements
  <2>1. effect.amount \in Int /\ effect.delta \in Int
    BY CentsAssumption, EffectTypes DEF OrderTypes
  <2>2. key \in EntryKeys /\ type \in EntryTypes
    BY DEF EntryKeys, OrderTypes
  <2> HIDE DEF effect
  <2> QED
    BY <1>1, <2>1, <2>2, MovementTypes
<1>4. txn' = [txn EXCEPT ![w].told = txn[w].told \cup {m}]
  BY <1>1 DEF Replay
<1> HIDE DEF m, effect
<1>5. /\ txn'[w].on = a /\ txn'[w].row = txn[w].row /\ txn'[w].new = txn[w].new
      /\ txn'[w].told = txn[w].told \cup {m}
      /\ \A v \in Writers \ {w} : txn'[v] = txn[v]
      /\ txn' \in [Writers -> T]
  BY <1>1, <1>3, <1>4
<1>6. \A v \in Writers : txn'[v].on = txn[v].on /\ txn'[v].row = txn[v].row
                          /\ txn'[v].new = txn[v].new
  BY <1>5
<1>7. LedgerTypes'
  BY <1>2, <1>5 DEF IInv, LedgerTypes
<1>8. LocksExclude'
  BY <1>6 DEF IInv, LocksExclude
<1>9. IdleHasNothing'
  BY <1>1, <1>5 DEF IInv, IdleHasNothing
<1>10. (JournalReplays /\ OneEntryPerKey /\ AnswersAreTrue)'
  BY <1>2 DEF IInv, JournalReplays, OneEntryPerKey, AnswersAreTrue
<1>11. PendingReplays'
  BY <1>2, <1>6 DEF IInv, PendingReplays
<1>12. PendingKeysAreNew'
  BY <1>2, <1>6, SameKeysAreNew DEF IInv
<1>13. OpenKeysStay'
  BY <1>2, <1>6 DEF IInv, OpenKeysStay
<1>14. ToldIsTrue'
  <2>1. /\ m.on = a
        /\ \/ \E i \in 1 .. Len(journal[a]) :
                 Movement(a, journal[a][i].key, journal[a][i].type, journal[a][i]) = m
           \/ \E i \in 1 .. Len(txn[w].new) :
                 Movement(a, txn[w].new[i].key, txn[w].new[i].type, txn[w].new[i]) = m
    BY DEF Replay, SameMovement, EntriesOf, WrittenBy, Movement, m, effect
  <2>2. ASSUME NEW v \in Writers, NEW x \in txn'[v].told
        PROVE  /\ x.on = txn[v].on
               /\ \/ \E i \in 1 .. Len(journal[x.on]) :
                        Movement(x.on, journal[x.on][i].key, journal[x.on][i].type, journal[x.on][i]) = x
                  \/ \E i \in 1 .. Len(txn[v].new) :
                        Movement(x.on, txn[v].new[i].key, txn[v].new[i].type, txn[v].new[i]) = x
    <3>1. CASE v = w /\ x = m
      BY <2>1, <3>1
    <3>2. CASE x \in txn[v].told
      BY <3>2 DEF IInv, ToldIsTrue
    <3> QED
      BY <1>5, <2>2, <3>1, <3>2
  <2> QED
    BY <1>2, <1>6, <2>2 DEF ToldIsTrue
<1> QED
  BY <1>7, <1>8, <1>9, <1>10, <1>11, <1>12, <1>13, <1>14 DEF IInv

(* The writer lets its account go; no new entries are left of it.          *)
LEMMA IdleAgain ==
    ASSUME IInv, NEW w \in Writers, txn' = [txn EXCEPT ![w] = Idle]
    PROVE  /\ txn'[w].on = NoAccount /\ txn'[w].new = <<>> /\ txn'[w].told = {}
           /\ txn'[w] = Idle
           /\ \A v \in Writers \ {w} : txn'[v] = txn[v]
           /\ txn' \in [Writers -> [on : Accounts \cup {NoAccount}, row : Rows,
                                    new : Seq(Entries), told : SUBSET Movements]]
           /\ LocksExclude' /\ IdleHasNothing'
<1> DEFINE T == [on : Accounts \cup {NoAccount}, row : Rows, new : Seq(Entries),
                 told : SUBSET Movements]
<1>1. txn \in [Writers -> T]
  BY DEF IInv, LedgerTypes
<1>2. Idle \in T
  <2>1. <<>> \in Seq(Entries) /\ {} \in SUBSET Movements
    BY EmptySeq
  <2>2. NoRow \in Rows
    BY DEF NoRow, NoMoney, RowOf, Rows
  <2> QED
    BY <2>1, <2>2 DEF Idle
<1>3. Idle.on = NoAccount /\ Idle.new = <<>> /\ Idle.told = {}
  BY DEF Idle
<1> HIDE DEF T
<1>4. txn'[w] = Idle /\ txn' \in [Writers -> T] /\ \A v \in Writers \ {w} : txn'[v] = txn[v]
  BY <1>1, <1>2
<1>5. LocksExclude'
  BY <1>3, <1>4 DEF IInv, LocksExclude
<1>6. IdleHasNothing'
  BY <1>4 DEF IInv, IdleHasNothing
<1> QED
  BY <1>3, <1>4, <1>5, <1>6 DEF T

LEMMA NoEntries == \A i \in 1 .. Len(<<>>) : FALSE
<1>1. Len(<<>>) = 0
  OBVIOUS
<1> QED
  BY <1>1

LEMMA RollbackIsSafe ==
    ASSUME IInv, NEW w \in Writers, Rollback(w)
    PROVE  IInv'
<1>1. UNCHANGED <<account, journal, answers>>
  BY DEF Rollback
<1>2. /\ txn'[w].on = NoAccount /\ txn'[w].new = <<>> /\ txn'[w].told = {}
      /\ \A v \in Writers \ {w} : txn'[v] = txn[v]
      /\ txn' \in [Writers -> [on : Accounts \cup {NoAccount}, row : Rows,
                               new : Seq(Entries), told : SUBSET Movements]]
      /\ LocksExclude' /\ IdleHasNothing'
  BY IdleAgain DEF Rollback
<1>3. LedgerTypes'
  BY <1>1, <1>2 DEF IInv, LedgerTypes
<1>4. (JournalReplays /\ OneEntryPerKey /\ AnswersAreTrue)'
  BY <1>1 DEF IInv, JournalReplays, OneEntryPerKey, AnswersAreTrue
<1>5. PendingReplays'
  BY <1>1, <1>2 DEF IInv, PendingReplays
<1>6. \A v \in Writers : \A i \in 1 .. Len(txn'[v].new) : txn'[v] = txn[v]
  BY <1>2, NoEntries
<1>7. PendingKeysAreNew'
  <2>1. ASSUME NEW v \in Writers, NEW a \in Accounts,
               NEW i \in 1 .. Len(txn'[v].new), NEW j \in 1 .. Len(journal[a])
        PROVE  txn'[v].new[i].key # journal[a][j].key
    BY <1>6 DEF IInv, PendingKeysAreNew
  <2>2. ASSUME NEW v \in Writers, NEW x \in Writers, NEW i \in 1 .. Len(txn'[v].new),
               NEW j \in 1 .. Len(txn'[x].new), txn'[v].new[i].key = txn'[x].new[j].key
        PROVE  v = x /\ i = j
    <3>1. txn'[v] = txn[v] /\ txn'[x] = txn[x]
      BY <1>6
    <3> QED
      BY <2>2, <3>1 DEF IInv, PendingKeysAreNew
  <2> QED
    BY <1>1, <2>1, <2>2, SMTT(60) DEF PendingKeysAreNew
<1>8. OpenKeysStay'
  <2>1. ASSUME NEW v \in Writers, NEW b \in Accounts, NEW i \in 1 .. Len(txn'[v].new),
               txn'[v].new[i].key = OpenKey(b)
        PROVE  txn'[v].on = b
    BY <1>6, <2>1 DEF IInv, OpenKeysStay
  <2> QED
    BY <1>1, <2>1 DEF IInv, OpenKeysStay
<1>9. ToldIsTrue'
  <2>1. ASSUME NEW v \in Writers, NEW m \in txn'[v].told
        PROVE  txn'[v] = txn[v]
    BY <1>2
  <2> QED
    BY <1>1, <2>1 DEF IInv, ToldIsTrue
<1> QED
  BY <1>2, <1>3, <1>4, <1>5, <1>7, <1>8, <1>9 DEF IInv

(* The entries of s \o t are those of s, in their places, and then t's.    *)
LEMMA ConcatEntries ==
    ASSUME NEW s \in Seq(Entries), NEW t \in Seq(Entries), NEW st, st = s \o t
    PROVE  /\ st \in Seq(Entries)
           /\ Len(s) \in Nat /\ Len(t) \in Nat /\ Len(s) <= Len(st)
           /\ \A i \in 1 .. Len(s) : i \in 1 .. Len(st) /\ st[i] = s[i]
           /\ \A i \in 1 .. Len(t) : Len(s) + i \in 1 .. Len(st) /\ st[Len(s) + i] = t[i]
           /\ \A k \in 1 .. Len(st) :
                 \/ k \in 1 .. Len(s)
                 \/ ~ k \in 1 .. Len(s) /\ k - Len(s) \in 1 .. Len(t) /\ st[k] = t[k - Len(s)]
<1>1. /\ st \in Seq(Entries) /\ Len(st) = Len(s) + Len(t)
      /\ \A i \in 1 .. Len(s) + Len(t) : st[i] = IF i <= Len(s) THEN s[i] ELSE t[i - Len(s)]
  BY ConcatProperties
<1> DEFINE m == Len(s)
           n == Len(t)
<1>2. m \in Nat /\ n \in Nat
  BY LenProperties
<1>3. Len(st) = m + n /\ \A i \in 1 .. m + n : st[i] = IF i <= m THEN s[i] ELSE t[i - m]
  BY <1>1
<1> HIDE DEF m, n
<1>4. \A i \in 1 .. m : i \in 1 .. m + n /\ st[i] = s[i]
  BY <1>2, <1>3
<1>5. ASSUME NEW i \in 1 .. n
      PROVE  m + i \in 1 .. m + n /\ st[m + i] = t[i]
  <2>1. m + i \in 1 .. m + n /\ ~ m + i <= m /\ (m + i) - m = i
    BY <1>2
  <2> QED
    BY <1>3, <2>1
<1>6. ASSUME NEW k \in 1 .. m + n
      PROVE  \/ k \in 1 .. m
             \/ ~ k \in 1 .. m /\ k - m \in 1 .. n /\ st[k] = t[k - m]
  <2>1. k \in 1 .. m \/ (~ k <= m /\ ~ k \in 1 .. m /\ k - m \in 1 .. n)
    BY <1>2
  <2> QED
    BY <1>3, <2>1
<1>7. m <= m + n
  BY <1>2
<1> QED
  BY <1>1, <1>2, <1>3, <1>4, <1>5, <1>6, <1>7 DEF m, n

(* The tables after a commit.                                              *)
LEMMA CommittedTables ==
    ASSUME IInv, NEW w \in Writers, Commit(w), NEW a, a = txn[w].on
    PROVE  /\ a \in Accounts
           /\ journal[a] \in Seq(Entries) /\ txn[w].new \in Seq(Entries)
           /\ journal'[a] = journal[a] \o txn[w].new
           /\ account'[a] = txn[w].row
           /\ \A b \in Accounts \ {a} : journal'[b] = journal[b] /\ account'[b] = account[b]
           /\ answers' = answers \cup txn[w].told
           /\ LedgerTypes'
<1>1. /\ a \in Accounts /\ journal[a] \in Seq(Entries) /\ txn[w].new \in Seq(Entries)
      /\ journal \in [Accounts -> Seq(Entries)] /\ account \in [Accounts -> Rows]
      /\ txn[w].row \in Rows /\ txn[w].told \in SUBSET Movements
  BY DEF IInv, LedgerTypes, Commit
<1>2. /\ account' = [account EXCEPT ![a] = txn[w].row]
      /\ journal' = [journal EXCEPT ![a] = journal[a] \o txn[w].new]
      /\ answers' = answers \cup txn[w].told
      /\ txn' = [txn EXCEPT ![w] = Idle]
  BY <1>1 DEF Commit
<1>3. journal[a] \o txn[w].new \in Seq(Entries)
  BY <1>1, ConcatEntries
<1>4. /\ journal'[a] = journal[a] \o txn[w].new /\ account'[a] = txn[w].row
      /\ \A b \in Accounts \ {a} : journal'[b] = journal[b] /\ account'[b] = account[b]
      /\ journal' \in [Accounts -> Seq(Entries)] /\ account' \in [Accounts -> Rows]
  BY <1>1, <1>2, <1>3
<1>5. txn' \in [Writers -> [on : Accounts \cup {NoAccount}, row : Rows,
                            new : Seq(Entries), told : SUBSET Movements]]
  BY <1>2, IdleAgain
<1>6. answers' \subseteq Movements
  BY <1>1, <1>2 DEF IInv, LedgerTypes
<1> QED
  BY <1>1, <1>2, <1>4, <1>5, <1>6 DEF LedgerTypes

LEMMA CommitIsSafe ==
    ASSUME IInv, NEW w \in Writers, Commit(w)
    PROVE  IInv'
<1> DEFINE a == txn[w].on
           s == journal[a]
           t == txn[w].new
<1>1. /\ a \in Accounts /\ s \in Seq(Entries) /\ t \in Seq(Entries)
      /\ journal'[a] = s \o t
      /\ account'[a] = txn[w].row
      /\ \A b \in Accounts \ {a} : journal'[b] = journal[b] /\ account'[b] = account[b]
      /\ answers' = answers \cup txn[w].told
      /\ LedgerTypes'
  BY CommittedTables
<1>2. /\ Len(s) \in Nat /\ Len(t) \in Nat
      /\ \A i \in 1 .. Len(s) : i \in 1 .. Len(journal'[a]) /\ journal'[a][i] = s[i]
      /\ \A i \in 1 .. Len(t) : Len(s) + i \in 1 .. Len(journal'[a]) /\ journal'[a][Len(s) + i] = t[i]
      /\ \A k \in 1 .. Len(journal'[a]) :
            \/ k \in 1 .. Len(s)
            \/ ~ k \in 1 .. Len(s) /\ k - Len(s) \in 1 .. Len(t) /\ journal'[a][k] = t[k - Len(s)]
  <2> DEFINE st == journal'[a]
  <2>1. s \in Seq(Entries) /\ t \in Seq(Entries) /\ st = s \o t
    BY <1>1
  <2> HIDE DEF s, t, st
  <2>2. /\ Len(s) \in Nat /\ Len(t) \in Nat
        /\ \A i \in 1 .. Len(s) : i \in 1 .. Len(st) /\ st[i] = s[i]
        /\ \A i \in 1 .. Len(t) : Len(s) + i \in 1 .. Len(st) /\ st[Len(s) + i] = t[i]
        /\ \A k \in 1 .. Len(st) :
              \/ k \in 1 .. Len(s)
              \/ ~ k \in 1 .. Len(s) /\ k - Len(s) \in 1 .. Len(t) /\ st[k] = t[k - Len(s)]
    BY <2>1, ConcatEntries
  <2> QED
    BY <2>2 DEF st
<1>3. /\ txn'[w].on = NoAccount /\ txn'[w].new = <<>> /\ txn'[w].told = {}
      /\ \A v \in Writers \ {w} : txn'[v] = txn[v]
      /\ LocksExclude' /\ IdleHasNothing'
  BY IdleAgain DEF Commit
<1>4. a # NoAccount /\ \A v \in Writers \ {w} : txn[v].on # a
  BY NoAccountAssumption, <1>1 DEF IInv, LocksExclude
<1> HIDE DEF a, s, t
(* Every entry was committed before, in its place, or is one of the new.   *)
<1>5. ASSUME NEW b \in Accounts, NEW k \in 1 .. Len(journal'[b])
      PROVE  \/ k \in 1 .. Len(journal[b]) /\ journal'[b][k] = journal[b][k]
             \/ /\ b = a /\ ~ k \in 1 .. Len(s)
                /\ k - Len(s) \in 1 .. Len(t) /\ journal'[b][k] = t[k - Len(s)]
  <2>1. CASE b = a
    BY <1>2, <2>1 DEF s
  <2>2. CASE b # a
    BY <1>1, <2>2
  <2> QED
    BY <2>1, <2>2
<1>6. ASSUME NEW b \in Accounts, NEW k \in 1 .. Len(journal[b])
      PROVE  k \in 1 .. Len(journal'[b]) /\ journal'[b][k] = journal[b][k]
  <2>1. CASE b = a
    BY <1>2, <2>1 DEF s
  <2>2. CASE b # a
    BY <1>1, <2>2
  <2> QED
    BY <2>1, <2>2
<1>7. JournalReplays'
  <2>1. ASSUME NEW b \in Accounts
        PROVE  IF journal'[b] = <<>> THEN account'[b] = NoRow ELSE Reaches(journal'[b], account'[b])
    <3>1. CASE b = a
      <4>1. s \o t # <<>> /\ Reaches(s \o t, txn[w].row)
        BY <1>4 DEF IInv, PendingReplays, s, t, a
      <4> QED
        BY <1>1, <3>1, <4>1
    <3>2. CASE b # a
      BY <1>1, <3>2 DEF IInv, JournalReplays
    <3> QED
      BY <3>1, <3>2
  <2> QED
    BY <2>1 DEF JournalReplays
<1>8. PendingReplays'
  <2>1. ASSUME NEW v \in Writers, txn'[v].on # NoAccount
        PROVE  /\ journal'[txn'[v].on] \o txn'[v].new # <<>>
               /\ Reaches(journal'[txn'[v].on] \o txn'[v].new, txn'[v].row)
    <3>1. v # w /\ txn'[v] = txn[v] /\ txn[v].on # a
      BY <1>3, <1>4, <2>1
    <3>2. txn[v].on \in Accounts
      BY <2>1, <3>1 DEF IInv, LedgerTypes
    <3>3. journal'[txn[v].on] = journal[txn[v].on]
      BY <1>1, <3>1, <3>2
    <3> QED
      BY <2>1, <3>1, <3>3 DEF IInv, PendingReplays
  <2> QED
    BY <2>1 DEF PendingReplays
<1>9. \A b \in Accounts : \A i \in 1 .. Len(t), j \in 1 .. Len(journal[b]) :
          t[i].key # journal[b][j].key
  BY DEF IInv, PendingKeysAreNew, t
<1>10. OneEntryPerKey'
  <2>1. ASSUME NEW b \in Accounts, NEW c \in Accounts,
               NEW i \in 1 .. Len(journal'[b]), NEW j \in 1 .. Len(journal'[c]),
               journal'[b][i].key = journal'[c][j].key
        PROVE  <<b, i>> = <<c, j>>
    <3> DEFINE new(d, k) == /\ d = a /\ ~ k \in 1 .. Len(s)
                            /\ k - Len(s) \in 1 .. Len(t) /\ journal'[d][k] = t[k - Len(s)]
               kept(d, k) == k \in 1 .. Len(journal[d]) /\ journal'[d][k] = journal[d][k]
    <3>1. (kept(b, i) \/ new(b, i)) /\ (kept(c, j) \/ new(c, j))
      BY <1>5
    <3>2. CASE kept(b, i) /\ kept(c, j)
      BY <2>1, <3>2 DEF IInv, OneEntryPerKey
    <3>3. CASE kept(b, i) /\ new(c, j)
      BY <1>9, <2>1, <3>3
    <3>4. CASE new(b, i) /\ kept(c, j)
      BY <1>9, <2>1, <3>4
    <3>5. CASE new(b, i) /\ new(c, j)
      <4>a. t[i - Len(s)].key = t[j - Len(s)].key
        BY <2>1, <3>5
      <4>1. i - Len(s) = j - Len(s)
        BY <3>5, <4>a, SMTT(60) DEF IInv, PendingKeysAreNew, t
      <4>2. i \in Int /\ j \in Int
        OBVIOUS
      <4>3. i = j
        BY <1>2, <4>1, <4>2
      <4> QED
        BY <3>5, <4>3
    <3> QED
      BY <3>1, <3>2, <3>3, <3>4, <3>5
  <2> QED
    BY <2>1 DEF OneEntryPerKey
<1>11. \A v \in Writers : \A i \in 1 .. Len(txn'[v].new) : v # w /\ txn'[v] = txn[v]
  BY <1>3, NoEntries
<1>12. PendingKeysAreNew'
  <2>1. ASSUME NEW v \in Writers, NEW b \in Accounts,
               NEW i \in 1 .. Len(txn'[v].new), NEW k \in 1 .. Len(journal'[b])
        PROVE  txn'[v].new[i].key # journal'[b][k].key
    <3>1. v # w /\ txn'[v] = txn[v]
      BY <1>11
    <3>2. CASE k \in 1 .. Len(journal[b]) /\ journal'[b][k] = journal[b][k]
      BY <3>1, <3>2 DEF IInv, PendingKeysAreNew
    <3>3. CASE k - Len(s) \in 1 .. Len(t) /\ journal'[b][k] = t[k - Len(s)]
      BY <3>1, <3>3 DEF IInv, PendingKeysAreNew, t
    <3> QED
      BY <1>5, <3>2, <3>3
  <2>2. ASSUME NEW v \in Writers, NEW x \in Writers, NEW i \in 1 .. Len(txn'[v].new),
               NEW j \in 1 .. Len(txn'[x].new), txn'[v].new[i].key = txn'[x].new[j].key
        PROVE  v = x /\ i = j
    <3>1. txn'[v] = txn[v] /\ txn'[x] = txn[x]
      BY <1>11
    <3> QED
      BY <2>2, <3>1 DEF IInv, PendingKeysAreNew
  <2> QED
    BY <2>1, <2>2 DEF PendingKeysAreNew
<1>13. OpenKeysStay'
  <2>1. ASSUME NEW b \in Accounts, NEW c \in Accounts, NEW k \in 1 .. Len(journal'[c]),
               journal'[c][k].key = OpenKey(b)
        PROVE  b = c
    <3>1. CASE k \in 1 .. Len(journal[c]) /\ journal'[c][k] = journal[c][k]
      BY <2>1, <3>1 DEF IInv, OpenKeysStay
    <3>2. CASE c = a /\ k - Len(s) \in 1 .. Len(t) /\ journal'[c][k] = t[k - Len(s)]
      BY <2>1, <3>2 DEF IInv, OpenKeysStay, t, a
    <3> QED
      BY <1>5, <3>1, <3>2
  <2>2. ASSUME NEW v \in Writers, NEW b \in Accounts, NEW i \in 1 .. Len(txn'[v].new),
               txn'[v].new[i].key = OpenKey(b)
        PROVE  txn'[v].on = b
    BY <1>11, <2>2 DEF IInv, OpenKeysStay
  <2> QED
    BY <2>1, <2>2 DEF OpenKeysStay
<1>14. AnswersAreTrue'
  <2>1. ASSUME NEW m \in answers'
        PROVE  \E i \in 1 .. Len(journal'[m.on]) :
                   Movement(m.on, journal'[m.on][i].key, journal'[m.on][i].type,
                            journal'[m.on][i]) = m
    <3>1. m \in Movements /\ m.on \in Accounts
      BY <1>1, <2>1 DEF LedgerTypes, Movements
    <3>2. CASE \E i \in 1 .. Len(journal[m.on]) :
                   Movement(m.on, journal[m.on][i].key, journal[m.on][i].type,
                            journal[m.on][i]) = m
      BY <1>6, <3>1, <3>2
    <3>3. CASE m \in txn[w].told /\ \E i \in 1 .. Len(t) :
                   Movement(m.on, t[i].key, t[i].type, t[i]) = m
      <4>1. m.on = a
        BY <3>3 DEF IInv, ToldIsTrue, a
      <4> QED
        BY <1>2, <3>3, <4>1
    <3> QED
      BY <1>1, <2>1, <3>2, <3>3, SMTT(60) DEF IInv, AnswersAreTrue, ToldIsTrue, t
  <2> QED
    BY <2>1 DEF AnswersAreTrue
<1>15. ToldIsTrue'
  <2>1. ASSUME NEW v \in Writers, NEW m \in txn'[v].told
        PROVE  /\ m.on = txn'[v].on
               /\ \/ \E i \in 1 .. Len(journal'[m.on]) :
                        Movement(m.on, journal'[m.on][i].key, journal'[m.on][i].type,
                                 journal'[m.on][i]) = m
                  \/ \E i \in 1 .. Len(txn'[v].new) :
                        Movement(m.on, txn'[v].new[i].key, txn'[v].new[i].type, txn'[v].new[i]) = m
    <3>1. v # w /\ txn'[v] = txn[v]
      BY <1>3, <2>1
    <3>2. m.on \in Accounts
      BY <3>1, <2>1 DEF IInv, LedgerTypes, Movements
    <3> QED
      BY <1>6, <2>1, <3>1, <3>2 DEF IInv, ToldIsTrue
  <2> QED
    BY <2>1 DEF ToldIsTrue
<1> QED
  BY <1>1, <1>3, <1>7, <1>8, <1>10, <1>12, <1>13, <1>14, <1>15 DEF IInv

LEMMA ReadsAreSafe == IInv /\ UNCHANGED tables => IInv'
BY DEF IInv, tables, LedgerTypes, LocksExclude, IdleHasNothing, JournalReplays, PendingReplays,
       OneEntryPerKey, PendingKeysAreNew, OpenKeysStay, AnswersAreTrue, ToldIsTrue

LEMMA NextIsSafe == IInv /\ [Next]_vars => IInv'
<1> SUFFICES ASSUME IInv, [Next]_vars PROVE IInv'
  OBVIOUS
<1>1. ASSUME NEW w \in Writers, NEW a \in Accounts, Open(w, a) \/ LockAccount(w, a) PROVE IInv'
  BY <1>1, OpenIsSafe, LockIsSafe
<1>2. ASSUME NEW w \in Writers, NEW key \in Keys, NEW type \in OrderTypes,
             NEW stake \in Cents, NEW paid \in Cents \cup {0},
             AppendEntry(w, key, type, stake, paid) \/ Replay(w, key, type, stake, paid)
      PROVE  IInv'
  BY <1>2, AppendEntryIsSafe, ReplayIsSafe
<1>3. ASSUME NEW w \in Writers, Commit(w) \/ Rollback(w) PROVE IInv'
  BY <1>3, CommitIsSafe, RollbackIsSafe
<1>4. ASSUME NEW c \in Checkers,
             (\E a \in Accounts : ReadAccount(c, a)) \/ ReadSums(c) \/ ReadLast(c) \/ Rest(c)
      PROVE  IInv'
  <2>1. UNCHANGED tables
    BY <1>4 DEF ReadAccount, ReadSums, ReadLast, Rest, tables
  <2> QED
    BY <2>1, ReadsAreSafe
<1>5. CASE UNCHANGED vars
  BY <1>5, ReadsAreSafe DEF vars, tables
<1> QED
  BY <1>1, <1>2, <1>3, <1>4, <1>5 DEF Next

-----------------------------------------------------------------------------
(* The sums of a journal, and what a checker makes of them *)

(* verifyInvariant adds up amounts and deltas; so does a replay.           *)
LEMMA SumsAreSums ==
    ASSUME NEW s
    PROVE  Sums(s) = [available |-> SumOf([i \in 1 .. Len(s) |-> s[i].amount], 1 .. Len(s)),
                      reserved  |-> SumOf([i \in 1 .. Len(s) |-> s[i].delta], 1 .. Len(s))]
BY DEF Sums, SumFunction, SumFunctionOnSet, FoldFunctionOnSet, SumOf, MapThenSumSet

LEMMA AmountsAreIntegers ==
    ASSUME NEW s \in Seq(Entries), NEW i \in 1 .. Len(s)
    PROVE  s[i].amount \in Int /\ s[i].delta \in Int
<1>1. s[i] \in Entries
  BY ElementOfSeq
<1> QED
  BY <1>1 DEF Entries

LEMMA SumsAreIntegers ==
    ASSUME NEW s \in Seq(Entries)
    PROVE  Sums(s) \in [available : Int, reserved : Int]
<1> DEFINE amt == [i \in 1 .. Len(s) |-> s[i].amount]
           dlt == [i \in 1 .. Len(s) |-> s[i].delta]
           S == 1 .. Len(s)
<1>1. Len(s) \in Nat /\ IsFiniteSet(S)
  BY LenProperties, FS_Interval
<1>2. \A i \in S : amt[i] \in Int /\ dlt[i] \in Int
  BY AmountsAreIntegers
<1>3. Sums(s) = [available |-> SumOf(amt, S), reserved |-> SumOf(dlt, S)]
  BY SumsAreSums
<1> HIDE DEF amt, dlt, S
<1>4. SumOf(amt, S) \in Int /\ SumOf(dlt, S) \in Int
  BY <1>1, <1>2, SumTyped
<1> QED
  BY <1>3, <1>4

(* Entries that lead to a row add up to it, and number its version.        *)
LEMMA ReachedRowIsSum ==
    ASSUME NEW s \in Seq(Entries), NEW row, Reaches(s, row)
    PROVE  Balances(row) = Sums(s) /\ row.version = Len(s) + 1
<1> DEFINE amt == [i \in 1 .. Len(s) |-> s[i].amount]
           dlt == [i \in 1 .. Len(s) |-> s[i].delta]
           P == {n \in 0 .. Len(s) :
                    RowBefore(s, n + 1) = RowOf([available |-> SumOf(amt, 1 .. n),
                                                 reserved  |-> SumOf(dlt, 1 .. n)], n + 1)}
<1>1. Len(s) \in Nat /\ \A n \in Nat : IsFiniteSet(1 .. n)
  BY LenProperties, FS_Interval
<1>2. \A i \in 1 .. Len(s) : /\ s[i].amount \in Int /\ s[i].delta \in Int
                             /\ amt[i] = s[i].amount /\ dlt[i] = s[i].delta
  BY AmountsAreIntegers
<1> HIDE DEF amt, dlt
<1>3. 0 \in P
  <2>1. 1 .. 0 = {}
    OBVIOUS
  <2>2. SumOf(amt, 1 .. 0) = 0 /\ SumOf(dlt, 1 .. 0) = 0
    BY <2>1, SumEmpty
  <2> QED
    BY <1>1, <2>2 DEF RowBefore, NoMoney
<1>4. ASSUME NEW n \in 0 .. Len(s) - 1, n \in P
      PROVE  n + 1 \in P
  <2>1. n \in Nat /\ n + 1 \in 1 .. Len(s) /\ n + 1 \in 0 .. Len(s)
    BY <1>1
  <2>2. 1 .. n + 1 = (1 .. n) \cup {n + 1} /\ n + 1 \notin 1 .. n
    BY <2>1
  <2>3. IsFiniteSet(1 .. n) /\ 1 .. n + 1 \subseteq 1 .. Len(s)
    BY <1>1, <2>1
  <2> DEFINE T == 1 .. n
             e == n + 1
  <2>4. /\ SumOf(amt, T) \in Int /\ SumOf(amt, T \cup {e}) = SumOf(amt, T) + amt[e]
        /\ SumOf(dlt, T) \in Int /\ SumOf(dlt, T \cup {e}) = SumOf(dlt, T) + dlt[e]
    <3>1. /\ IsFiniteSet(T) /\ e \notin T
          /\ \A x \in T \cup {e} : amt[x] \in Int
          /\ \A x \in T \cup {e} : dlt[x] \in Int
      BY <1>2, <2>2, <2>3
    <3> HIDE DEF T, e
    <3>2. SumOf(amt, T) \in Int /\ SumOf(amt, T \cup {e}) = SumOf(amt, T) + amt[e]
      BY <3>1, SumWith, SumTyped
    <3>3. SumOf(dlt, T) \in Int /\ SumOf(dlt, T \cup {e}) = SumOf(dlt, T) + dlt[e]
      BY <3>1, SumWith, SumTyped
    <3> QED
      BY <3>2, <3>3
  <2>5. RowBefore(s, n + 1) = RowOf([available |-> SumOf(amt, T), reserved |-> SumOf(dlt, T)], n + 1)
    BY <1>4
  <2>6. RowBefore(s, n + 2) =
          RowOf(After(Balances(RowBefore(s, n + 1)), s[n + 1]), RowBefore(s, n + 1).version + 1)
    <3>1. (n + 1) + 1 = n + 2
      BY <2>1
    <3> QED
      BY <2>1, <3>1 DEF Reaches
  <2>7. RowBefore(s, n + 2) =
          RowOf([available |-> SumOf(amt, T) + s[e].amount,
                 reserved  |-> SumOf(dlt, T) + s[e].delta], (n + 1) + 1)
    BY <2>5, <2>6 DEF RowOf, After, Balances
  <2>8. amt[e] = s[e].amount /\ dlt[e] = s[e].delta /\ (n + 1) + 1 = n + 2
    BY <1>2, <2>1
  <2> QED
    BY <2>1, <2>2, <2>4, <2>7, <2>8
<1>5. \A n \in 0 .. Len(s) : n \in P
  <2> HIDE DEF P
  <2> QED
    BY <1>1, <1>3, <1>4, UpTo
<1>6. row = RowOf([available |-> SumOf(amt, 1 .. Len(s)), reserved |-> SumOf(dlt, 1 .. Len(s))],
                  Len(s) + 1)
  BY <1>1, <1>5 DEF Reaches
<1> QED
  BY <1>6, SumsAreSums DEF RowOf, Balances, amt, dlt

LEMMA ReplayedIsSum == IInv => AccountIsSum
<1> SUFFICES ASSUME IInv, NEW a \in Accounts PROVE Balances(account[a]) = Sums(journal[a])
  BY DEF AccountIsSum
<1>1. CASE journal[a] = <<>>
  <2>1. account[a] = NoRow
    BY <1>1 DEF IInv, JournalReplays
  <2>2. Len(<<>>) = 0 /\ 1 .. 0 = {}
    OBVIOUS
  <2>3. Sums(<<>>) = [available |-> 0, reserved |-> 0]
    BY <2>2, SumEmpty, SumsAreSums
  <2> QED
    BY <1>1, <2>1, <2>3 DEF NoRow, RowOf, Balances, NoMoney
<1>2. CASE journal[a] # <<>>
  BY <1>2, ReachedRowIsSum DEF IInv, JournalReplays, LedgerTypes
<1> QED
  BY <1>1, <1>2

CheckRecords ==
    [stage : {"idle", "account", "sums", "done"}, on : Accounts \cup {NoAccount}, row : Rows,
     sums : [available : Int, reserved : Int], ok : BOOLEAN]

CheckTypes == check \in [Checkers -> CheckRecords]

(* What a checker has read is no newer than the account; while the account *)
(* keeps the version that was read, it is what the account and its journal *)
(* still are.                                                              *)
IsOfVersion(read) ==
    read.stage # "idle" =>
        /\ read.on \in Accounts
        /\ journal[read.on] # <<>>
        /\ read.row.version <= account[read.on].version
        /\ account[read.on].version = read.row.version =>
              /\ account[read.on] = read.row
              /\ read.stage = "sums" => read.sums = Sums(journal[read.on])
              /\ read.stage = "done" => read.ok

ReadsAreOfVersions == \A c \in Checkers : IsOfVersion(check[c])

CheckInv == IInv /\ CheckTypes /\ ReadsAreOfVersions

LEMMA InitChecks == Init => CheckInv
<1> SUFFICES ASSUME Init PROVE CheckInv
  OBVIOUS
<1>1. NoRow \in Rows /\ NoMoney \in [available : Int, reserved : Int]
  BY DEF NoRow, RowOf, NoMoney, Rows
<1>2. CheckTypes
  BY <1>1 DEF Init, Unstarted, CheckTypes, CheckRecords
<1>3. ReadsAreOfVersions
  BY DEF Init, Unstarted, ReadsAreOfVersions, IsOfVersion
<1> QED
  BY <1>2, <1>3, InitIsSafe DEF CheckInv

(* The last entry of a journal left the row of the account.                *)
LEMMA LastEntryLeftRow ==
    ASSUME NEW s \in Seq(Entries), s # <<>>, NEW row, Reaches(s, row)
    PROVE  row = [available |-> LastEntry(s).availableAfter, reserved |-> LastEntry(s).reservedAfter,
                  version |-> LastEntry(s).version]
<1>1. Len(s) \in Nat /\ Len(s) # 0
  BY LenProperties, EmptySeq
<1>2. Len(s) + 1 # 1 /\ (Len(s) + 1) - 1 = Len(s)
  BY <1>1
<1> QED
  BY <1>2 DEF Reaches, RowBefore, RowOf, LastEntry

(* One checker moves, the tables do not.                                   *)
LEMMA CheckerMoves ==
    ASSUME CheckInv, UNCHANGED tables, NEW c \in Checkers,
           check' = [check EXCEPT ![c] = check'[c]],
           check'[c] \in CheckRecords, IsOfVersion(check'[c])
    PROVE  CheckInv'
<1>1. IInv'
  BY ReadsAreSafe DEF CheckInv
<1>2. CheckTypes'
  BY DEF CheckInv, CheckTypes
<1>3. \A d \in Checkers \ {c} : check'[d] = check[d]
  BY DEF CheckInv, CheckTypes
<1>4. ReadsAreOfVersions'
  BY <1>3 DEF CheckInv, ReadsAreOfVersions, IsOfVersion, tables
<1> QED
  BY <1>1, <1>2, <1>4 DEF CheckInv

LEMMA ReadAccountIsSafe ==
    ASSUME CheckInv, NEW c \in Checkers, NEW a \in Accounts, ReadAccount(c, a)
    PROVE  CheckInv'
<1> DEFINE read == [stage |-> "account", on |-> a, row |-> account[a],
                    sums |-> NoMoney, ok |-> TRUE]
<1>1. account[a] \in Rows /\ NoMoney \in [available : Int, reserved : Int]
  BY DEF CheckInv, IInv, LedgerTypes, NoMoney
<1>2. check' = [check EXCEPT ![c] = read] /\ UNCHANGED tables
  BY DEF ReadAccount, tables
<1>3. check'[c] = read
  BY <1>2 DEF CheckInv, CheckTypes
<1>4. read \in CheckRecords
  BY <1>1 DEF CheckRecords
<1>5. IsOfVersion(read)
  <2>1. journal[a] # <<>>
    BY DEF CheckInv, IInv, JournalReplays, ReadAccount
  <2>2. account[a].version <= account[a].version
    BY <1>1 DEF Rows
  <2> QED
    BY <2>1, <2>2 DEF IsOfVersion
<1> HIDE DEF read
<1> QED
  BY <1>2, <1>3, <1>4, <1>5, CheckerMoves

LEMMA ReadSumsIsSafe ==
    ASSUME CheckInv, NEW c \in Checkers, ReadSums(c)
    PROVE  CheckInv'
<1> DEFINE read == [check[c] EXCEPT !.stage = "sums", !.sums = Sums(journal[check[c].on])]
<1>1. check[c] \in CheckRecords /\ IsOfVersion(check[c]) /\ check[c].stage # "idle"
  BY DEF CheckInv, CheckTypes, ReadsAreOfVersions, ReadSums
<1>2. check' = [check EXCEPT ![c] = read] /\ UNCHANGED tables
  BY DEF CheckInv, CheckTypes, ReadSums, tables
<1>3. check'[c] = read
  BY <1>2 DEF CheckInv, CheckTypes
<1>4. Sums(journal[check[c].on]) \in [available : Int, reserved : Int]
  <2>1. journal[check[c].on] \in Seq(Entries)
    BY <1>1 DEF CheckInv, IInv, LedgerTypes, IsOfVersion
  <2> QED
    BY <2>1, SumsAreIntegers
<1>5. read \in CheckRecords
  BY <1>1, <1>4 DEF CheckRecords
<1>6. /\ read.stage = "sums" /\ read.on = check[c].on /\ read.row = check[c].row
      /\ read.sums = Sums(journal[check[c].on])
  BY <1>1 DEF CheckRecords
<1>7. IsOfVersion(read)
  BY <1>1, <1>6 DEF IsOfVersion
<1> HIDE DEF read
<1> QED
  BY <1>2, <1>3, <1>5, <1>7, CheckerMoves

LEMMA ReadLastIsSafe ==
    ASSUME CheckInv, NEW c \in Checkers, ReadLast(c)
    PROVE  CheckInv'
<1> DEFINE a == check[c].on
           agrees == Agrees(check[c].row, check[c].sums, journal[a])
           read == [check[c] EXCEPT !.stage = "done", !.ok = agrees]
<1>1. check[c] \in CheckRecords /\ IsOfVersion(check[c]) /\ check[c].stage = "sums"
  BY DEF CheckInv, CheckTypes, ReadsAreOfVersions, ReadLast
<1>2. check' = [check EXCEPT ![c] = read] /\ UNCHANGED tables
  BY DEF CheckInv, CheckTypes, ReadLast, tables
<1>3. check'[c] = read
  BY <1>2 DEF CheckInv, CheckTypes
<1>4. agrees \in BOOLEAN
  BY DEF Agrees
<1> HIDE DEF agrees
<1>5. read \in CheckRecords
  BY <1>1, <1>4 DEF CheckRecords
<1>6. /\ read.stage = "done" /\ read.on = a /\ read.row = check[c].row /\ read.ok = agrees
  BY <1>1 DEF CheckRecords
<1>7. /\ a \in Accounts /\ journal[a] \in Seq(Entries) /\ journal[a] # <<>>
      /\ Reaches(journal[a], account[a])
  BY <1>1 DEF CheckInv, IInv, LedgerTypes, IsOfVersion, JournalReplays
<1>8. ASSUME account[a].version = check[c].row.version
      PROVE  agrees
  <2>1. account[a] = check[c].row /\ check[c].sums = Sums(journal[a])
    BY <1>1, <1>8 DEF IsOfVersion
  <2> HIDE DEF a
  <2>2. Balances(account[a]) = Sums(journal[a])
    BY <1>7, ReachedRowIsSum
  <2> QED
    BY <1>7, <2>1, <2>2, LastEntryLeftRow DEF agrees, Agrees
<1>9. IsOfVersion(read)
  <2> HIDE DEF read
  <2> QED
    BY <1>1, <1>6, <1>8 DEF IsOfVersion
<1> HIDE DEF read
<1> QED
  BY <1>2, <1>3, <1>5, <1>9, CheckerMoves

LEMMA RestIsSafe ==
    ASSUME CheckInv, NEW c \in Checkers, Rest(c)
    PROVE  CheckInv'
<1>1. NoRow \in Rows /\ NoMoney \in [available : Int, reserved : Int]
  BY DEF NoRow, RowOf, NoMoney, Rows
<1>2. check' = [check EXCEPT ![c] = Unstarted] /\ UNCHANGED tables
  BY DEF Rest, tables
<1>3. check'[c] = Unstarted
  BY <1>2 DEF CheckInv, CheckTypes
<1>4. Unstarted \in CheckRecords /\ IsOfVersion(Unstarted)
  BY <1>1 DEF Unstarted, CheckRecords, IsOfVersion
<1> QED
  BY <1>2, <1>3, <1>4, CheckerMoves

(* Writers leave the checkers alone, and an account they change takes a    *)
(* later version.                                                          *)
LEMMA CommitMovesVersion ==
    ASSUME IInv, NEW w \in Writers, Commit(w), NEW b \in Accounts, journal[b] # <<>>
    PROVE  /\ journal'[b] # <<>>
           /\ \/ journal'[b] = journal[b] /\ account'[b] = account[b]
              \/ account'[b].version > account[b].version
<1> DEFINE a == txn[w].on
<1>1. /\ a \in Accounts /\ journal[a] \in Seq(Entries) /\ txn[w].new \in Seq(Entries)
      /\ journal'[a] = journal[a] \o txn[w].new
      /\ account'[a] = txn[w].row
      /\ \A d \in Accounts \ {a} : journal'[d] = journal[d] /\ account'[d] = account[d]
  BY CommittedTables
<1>2. CASE b # a
  BY <1>1, <1>2
<1>3. CASE b = a
  <2> DEFINE s == journal[a]
             t == txn[w].new
  <2>1. /\ s \in Seq(Entries) /\ t \in Seq(Entries) /\ s \o t \in Seq(Entries) /\ s # <<>>
        /\ Len(s \o t) = Len(s) + Len(t) /\ Len(s) \in Nat /\ Len(t) \in Nat
    BY <1>1, <1>3, ConcatProperties, LenProperties
  <2>2. Reaches(s, account[a]) /\ Reaches(s \o t, txn[w].row)
    BY <1>1, <1>3, NoAccountAssumption DEF IInv, JournalReplays, PendingReplays
  <2>3. /\ account[a].version = Len(s) + 1
        /\ txn[w].row.version = Len(s) + Len(t) + 1
    <3> HIDE DEF s, t, a
    <3>1. account[a].version = Len(s) + 1
      BY <2>1, <2>2, ReachedRowIsSum
    <3>2. txn[w].row.version = Len(s \o t) + 1
      BY <2>1, <2>2, ReachedRowIsSum
    <3> QED
      BY <2>1, <3>1, <3>2
  <2>4. s \o t # <<>>
    <3>1. Len(s) # 0
      BY <2>1, EmptySeq
    <3> HIDE DEF s, t
    <3>2. Len(s \o t) # 0 /\ Len(<<>>) = 0
      BY <2>1, <3>1
    <3> QED
      BY <3>2
  <2>5. CASE t = <<>>
    <3>1. s \o t = s
      BY <2>1, <2>5, ConcatEmptySeq
    <3>2. txn[w].row = account[a]
      BY <2>2, <3>1 DEF Reaches
    <3> QED
      BY <1>1, <1>3, <2>1, <3>1, <3>2
  <2>6. CASE t # <<>>
    <3>1. Len(t) # 0
      BY <2>1, <2>6, EmptySeq
    <3> DEFINE m == Len(s)
               n == Len(t)
    <3>2. m \in Nat /\ n \in Nat /\ n # 0
      BY <2>1, <3>1
    <3>3. txn[w].row.version = m + n + 1 /\ account[a].version = m + 1
      BY <2>3
    <3> HIDE DEF m, n
    <3>4. txn[w].row.version > account[a].version
      BY <3>2, <3>3
    <3> QED
      BY <1>1, <1>3, <2>4, <3>4
  <2> QED
    BY <2>5, <2>6
<1> QED
  BY <1>2, <1>3

LEMMA CommitKeepsChecks ==
    ASSUME CheckInv, NEW w \in Writers, Commit(w)
    PROVE  CheckInv'
<1>1. IInv' /\ check' = check
  BY CommitIsSafe DEF CheckInv, Commit
<1>2. CheckTypes'
  BY <1>1 DEF CheckInv, CheckTypes
<1>3. ASSUME NEW c \in Checkers, check[c].stage # "idle"
      PROVE  IsOfVersion(check[c])'
  <2> DEFINE b == check[c].on
  <2>1. IsOfVersion(check[c])
    BY DEF CheckInv, ReadsAreOfVersions
  <2>2. /\ b \in Accounts /\ journal'[b] # <<>>
        /\ \/ journal'[b] = journal[b] /\ account'[b] = account[b]
           \/ account'[b].version > account[b].version
    BY <1>3, <2>1, CommitMovesVersion DEF CheckInv, IsOfVersion
  <2>3. check[c].row.version \in Nat /\ account[b].version \in Nat /\ account'[b].version \in Nat
    BY <1>1, <2>2 DEF CheckInv, CheckTypes, CheckRecords, IInv, LedgerTypes, Rows
  <2>4. CASE journal'[b] = journal[b] /\ account'[b] = account[b]
    BY <1>1, <1>3, <2>1, <2>2, <2>4 DEF IsOfVersion
  <2>5. CASE account'[b].version > account[b].version
    <3>1. check[c].row.version <= account[b].version
      BY <1>3, <2>1 DEF IsOfVersion
    <3> DEFINE x == check[c].row.version
               y == account[b].version
               z == account'[b].version
    <3>2. x \in Nat /\ y \in Nat /\ z \in Nat /\ x <= y /\ z > y
      BY <2>3, <2>5, <3>1
    <3> HIDE DEF x, y, z
    <3>3. x <= z /\ z # x
      BY <3>2
    <3> QED
      BY <1>1, <2>2, <3>3 DEF IsOfVersion, x, z
  <2> QED
    BY <2>2, <2>4, <2>5
<1>4. ReadsAreOfVersions'
  BY <1>1, <1>3 DEF ReadsAreOfVersions, IsOfVersion
<1> QED
  BY <1>1, <1>2, <1>4 DEF CheckInv

LEMMA NextKeepsChecks == CheckInv /\ [Next]_vars => CheckInv'
<1> SUFFICES ASSUME CheckInv, [Next]_vars PROVE CheckInv'
  OBVIOUS
<1>0. IInv'
  BY NextIsSafe DEF CheckInv
<1>1. ASSUME UNCHANGED <<account, journal, check>> PROVE CheckInv'
  BY <1>0, <1>1 DEF CheckInv, CheckTypes, ReadsAreOfVersions, IsOfVersion
<1>2. ASSUME NEW w \in Writers, NEW a \in Accounts, Open(w, a) \/ LockAccount(w, a) PROVE CheckInv'
  BY <1>1, <1>2 DEF Open, LockAccount
<1>3. ASSUME NEW w \in Writers, NEW key \in Keys, NEW type \in OrderTypes,
             NEW stake \in Cents, NEW paid \in Cents \cup {0},
             AppendEntry(w, key, type, stake, paid) \/ Replay(w, key, type, stake, paid)
      PROVE  CheckInv'
  BY <1>1, <1>3 DEF AppendEntry, Replay
<1>4. ASSUME NEW w \in Writers, Commit(w) \/ Rollback(w) PROVE CheckInv'
  <2>1. CASE Rollback(w)
    BY <1>1, <2>1 DEF Rollback
  <2> QED
    BY <1>4, <2>1, CommitKeepsChecks
<1>5. ASSUME NEW c \in Checkers,
             (\E a \in Accounts : ReadAccount(c, a)) \/ ReadSums(c) \/ ReadLast(c) \/ Rest(c)
      PROVE  CheckInv'
  BY <1>5, ReadAccountIsSafe, ReadSumsIsSafe, ReadLastIsSafe, RestIsSafe
<1>6. CASE UNCHANGED vars
  BY <1>1, <1>6 DEF vars
<1> QED
  BY <1>2, <1>3, <1>4, <1>5, <1>6 DEF Next

-----------------------------------------------------------------------------
(* Theorems *)

(* IInv is an invariant of every execution.                                *)
THEOREM InvariantIsKept == Spec => []IInv
BY InitIsSafe, NextIsSafe, PTL DEF Spec

(* Tables and transactions keep their types: no balance is ever negative,  *)
(* committed or not (planEntry).                                           *)
THEOREM BalancesStayNatural == Spec => []LedgerTypes
<1>1. IInv => LedgerTypes
  BY DEF IInv
<1> QED
  BY <1>1, InvariantIsKept, PTL

(* Each entry goes on from the one before and the row is what the last     *)
(* entry left (append, appendBatch).                                       *)
THEOREM JournalsReplay == Spec => []JournalReplays
<1>1. IInv => JournalReplays
  BY DEF IInv
<1> QED
  BY <1>1, InvariantIsKept, PTL

(* One movement per entry key over all accounts.                           *)
THEOREM KeysAreBookedOnce == Spec => []OneEntryPerKey
<1>1. IInv => OneEntryPerKey
  BY DEF IInv
<1> QED
  BY <1>1, InvariantIsKept, PTL

(* The row of every account is the sum of its entries: the invariant       *)
(* verifyInvariant looks for.                                              *)
THEOREM BalancesAreSums == Spec => []AccountIsSum
BY ReplayedIsSum, InvariantIsKept, PTL

LEMMA ChecksAreKept == Spec => []CheckInv
BY InitChecks, NextKeepsChecks, PTL DEF Spec

(* Types of the whole state, checkers included.                            *)
THEOREM TypesHold == Spec => []TypeOK
<1>1. CheckInv => TypeOK
  BY DEF CheckInv, IInv, CheckTypes, CheckRecords, TypeOK
<1> QED
  BY <1>1, ChecksAreKept, PTL

(* verifyInvariant, whose three reads are no transaction, reports no       *)
(* divergence when the version of the account is still the one it read.    *)
THEOREM ChecksRaiseNoFalseAlarm == Spec => []UndisturbedChecksPass
<1>1. CheckInv => UndisturbedChecksPass
  BY DEF CheckInv, ReadsAreOfVersions, IsOfVersion, UndisturbedChecksPass
<1> QED
  BY <1>1, ChecksAreKept, PTL

(* What a committed caller of append was told is in the journal.           *)
THEOREM AnswersStayTrue == Spec => []AnswersAreTrue
<1>1. IInv => AnswersAreTrue
  BY DEF IInv
<1> QED
  BY <1>1, InvariantIsKept, PTL

(* No step changes or removes an entry.                                    *)
LEMMA StepsOnlyAppend ==
    ASSUME IInv, Next
    PROVE  \A a \in Accounts :
              /\ Len(journal[a]) <= Len(journal'[a])
              /\ \A i \in 1 .. Len(journal[a]) : journal'[a][i] = journal[a][i]
<1>1. \A a \in Accounts : Len(journal[a]) \in Nat
  BY LenProperties DEF IInv, LedgerTypes
<1>2. CASE UNCHANGED journal
  BY <1>1, <1>2
<1>3. ASSUME NEW w \in Writers, Commit(w), NEW b \in Accounts
      PROVE  /\ Len(journal[b]) <= Len(journal'[b])
             /\ \A i \in 1 .. Len(journal[b]) : journal'[b][i] = journal[b][i]
  <2> DEFINE a == txn[w].on
  <2>1. /\ journal[a] \in Seq(Entries) /\ txn[w].new \in Seq(Entries)
        /\ journal'[a] = journal[a] \o txn[w].new
        /\ \A c \in Accounts \ {a} : journal'[c] = journal[c]
    BY <1>3, CommittedTables
  <2>2. CASE b = a
    <3> DEFINE s == journal[b]
               st == journal'[b]
               t == txn[w].new
    <3>1. s \in Seq(Entries) /\ t \in Seq(Entries) /\ st = s \o t
      BY <2>1, <2>2
    <3> HIDE DEF s, st, t
    <3>2. Len(s) <= Len(st) /\ \A i \in 1 .. Len(s) : st[i] = s[i]
      BY <3>1, ConcatEntries
    <3> QED
      BY <3>2 DEF s, st
  <2>3. CASE b # a
    BY <1>1, <2>1, <2>3
  <2> QED
    BY <2>2, <2>3
<1>4. UNCHANGED journal \/ \E w \in Writers : Commit(w)
  <2>1. ASSUME NEW w \in Writers, NEW a \in Accounts, Open(w, a) \/ LockAccount(w, a)
        PROVE  UNCHANGED journal
    BY <2>1 DEF Open, LockAccount
  <2>2. ASSUME NEW w \in Writers, NEW key, NEW type, NEW stake, NEW paid,
               AppendEntry(w, key, type, stake, paid) \/ Replay(w, key, type, stake, paid)
        PROVE  UNCHANGED journal
    BY <2>2 DEF AppendEntry, Replay
  <2>3. ASSUME NEW w \in Writers, Rollback(w)
        PROVE  UNCHANGED journal
    BY <2>3 DEF Rollback
  <2>4. ASSUME NEW c \in Checkers,
               (\E a \in Accounts : ReadAccount(c, a)) \/ ReadSums(c) \/ ReadLast(c) \/ Rest(c)
        PROVE  UNCHANGED journal
    BY <2>4 DEF ReadAccount, ReadSums, ReadLast, Rest
  <2> QED
    BY <2>1, <2>2, <2>3, <2>4 DEF Next
<1> QED
  BY <1>2, <1>3, <1>4

(* The journal is append-only ("Journal append-only", LedgerService).      *)
THEOREM JournalIsAppendOnly == Spec => NothingRewritten
<1>1. IInv /\ [Next]_vars =>
        [\A a \in Accounts :
            /\ Len(journal[a]) <= Len(journal'[a])
            /\ \A i \in 1 .. Len(journal[a]) : journal'[a][i] = journal[a][i]]_vars
  BY StepsOnlyAppend
<1> QED
  BY <1>1, InvariantIsKept, PTL DEF Spec, NothingRewritten

-----------------------------------------------------------------------------
(* The limits *)

Stages == {"none", "control", "judged", "booked", "settled", "added", "stopping"}
Claims == [stage : Stages, key : Keys \cup {NoKey}, stake : Cents \cup {0}, stop : BOOLEAN]

ClaimTypes == claim \in [Writers -> Claims]

(* No transaction, committed or not, has more at stake than the limit.     *)
PendingExposureHolds == \A w \in Writers : txn[w].row.reserved <= MaxOpenExposure

(* What a reservation was permitted still fits its account.                *)
Fits(c, t) ==
    c.stage = "judged" =>
        /\ c.key \in Keys /\ c.stake \in Cents
        /\ t.row.reserved + c.stake <= MaxOpenExposure

JudgedFits == \A w \in Writers : Fits(claim[w], txn[w])

ExposureInv ==
    /\ ClaimTypes
    /\ ExposureHolds
    /\ PendingExposureHolds
    /\ JudgedFits

RInv == IInv /\ ExposureInv

Transactions == [on : Accounts \cup {NoAccount}, row : Rows, new : Seq(Entries),
                 told : SUBSET Movements]

LEMMA NoClaimIsTyped == NoClaim \in Claims /\ NoClaim.stage = "none"
BY DEF NoClaim, Claims, Stages

LEMMA IdleExposes == Idle.row.reserved = 0
BY DEF Idle, NoRow, RowOf, NoMoney

LEMMA RiskInitIsSafe == RiskInit => RInv
<1> SUFFICES ASSUME RiskInit PROVE RInv
  OBVIOUS
<1>1. IInv
  BY InitIsSafe DEF RiskInit
<1>2. \A w \in Writers : txn[w] = Idle /\ claim[w] = NoClaim
  BY DEF RiskInit, Init
<1>3. ClaimTypes
  BY NoClaimIsTyped DEF RiskInit, ClaimTypes
<1>4. ExposureHolds
  BY PolicyAssumption DEF RiskInit, Init, ExposureHolds, NoRow, RowOf, NoMoney
<1>5. PendingExposureHolds /\ JudgedFits
  BY <1>2, IdleExposes, NoClaimIsTyped, PolicyAssumption
     DEF PendingExposureHolds, JudgedFits, Fits
<1> QED
  BY <1>1, <1>3, <1>4, <1>5 DEF RInv, ExposureInv

-----------------------------------------------------------------------------
(* Every step of the risk engine is one of the ledger, or leaves it alone. *)

LEMMA AbandonIsRollback ==
    ASSUME IInv, NEW w \in Writers,
           txn' = [txn EXCEPT ![w] = Idle], UNCHANGED <<account, journal, answers, check>>
    PROVE  [Next]_vars
<1>1. CASE txn[w].on # NoAccount
  BY <1>1 DEF Rollback, Next
<1>2. CASE txn[w].on = NoAccount
  <2>1. txn[w] = Idle /\ txn \in [Writers -> Transactions]
    BY <1>2 DEF IInv, IdleHasNothing, LedgerTypes, Transactions
  <2>2. txn' = txn
    BY <2>1
  <2> QED
    BY <2>2 DEF vars
<1> QED
  BY <1>1, <1>2

LEMMA RiskStepIsLedgerStep == RInv /\ [RiskNext]_riskVars => [Next]_vars
<1> SUFFICES ASSUME RInv, [RiskNext]_riskVars PROVE [Next]_vars
  OBVIOUS
<1>1. ASSUME NEW w \in Writers, BeginReserve(w) \/ AddUpDay(w) \/ RaiseStop(w)
      PROVE  UNCHANGED vars
  BY <1>1 DEF BeginReserve, AddUpDay, RaiseStop
<1>2. ASSUME NEW w \in Writers, BookReserve(w)
      PROVE  Next
  <2>1. claim[w].key \in Keys /\ claim[w].stake \in Cents
    BY <1>2 DEF BookReserve, RInv, ExposureInv, JudgedFits, Fits
  <2>2. "RESERVE" \in OrderTypes /\ 0 \in Cents \cup {0}
    BY DEF OrderTypes, EntryTypes
  <2>3. AppendEntry(w, claim[w].key, "RESERVE", claim[w].stake, 0)
    BY <1>2 DEF BookReserve
  <2> QED
    BY <2>1, <2>2, <2>3 DEF Next
<1>3. ASSUME NEW w \in Writers, CommitClaim(w)
      PROVE  Next
  BY <1>3 DEF CommitClaim, Next
<1>4. ASSUME NEW w \in Writers,
             Abandon(w) \/ \E stake \in Cents, stale \in BOOLEAN : Refuse(w, stake, stale)
      PROVE  [Next]_vars
  BY <1>4, AbandonIsRollback DEF RInv, Abandon, Refuse
<1>5. ASSUME NEW w \in Writers, NEW a \in Accounts,
             LockForReserve(w, a) \/ OpenAccount(w, a) \/ LockForEntry(w, a)
      PROVE  Next
  BY <1>5 DEF LockForReserve, OpenAccount, LockForEntry, Next
<1>6. ASSUME NEW w \in Writers, NEW key \in Keys, NEW stake \in Cents,
             ReplayReserve(w, key, stake) \/ ReleaseStake(w, key, stake)
      PROVE  Next
  <2>1. "RESERVE" \in OrderTypes /\ "RELEASE" \in OrderTypes /\ 0 \in Cents \cup {0}
    BY DEF OrderTypes, EntryTypes
  <2> QED
    BY <1>6, <2>1 DEF ReplayReserve, ReleaseStake, Next
<1>7. ASSUME NEW w \in Writers, NEW key \in Keys, NEW stake \in Cents, Judge(w, key, stake)
      PROVE  UNCHANGED vars
  BY <1>7 DEF Judge
<1>8. ASSUME NEW w \in Writers, NEW key \in Keys, NEW stake \in Cents, NEW paid \in Payouts,
             NEW type \in OrderTypes,
             SettleStake(w, key, stake, paid) \/ ReplayEntry(w, key, type, stake, paid)
      PROVE  Next
  <2>1. "SETTLE" \in OrderTypes /\ paid \in Cents \cup {0}
    BY PayoutsAssumption DEF OrderTypes, EntryTypes
  <2> QED
    BY <1>8, <2>1 DEF SettleStake, ReplayEntry, Next
<1>9. ASSUME (\E c \in Checkers, a \in Accounts : ReadAccount(c, a)) \/ \E c \in Checkers : CheckStep(c)
      PROVE  Next
  BY <1>9 DEF CheckStep, Next
<1>10. ASSUME Reactivate \/ Midnight \/ UNCHANGED riskVars
       PROVE  UNCHANGED vars
  BY <1>10 DEF Reactivate, Midnight, riskVars, vars
<1>11. "SETTLE" \in OrderTypes
  BY DEF OrderTypes, EntryTypes
<1> QED
  BY <1>1, <1>2, <1>3, <1>4, <1>5, <1>6, <1>7, <1>8, <1>9, <1>10, <1>11 DEF RiskNext

-----------------------------------------------------------------------------
(* The exposure *)

(* A step of one writer, before the accounts change.                       *)
LEMMA OneWriterFits ==
    ASSUME RInv, NEW w \in Writers, NEW t, NEW c \in Claims,
           txn' = [txn EXCEPT ![w] = t], claim' = [claim EXCEPT ![w] = c],
           t.row.reserved <= MaxOpenExposure, Fits(c, t), ExposureHolds'
    PROVE  ExposureInv'
<1>1. txn \in [Writers -> Transactions] /\ claim \in [Writers -> Claims]
  BY DEF RInv, IInv, LedgerTypes, Transactions, ExposureInv, ClaimTypes
<1>2. /\ txn'[w] = t /\ claim'[w] = c
      /\ \A v \in Writers \ {w} : txn'[v] = txn[v] /\ claim'[v] = claim[v]
      /\ claim' \in [Writers -> Claims]
  BY <1>1
<1>3. PendingExposureHolds'
  BY <1>2 DEF RInv, ExposureInv, PendingExposureHolds
<1>4. JudgedFits'
  BY <1>2 DEF RInv, ExposureInv, JudgedFits, Fits
<1> QED
  BY <1>2, <1>3, <1>4 DEF ExposureInv, ClaimTypes

(* The steps of a writer after which no judgement is pending.              *)
MovesClaim(w) ==
    \/ BeginReserve(w) \/ AddUpDay(w) \/ RaiseStop(w) \/ CommitClaim(w) \/ Abandon(w)
    \/ \E a : LockForReserve(w, a) \/ OpenAccount(w, a) \/ LockForEntry(w, a)
    \/ \E stake, stale : Refuse(w, stake, stale)
    \/ \E key, stake : ReplayReserve(w, key, stake) \/ ReleaseStake(w, key, stake)
    \/ \E key, type, stake, paid :
           SettleStake(w, key, stake, paid) \/ ReplayEntry(w, key, type, stake, paid)

LEMMA ClaimMoves ==
    ASSUME RInv, NEW w \in Writers, MovesClaim(w)
    PROVE  \E c \in Claims : claim' = [claim EXCEPT ![w] = c] /\ c.stage # "judged"
<1>0. claim \in [Writers -> Claims] /\ claim[w] \in Claims
  BY DEF RInv, ExposureInv, ClaimTypes
<1>1. ASSUME NEW stage \in Stages \ {"judged"},
             \/ claim' = [claim EXCEPT ![w].stage = stage]
             \/ claim' = [claim EXCEPT ![w] = [NoClaim EXCEPT !.stage = stage]]
      PROVE  \E c \in Claims : claim' = [claim EXCEPT ![w] = c] /\ c.stage # "judged"
  <2>1. /\ [claim[w] EXCEPT !.stage = stage] \in Claims
        /\ [claim[w] EXCEPT !.stage = stage].stage = stage
        /\ [NoClaim EXCEPT !.stage = stage] \in Claims
        /\ [NoClaim EXCEPT !.stage = stage].stage = stage
    BY <1>0 DEF Claims, NoClaim
  <2>2. CASE claim' = [claim EXCEPT ![w].stage = stage]
    <3>1. claim' = [claim EXCEPT ![w] = [claim[w] EXCEPT !.stage = stage]]
      BY <1>0, <2>2
    <3> QED
      BY <2>1, <3>1
  <2> QED
    BY <1>1, <2>1, <2>2
<1>2. {"control", "booked", "settled", "stopping"} \subseteq Stages \ {"judged"}
  BY DEF Stages
<1>3. ASSUME claim[w].stage # "judged", claim' = claim
      PROVE  \E c \in Claims : claim' = [claim EXCEPT ![w] = c] /\ c.stage # "judged"
  <2>1. claim' = [claim EXCEPT ![w] = claim[w]]
    BY <1>0, <1>3
  <2> QED
    BY <1>0, <1>3, <2>1
<1>4. ASSUME NEW a, LockForReserve(w, a) \/ OpenAccount(w, a) \/ LockForEntry(w, a)
      PROVE  claim[w].stage # "judged" /\ claim' = claim
  BY <1>4, NoClaimIsTyped DEF LockForReserve, OpenAccount, LockForEntry
<1>5. ASSUME NEW key, NEW type, NEW stake, NEW paid,
             ReleaseStake(w, key, stake) \/ ReplayEntry(w, key, type, stake, paid)
      PROVE  claim[w].stage # "judged" /\ claim' = claim
  BY <1>5, NoClaimIsTyped DEF ReleaseStake, ReplayEntry
<1>6. ASSUME AddUpDay(w)
      PROVE  \E c \in Claims : claim' = [claim EXCEPT ![w] = c] /\ c.stage # "judged"
  <2> DEFINE c == [NoClaim EXCEPT !.stage = "added", !.stop = LossReached(w)]
  <2>1. c \in Claims /\ c.stage # "judged"
    BY DEF Claims, Stages, NoClaim, LossReached
  <2>2. claim' = [claim EXCEPT ![w] = c]
    BY <1>6 DEF AddUpDay
  <2> QED
    BY <2>1, <2>2
<1>7. ASSUME NEW key, NEW stake, NEW paid,
             BeginReserve(w) \/ ReplayReserve(w, key, stake) \/ SettleStake(w, key, stake, paid)
      PROVE  \E stage \in {"control", "booked", "settled"} : claim' = [claim EXCEPT ![w].stage = stage]
  BY <1>7 DEF BeginReserve, ReplayReserve, SettleStake
<1>8. ASSUME NEW stake, NEW stale, RaiseStop(w) \/ CommitClaim(w) \/ Abandon(w) \/ Refuse(w, stake, stale)
      PROVE  \/ claim' = [claim EXCEPT ![w] = NoClaim]
             \/ claim' = [claim EXCEPT ![w] = [NoClaim EXCEPT !.stage = "stopping"]]
  BY <1>8 DEF RaiseStop, CommitClaim, Abandon, Refuse
<1> QED
  BY <1>1, <1>2, <1>3, <1>4, <1>5, <1>6, <1>7, <1>8, NoClaimIsTyped DEF MovesClaim

(* What an entry leaves at stake.                                          *)
LEMMA AppendMoves ==
    ASSUME RInv, NEW w \in Writers, NEW key, NEW type \in OrderTypes, NEW stake \in Cents,
           NEW paid, AppendEntry(w, key, type, stake, paid)
    PROVE  \E t : /\ txn' = [txn EXCEPT ![w] = t]
                  /\ t.row.reserved = txn[w].row.reserved
                                        + (IF type = "RESERVE" THEN stake ELSE -stake)
<1> DEFINE effect == MovementEffect(type, stake, paid)
           t == Appended(txn[w], key, type, effect)
<1>1. txn' = [txn EXCEPT ![w] = t]
  BY DEF AppendEntry
<1>2. effect.delta = IF type = "RESERVE" THEN stake ELSE -stake
  BY DEF MovementEffect, OrderTypes, EntryTypes
<1>3. t.row.reserved = txn[w].row.reserved + effect.delta
  BY DEF Appended, RowOf, After, Balances
<1> QED
  BY <1>1, <1>2, <1>3

LEMMA ExposureStep == RInv /\ [RiskNext]_riskVars => ExposureInv'
<1> SUFFICES ASSUME RInv, [RiskNext]_riskVars PROVE ExposureInv'
  OBVIOUS
<1> USE PolicyAssumption
<1>0. /\ txn \in [Writers -> Transactions] /\ claim \in [Writers -> Claims]
      /\ account \in [Accounts -> Rows]
      /\ \A w \in Writers : /\ txn[w].row.reserved \in Nat
                            /\ txn[w].row.reserved <= MaxOpenExposure
                            /\ claim[w] \in Claims
                            /\ Fits(claim[w], txn[w])
      /\ ExposureHolds
      /\ MaxOpenExposure \in Nat
  BY DEF RInv, IInv, LedgerTypes, Transactions, Rows, ExposureInv, ClaimTypes, PendingExposureHolds,
         JudgedFits
<1>1. ASSUME NEW w \in Writers, BeginReserve(w) \/ AddUpDay(w) \/ RaiseStop(w)
      PROVE  ExposureInv'
  <2>1. PICK c \in Claims : claim' = [claim EXCEPT ![w] = c] /\ c.stage # "judged"
    BY <1>1, ClaimMoves DEF MovesClaim
  <2>2. UNCHANGED <<account, txn>>
    BY <1>1 DEF BeginReserve, AddUpDay, RaiseStop, vars
  <2>3. txn' = [txn EXCEPT ![w] = txn[w]] /\ ExposureHolds'
    BY <1>0, <2>2 DEF ExposureHolds
  <2> QED
    BY <1>0, <2>1, <2>3, OneWriterFits DEF Fits
<1>2. ASSUME NEW w \in Writers, NEW key \in Keys, NEW stake \in Cents, Judge(w, key, stake)
      PROVE  ExposureInv'
  <2> DEFINE c == [claim[w] EXCEPT !.stage = "judged", !.key = key, !.stake = stake]
  <2>1. claim' = [claim EXCEPT ![w] = c]
    BY <1>2 DEF Judge
  <2>2. c \in Claims /\ c.key = key /\ c.stake = stake
    BY <1>0 DEF Claims, Stages
  <2>3. Fits(c, txn[w])
    BY <1>2, <2>2 DEF Judge, Permitted, WithinExposure, Fits
  <2>4. txn' = [txn EXCEPT ![w] = txn[w]] /\ ExposureHolds'
    BY <1>0, <1>2 DEF Judge, vars, ExposureHolds
  <2> QED
    BY <1>0, <2>1, <2>2, <2>3, <2>4, OneWriterFits
<1>3. ASSUME NEW w \in Writers, BookReserve(w)
      PROVE  ExposureInv'
  <2>1. claim[w].stage = "judged" /\ claim[w].key \in Keys /\ claim[w].stake \in Cents
    BY <1>0, <1>3 DEF BookReserve, Fits
  <2>2. PICK t : /\ txn' = [txn EXCEPT ![w] = t]
                 /\ t.row.reserved = txn[w].row.reserved + claim[w].stake
    BY <1>3, <2>1, AppendMoves DEF BookReserve, OrderTypes, EntryTypes
  <2>3. t.row.reserved <= MaxOpenExposure
    BY <1>0, <2>1, <2>2 DEF Fits
  <2>4. [NoClaim EXCEPT !.stage = "booked"] \in Claims
        /\ [NoClaim EXCEPT !.stage = "booked"].stage # "judged"
    BY DEF NoClaim, Claims, Stages
  <2>5. claim' = [claim EXCEPT ![w] = [NoClaim EXCEPT !.stage = "booked"]]
    BY <1>3 DEF BookReserve
  <2>6. ExposureHolds'
    BY <1>0, <1>3 DEF BookReserve, AppendEntry, ExposureHolds
  <2> QED
    BY <2>2, <2>3, <2>4, <2>5, <2>6, OneWriterFits DEF Fits
<1>4. ASSUME NEW w \in Writers, NEW key \in Keys, NEW stake \in Cents, NEW paid,
             ReleaseStake(w, key, stake) \/ SettleStake(w, key, stake, paid)
      PROVE  ExposureInv'
  <2>1. PICK t : /\ txn' = [txn EXCEPT ![w] = t]
                 /\ t.row.reserved = txn[w].row.reserved + (-stake)
    <3>1. PICK type, cents : /\ type \in {"RELEASE", "SETTLE"}
                             /\ AppendEntry(w, key, type, stake, cents)
      BY <1>4 DEF ReleaseStake, SettleStake
    <3>2. type \in OrderTypes /\ type # "RESERVE"
      BY <3>1 DEF OrderTypes, EntryTypes
    <3> QED
      BY <3>1, <3>2, AppendMoves
  <2>2. t.row.reserved <= MaxOpenExposure
    BY <1>0, <2>1, CentsAssumption
  <2>3. PICK c \in Claims : claim' = [claim EXCEPT ![w] = c] /\ c.stage # "judged"
    BY <1>4, ClaimMoves DEF MovesClaim
  <2>4. ExposureHolds'
    BY <1>0, <1>4 DEF ReleaseStake, SettleStake, AppendEntry, ExposureHolds
  <2> QED
    BY <2>1, <2>2, <2>3, <2>4, OneWriterFits DEF Fits
<1>5. ASSUME NEW w \in Writers, NEW key, NEW type, NEW stake, NEW paid,
             ReplayReserve(w, key, stake) \/ ReplayEntry(w, key, type, stake, paid)
      PROVE  ExposureInv'
  <2>1. PICK told : txn' = [txn EXCEPT ![w] = [txn[w] EXCEPT !.told = told]]
    <3>1. ASSUME NEW kind, NEW cents, Replay(w, key, kind, stake, cents)
          PROVE  \E told : txn' = [txn EXCEPT ![w] = [txn[w] EXCEPT !.told = told]]
      BY <3>1, <1>0 DEF Replay
    <3> QED
      BY <1>5, <3>1 DEF ReplayReserve, ReplayEntry
  <2>2. [txn[w] EXCEPT !.told = told].row = txn[w].row
    BY <1>0 DEF Transactions
  <2>3. PICK c \in Claims : claim' = [claim EXCEPT ![w] = c] /\ c.stage # "judged"
    BY <1>5, ClaimMoves DEF MovesClaim
  <2>4. ExposureHolds'
    BY <1>0, <1>5 DEF ReplayReserve, ReplayEntry, Replay, ExposureHolds
  <2> QED
    BY <1>0, <2>1, <2>2, <2>3, <2>4, OneWriterFits DEF Fits
<1>6. ASSUME NEW w \in Writers, NEW a \in Accounts,
             LockForReserve(w, a) \/ OpenAccount(w, a) \/ LockForEntry(w, a)
      PROVE  ExposureInv'
  <2>1. PICK t : txn' = [txn EXCEPT ![w] = t] /\ t.row.reserved <= MaxOpenExposure
    <3>1. ASSUME LockAccount(w, a)
          PROVE  \E t : txn' = [txn EXCEPT ![w] = t] /\ t.row.reserved <= MaxOpenExposure
      <4>1. txn' = [txn EXCEPT ![w] = Started(a, account[a])]
        BY <3>1 DEF LockAccount
      <4>2. Started(a, account[a]).row.reserved <= MaxOpenExposure
        BY <1>0 DEF Started, ExposureHolds
      <4> QED
        BY <4>1, <4>2
    <3>2. ASSUME Open(w, a)
          PROVE  \E t : txn' = [txn EXCEPT ![w] = t] /\ t.row.reserved <= MaxOpenExposure
      <4>1. PICK cents \in Cents : txn' = [txn EXCEPT ![w] =
                     Appended(Started(a, RowOf(NoMoney, 1)), OpenKey(a), "ADJUSTMENT",
                              MovementEffect("ADJUSTMENT", cents, cents))]
        BY <3>2 DEF Open
      <4>2. MovementEffect("ADJUSTMENT", cents, cents).delta = 0
        BY DEF MovementEffect
      <4> DEFINE t == Appended(Started(a, RowOf(NoMoney, 1)), OpenKey(a), "ADJUSTMENT",
                               MovementEffect("ADJUSTMENT", cents, cents))
      <4>3. t.row.reserved = 0
        BY <4>2 DEF Appended, Started, RowOf, NoMoney, After, Balances
      <4> HIDE DEF t
      <4>4. t.row.reserved <= MaxOpenExposure /\ txn' = [txn EXCEPT ![w] = t]
        BY <4>1, <4>3, <1>0 DEF t
      <4> QED
        BY <4>4
    <3> QED
      BY <1>6, <3>1, <3>2 DEF LockForReserve, OpenAccount, LockForEntry
  <2>2. PICK c \in Claims : claim' = [claim EXCEPT ![w] = c] /\ c.stage # "judged"
    BY <1>6, ClaimMoves DEF MovesClaim
  <2>3. ExposureHolds'
    BY <1>0, <1>6 DEF LockForReserve, OpenAccount, LockForEntry, LockAccount, Open, ExposureHolds
  <2> QED
    BY <1>0, <2>1, <2>2, <2>3, OneWriterFits DEF Fits
<1>7. ASSUME NEW w \in Writers, NEW stake, NEW stale,
             CommitClaim(w) \/ Abandon(w) \/ Refuse(w, stake, stale)
      PROVE  ExposureInv'
  <2>1. PICK c \in Claims : claim' = [claim EXCEPT ![w] = c] /\ c.stage # "judged"
    BY <1>7, ClaimMoves DEF MovesClaim
  <2>2. txn' = [txn EXCEPT ![w] = Idle] /\ Idle.row.reserved <= MaxOpenExposure
    <3>1. ASSUME CommitClaim(w)
          PROVE  txn' = [txn EXCEPT ![w] = Idle]
      BY <3>1 DEF CommitClaim, Commit
    <3>2. ASSUME Abandon(w) \/ Refuse(w, stake, stale)
          PROVE  txn' = [txn EXCEPT ![w] = Idle]
      BY <3>2 DEF Abandon, Refuse
    <3> QED
      BY <1>7, <1>0, <3>1, <3>2, IdleExposes
  <2>3. ExposureHolds'
    <3>1. CASE UNCHANGED account
      BY <1>0, <3>1 DEF ExposureHolds
    <3>2. CASE account' = [account EXCEPT ![txn[w].on] = txn[w].row]
      BY <1>0, <3>2 DEF ExposureHolds
    <3> QED
      BY <1>7, <3>1, <3>2 DEF CommitClaim, Commit, Abandon, Refuse
  <2> QED
    BY <2>1, <2>2, <2>3, OneWriterFits DEF Fits
<1>8. ASSUME UNCHANGED <<account, txn, claim>>
      PROVE  ExposureInv'
  BY <1>8 DEF RInv, ExposureInv, ClaimTypes, ExposureHolds, PendingExposureHolds, JudgedFits
<1>9. ASSUME \/ /\ \/ \E c \in Checkers, a \in Accounts : ReadAccount(c, a)
                   \/ \E c \in Checkers : CheckStep(c)
                /\ UNCHANGED <<day, created, execution, claim>>
             \/ Reactivate \/ Midnight \/ UNCHANGED riskVars
      PROVE  UNCHANGED <<account, txn, claim>>
  BY <1>9 DEF ReadAccount, CheckStep, ReadSums, ReadLast, Rest, Reactivate, Midnight, riskVars, vars
<1>10. CASE RiskNext
  <2>1. CASE \E w \in Writers : \/ BeginReserve(w) \/ BookReserve(w) \/ AddUpDay(w)
                               \/ CommitClaim(w) \/ Abandon(w) \/ RaiseStop(w)
    BY <2>1, <1>1, <1>3, <1>7
  <2>2. CASE \E w \in Writers, a \in Accounts :
               LockForReserve(w, a) \/ OpenAccount(w, a) \/ LockForEntry(w, a)
    BY <2>2, <1>6
  <2>3. ASSUME NEW w \in Writers, NEW stake \in Cents,
               \/ \E stale \in BOOLEAN : Refuse(w, stake, stale)
               \/ \E key \in Keys : ReplayReserve(w, key, stake) \/ Judge(w, key, stake)
                                     \/ ReleaseStake(w, key, stake)
               \/ \E key \in Keys, paid \in Payouts : SettleStake(w, key, stake, paid)
               \/ \E key \in Keys, type \in OrderTypes, paid \in Payouts :
                      ReplayEntry(w, key, type, stake, paid)
        PROVE  ExposureInv'
    BY <2>3, <1>2, <1>4, <1>5, <1>7
  <2> QED
    BY <1>10, <2>1, <2>2, <2>3, <1>8, <1>9 DEF RiskNext
<1> QED
  BY <1>8, <1>9, <1>10

-----------------------------------------------------------------------------
(* The sums of a day over the entries of a journal, by their places.       *)

(* What an entry counts for: a reservation its stake, a settlement what    *)
(* was won or lost.                                                        *)
Weight(e) == IF e.type = "SETTLE" THEN e.amount + e.delta ELSE e.delta

DayPlaces(s, made, n, type, d) == {i \in 1 .. n : s[i].type = type /\ made[s[i].key] = d}

(* Over the first n entries of s, those of a type written on day d.        *)
DaySum(s, made, n, type, d) ==
    SumOf([i \in 1 .. n |-> Weight(s[i])], DayPlaces(s, made, n, type, d))

LEMMA WeightIsInteger == \A e \in Entries : Weight(e) \in Int
BY DEF Weight, Entries

LEMMA DayPlacesAreFinite ==
    ASSUME NEW s, NEW made, NEW n \in Nat, NEW type, NEW d
    PROVE  IsFiniteSet(DayPlaces(s, made, n, type, d)) /\ DayPlaces(s, made, n, type, d) \subseteq 1 .. n
<1>1. IsFiniteSet(1 .. n)
  BY FS_Interval
<1>2. DayPlaces(s, made, n, type, d) \in SUBSET (1 .. n)
  BY DEF DayPlaces
<1> QED
  BY <1>1, <1>2, FS_Subset

LEMMA DaySumIsInteger ==
    ASSUME NEW s \in Seq(Entries), NEW made, NEW n \in 0 .. Len(s), NEW type, NEW d
    PROVE  DaySum(s, made, n, type, d) \in Int
<1> DEFINE g == [i \in 1 .. n |-> Weight(s[i])]
           S == DayPlaces(s, made, n, type, d)
<1>1. n \in Nat /\ Len(s) \in Nat /\ \A i \in 1 .. n : i \in 1 .. Len(s)
  BY LenProperties
<1>2. \A i \in 1 .. n : g[i] \in Int
  BY <1>1, ElementOfSeq, WeightIsInteger
<1>3. IsFiniteSet(S) /\ S \subseteq 1 .. n
  BY <1>1, DayPlacesAreFinite
<1>4. DaySum(s, made, n, type, d) = SumOf(g, S)
  BY DEF DaySum
<1> HIDE DEF g, S
<1> QED
  BY <1>2, <1>3, <1>4, SumTyped

(* It is decided by the first n entries and when they were written.        *)
AgreeUpTo(s, made, t, made2, n) ==
    \A i \in 1 .. n : t[i] = s[i] /\ made2[s[i].key] = made[s[i].key]

LEMMA DaySumOfPrefix ==
    ASSUME NEW s, NEW t, NEW n \in Nat, NEW made, NEW made2, AgreeUpTo(s, made, t, made2, n),
           NEW type, NEW d
    PROVE  DaySum(t, made2, n, type, d) = DaySum(s, made, n, type, d)
<1>1. DayPlaces(t, made2, n, type, d) = DayPlaces(s, made, n, type, d)
  BY DEF DayPlaces, AgreeUpTo
<1>2. [i \in 1 .. n |-> Weight(t[i])] = [i \in 1 .. n |-> Weight(s[i])]
  BY DEF AgreeUpTo
<1> QED
  BY <1>1, <1>2 DEF DaySum

(* Nothing of the day, nothing to sum.                                     *)
LEMMA DaySumOfNothing ==
    ASSUME NEW s, NEW made, NEW n \in Nat, NEW type, NEW d,
           \A i \in 1 .. n : s[i].type = type => made[s[i].key] # d
    PROVE  DaySum(s, made, n, type, d) = 0
<1>1. DayPlaces(s, made, n, type, d) = {}
  BY DEF DayPlaces
<1> QED
  BY <1>1, SumEmpty DEF DaySum

(* One more entry.                                                         *)
LEMMA DaySumNext ==
    ASSUME NEW s \in Seq(Entries), NEW made, NEW n \in Nat, n + 1 \in 1 .. Len(s), NEW type, NEW d
    PROVE  DaySum(s, made, n + 1, type, d) =
             DaySum(s, made, n, type, d)
               + (IF s[n + 1].type = type /\ made[s[n + 1].key] = d THEN Weight(s[n + 1]) ELSE 0)
<1> DEFINE g == [i \in 1 .. n + 1 |-> Weight(s[i])]
           f == [i \in 1 .. n |-> Weight(s[i])]
           S == DayPlaces(s, made, n, type, d)
           S2 == DayPlaces(s, made, n + 1, type, d)
           e == n + 1
<1>0. /\ Len(s) \in Nat /\ 1 .. n + 1 = (1 .. n) \cup {e} /\ e \notin 1 .. n
      /\ \A i \in 1 .. n + 1 : i \in 1 .. Len(s)
  BY LenProperties
<1>1. \A i \in 1 .. n + 1 : g[i] \in Int
  BY <1>0, ElementOfSeq, WeightIsInteger
<1>2. IsFiniteSet(S) /\ S \subseteq 1 .. n /\ e \notin S
  BY <1>0, DayPlacesAreFinite
<1>3. \A i \in S : g[i] \in Int /\ f[i] = g[i]
  BY <1>0, <1>1, <1>2
<1>4. /\ DaySum(s, made, n, type, d) = SumOf(f, S)
      /\ DaySum(s, made, n + 1, type, d) = SumOf(g, S2)
  BY DEF DaySum
<1>5. g[e] = Weight(s[n + 1])
  BY <1>0
<1>6. S2 = IF s[n + 1].type = type /\ made[s[n + 1].key] = d THEN S \cup {e} ELSE S
  BY <1>0 DEF DayPlaces
<1>7. \A i \in S \cup {e} : g[i] \in Int
  BY <1>0, <1>1, <1>2
<1> HIDE DEF f, g, S, S2
<1>8. SumOf(f, S) = SumOf(g, S) /\ SumOf(g, S) \in Int
  BY <1>2, <1>3, SumSame, SumTyped
<1>9. CASE s[n + 1].type = type /\ made[s[n + 1].key] = d
  <2>1. SumOf(g, S \cup {e}) = SumOf(g, S) + g[e]
    <3> HIDE DEF e
    <3> QED
      BY <1>2, <1>7, SumWith
  <2> QED
    BY <1>4, <1>5, <1>6, <1>8, <1>9, <2>1
<1>10. CASE ~ (s[n + 1].type = type /\ made[s[n + 1].key] = d)
  BY <1>4, <1>6, <1>8, <1>10
<1> QED
  BY <1>9, <1>10

(* Stakes never count against the budget's use.                            *)
LEMMA StakesAreNatural ==
    ASSUME NEW s \in Seq(Entries), NEW made, NEW n \in 0 .. Len(s), NEW d,
           \A i \in 1 .. n : s[i].type = "RESERVE" => s[i].delta \in Nat
    PROVE  DaySum(s, made, n, "RESERVE", d) \in Nat
<1> DEFINE g == [i \in 1 .. n |-> Weight(s[i])]
           S == DayPlaces(s, made, n, "RESERVE", d)
<1>1. n \in Nat
  BY LenProperties
<1>2. IsFiniteSet(S) /\ S \subseteq 1 .. n
  BY <1>1, DayPlacesAreFinite
<1>3. \A i \in S : g[i] \in Nat
  BY DEF DayPlaces, Weight
<1>4. DaySum(s, made, n, "RESERVE", d) = SumOf(g, S)
  BY DEF DaySum
<1> HIDE DEF g, S
<1> QED
  BY <1>2, <1>3, <1>4, SumIsNatural

(* No key twice.                                                           *)
KeysDiffer(s) == \A i, j \in 1 .. Len(s) : s[i].key = s[j].key => i = j

(* The code sums over entries, of which there is one for each place.       *)
LEMMA EntrySumIsDaySum ==
    ASSUME NEW s \in Seq(Entries), KeysDiffer(s), NEW made, NEW type, NEW d
    PROVE  SumOf([e \in Entries |-> Weight(e)],
                 {e \in EntriesOf(s) : e.type = type /\ made[e.key] = d})
             = DaySum(s, made, Len(s), type, d)
<1> DEFINE g == [e \in Entries |-> Weight(e)]
           T == DayPlaces(s, made, Len(s), type, d)
           f == [i \in 1 .. Len(s) |-> s[i]]
           E == {e \in EntriesOf(s) : e.type = type /\ made[e.key] = d}
           k == [i \in T |-> g[f[i]]]
           h == [i \in 1 .. Len(s) |-> Weight(s[i])]
<1>0. Len(s) \in Nat /\ \A i \in 1 .. Len(s) : s[i] \in Entries
  BY LenProperties, ElementOfSeq
<1>1. IsFiniteSet(T) /\ T \subseteq 1 .. Len(s)
  BY <1>0, DayPlacesAreFinite
<1>2. \A i, j \in T : f[i] = f[j] => i = j
  BY <1>1 DEF KeysDiffer
<1>3. \A i \in T : g[f[i]] = Weight(s[i]) /\ g[f[i]] \in Int
  BY <1>0, <1>1, WeightIsInteger
<1>4. {f[i] : i \in T} = E
  BY DEF DayPlaces, EntriesOf
<1>5. DaySum(s, made, Len(s), type, d) = SumOf(h, T)
  BY DEF DaySum
<1>6. \A i \in T : h[i] = k[i] /\ k[i] \in Int
  BY <1>1, <1>3
<1>7. SumOf(k, T) = SumOf(g, {f[i] : i \in T})
  <2> HIDE DEF f, g, T
  <2> QED
    BY <1>1, <1>2, <1>3, SumRenamed
<1> HIDE DEF f, g, T, E, k, h
<1>8. SumOf(h, T) = SumOf(k, T)
  BY <1>1, <1>6, SumSame
<1>9. SumOf(g, E) = DaySum(s, made, Len(s), type, d)
  BY <1>4, <1>5, <1>7, <1>8
<1> QED
  BY <1>9 DEF g, E

(* Sums of the code, over a set of entries.                                *)
LEMMA DeltaSum ==
    ASSUME NEW E, IsFiniteSet(E), E \subseteq Entries, \A e \in E : e.type = "RESERVE"
    PROVE  MapThenSumSet(LAMBDA e : e.delta, E) = SumOf([e \in Entries |-> Weight(e)], E)
<1> DEFINE g == [e \in Entries |-> Weight(e)]
           iter == CHOOSE f : f = [s \in SUBSET E |-> IF s = {} THEN 0
                                     ELSE LET x == CHOOSE x \in s : TRUE IN x.delta + f[s \ {x}]]
<1>1. MapThenSumSet(LAMBDA e : e.delta, E) = iter[E]
  BY DEF MapThenSumSet, MapThenFoldSet
<1>2. \A e \in E : g[e] = e.delta /\ g[e] \in Int
  BY DEF Weight, Entries
<1>3. PICK h : IsSum(h, g, E)
  <2> HIDE DEF g
  <2> QED
    BY <1>2, SumFoldExists
<1>4. h = [s \in SUBSET E |-> IF s = {} THEN 0
                              ELSE LET x == CHOOSE x \in s : TRUE IN x.delta + h[s \ {x}]]
  <2>1. \A s \in SUBSET E : s # {} => g[First(s)] = First(s).delta
    BY <1>2, FirstIsElement
  <2> HIDE DEF g
  <2> QED
    BY <1>3, <2>1 DEF IsSum, First
<1>5. iter = [s \in SUBSET E |-> IF s = {} THEN 0
                                 ELSE LET x == CHOOSE x \in s : TRUE IN x.delta + iter[s \ {x}]]
  BY <1>4
<1> HIDE DEF iter
<1>6. IsSum(iter, g, E)
  <2>1. \A s \in SUBSET E : s # {} => g[First(s)] = First(s).delta
    BY <1>2, FirstIsElement
  <2> HIDE DEF g
  <2> QED
    BY <1>5, <2>1 DEF IsSum, First
<1> HIDE DEF g
<1>7. SumOf(g, E) = iter[E]
  BY <1>6, SumIsFold
<1> QED
  BY <1>1, <1>7 DEF g

LEMMA PnlSum ==
    ASSUME NEW E, IsFiniteSet(E), E \subseteq Entries, \A e \in E : e.type = "SETTLE"
    PROVE  MapThenSumSet(LAMBDA e : e.amount + e.delta, E) = SumOf([e \in Entries |-> Weight(e)], E)
<1> DEFINE g == [e \in Entries |-> Weight(e)]
           isIter(f) == f = [s \in SUBSET E |-> IF s = {} THEN 0
                                     ELSE LET x == CHOOSE x \in s : TRUE
                                          IN  x.amount + x.delta + f[s \ {x}]]
           iter == CHOOSE f : isIter(f)
<1>1. MapThenSumSet(LAMBDA e : e.amount + e.delta, E) = iter[E]
  BY DEF MapThenSumSet, MapThenFoldSet
<1>2. \A e \in E : g[e] = e.amount + e.delta /\ g[e] \in Int
  BY DEF Weight, Entries
<1>3. PICK h : IsSum(h, g, E)
  <2> HIDE DEF g
  <2> QED
    BY <1>2, SumFoldExists
<1>0. \A s \in SUBSET E : s # {} => g[First(s)] = First(s).amount + First(s).delta
  BY <1>2, FirstIsElement
<1>4. isIter(h)
  <2> HIDE DEF g
  <2> QED
    BY <1>3, <1>0 DEF IsSum, First
<1>5. isIter(iter)
  <2> HIDE DEF isIter
  <2> QED
    BY <1>4
<1> HIDE DEF iter
<1>6. IsSum(iter, g, E)
  <2> HIDE DEF g
  <2> QED
    BY <1>5, <1>0 DEF IsSum, First
<1> HIDE DEF g
<1>7. SumOf(g, E) = iter[E]
  BY <1>6, SumIsFold
<1> QED
  BY <1>1, <1>7 DEF g

(* The same over places of a journal (PnlBefore).                          *)
LEMMA PlaceSum ==
    ASSUME NEW a \in Accounts, journal[a] \in Seq(Entries), NEW i \in 1 .. Len(journal[a])
    PROVE  PnlBefore(a, i) = DaySum(journal[a], created, i - 1, "SETTLE", created[journal[a][i].key])
<1> DEFINE s == journal[a]
           d == created[s[i].key]
           E == DayPlaces(s, created, i - 1, "SETTLE", d)
           g == [j \in 1 .. i - 1 |-> Weight(s[j])]
           iter == CHOOSE f : f = [p \in SUBSET E |-> IF p = {} THEN 0
                                     ELSE LET x == CHOOSE x \in p : TRUE
                                          IN  s[x].amount + s[x].delta + f[p \ {x}]]
<1>a. PnlBefore(a, i) = MapThenSumSet(LAMBDA j : s[j].amount + s[j].delta, E)
  BY DEF PnlBefore, DayPlaces
<1>1. PnlBefore(a, i) = iter[E]
  BY <1>a DEF MapThenSumSet, MapThenFoldSet
<1>b. Len(s) \in Nat /\ i - 1 \in Nat /\ \A j \in 1 .. i - 1 : j \in 1 .. Len(s)
  <2>1. Len(s) \in Nat
    BY LenProperties
  <2> QED
    BY <2>1
<1>c. IsFiniteSet(E) /\ E \subseteq 1 .. i - 1 /\ \A j \in E : s[j].type = "SETTLE"
  <2>1. IsFiniteSet(E) /\ E \subseteq 1 .. i - 1
    BY <1>b, DayPlacesAreFinite
  <2> QED
    BY <2>1 DEF DayPlaces
<1>2. \A j \in E : g[j] = s[j].amount + s[j].delta /\ g[j] \in Int
  <2>1. \A j \in E : s[j] \in Entries
    BY <1>b, <1>c, ElementOfSeq
  <2>2. \A j \in E : g[j] = Weight(s[j])
    BY <1>c
  <2>3. \A j \in E : s[j].type = "SETTLE"
    BY <1>c
  <2> HIDE DEF g, s, E
  <2> QED
    BY <2>1, <2>2, <2>3 DEF Weight, Entries
<1>d. DaySum(s, created, i - 1, "SETTLE", d) = SumOf(g, E)
  BY DEF DaySum
<1>3. PICK h : IsSum(h, g, E)
  <2> HIDE DEF g, E
  <2> QED
    BY <1>c, <1>2, SumFoldExists
<1>0. \A p \in SUBSET E : p # {} => g[First(p)] = s[First(p)].amount + s[First(p)].delta
  BY <1>2, FirstIsElement
<1> HIDE DEF E
<1>4. h = [p \in SUBSET E |-> IF p = {} THEN 0
                              ELSE LET x == CHOOSE x \in p : TRUE IN s[x].amount + s[x].delta + h[p \ {x}]]
  <2> HIDE DEF g, s
  <2> QED
    BY <1>3, <1>0 DEF IsSum, First
<1>5. iter = [p \in SUBSET E |-> IF p = {} THEN 0
                                 ELSE LET x == CHOOSE x \in p : TRUE
                                      IN  s[x].amount + s[x].delta + iter[p \ {x}]]
  BY <1>4
<1> HIDE DEF iter
<1>6. IsSum(iter, g, E)
  <2> HIDE DEF g, s
  <2> QED
    BY <1>5, <1>0 DEF IsSum, First
<1>7. SumOf(g, E) = iter[E]
  <2> HIDE DEF g
  <2> QED
    BY <1>c, <1>6, SumIsFold
<1> QED
  BY <1>1, <1>7, <1>d

-----------------------------------------------------------------------------
(* The limits of the day *)

(* No day in s has staked more than its budget, and nothing was staked     *)
(* once the day had lost its limit.                                        *)
KeepsLimits(s, made, today) ==
    /\ \A i \in 1 .. Len(s) : made[s[i].key] \in 0 .. today
    /\ \A i \in 1 .. Len(s) : s[i].type = "RESERVE" => s[i].delta \in Nat
    /\ \A d \in 0 .. LastDay : DaySum(s, made, Len(s), "RESERVE", d) <= MaxDailyStake
    /\ \A i \in 1 .. Len(s) : s[i].type = "RESERVE" =>
          /\ MaxDailyLoss > 0
          /\ -DaySum(s, made, i - 1, "SETTLE", made[s[i].key]) < MaxDailyLoss

(* What a reservation was permitted is still within the day.               *)
HasRoom(c, s, made, today) ==
    c.stage = "judged" =>
        /\ DaySum(s, made, Len(s), "RESERVE", today) + c.stake <= MaxDailyStake
        /\ MaxDailyLoss > 0
        /\ -DaySum(s, made, Len(s), "SETTLE", today) < MaxDailyLoss

(* The journal as the transaction will leave it.                           *)
Whole(t) == journal[t.on] \o t.new

DayInv ==
    /\ day \in 0 .. LastDay
    /\ created \in [EntryKeys -> 0 .. LastDay + 1]
    /\ \A a \in Accounts : KeepsLimits(journal[a], created, day)
    /\ \A w \in Writers : txn[w].on # NoAccount =>
          /\ KeepsLimits(Whole(txn[w]), created, day)
          /\ HasRoom(claim[w], Whole(txn[w]), created, day)

(* Writing days for other keys changes nothing.                            *)
LEMMA LimitsElsewhere ==
    ASSUME NEW s \in Seq(Entries), NEW made, NEW made2, NEW today, NEW c,
           \A i \in 1 .. Len(s) : made2[s[i].key] = made[s[i].key]
    PROVE  /\ KeepsLimits(s, made, today) => KeepsLimits(s, made2, today)
           /\ HasRoom(c, s, made, today) => HasRoom(c, s, made2, today)
<1>1. Len(s) \in Nat /\ Len(s) \in 0 .. Len(s)
  BY LenProperties
<1>2. \A type, d : DaySum(s, made2, Len(s), type, d) = DaySum(s, made, Len(s), type, d)
  <2> SUFFICES ASSUME NEW type, NEW d
               PROVE  DaySum(s, made2, Len(s), type, d) = DaySum(s, made, Len(s), type, d)
    OBVIOUS
  <2> DEFINE n == Len(s)
  <2>1. n \in Nat
    BY <1>1
  <2>2. AgreeUpTo(s, made, s, made2, n)
    BY DEF AgreeUpTo
  <2> HIDE DEF n
  <2>3. DaySum(s, made2, n, type, d) = DaySum(s, made, n, type, d)
    BY <2>1, <2>2, DaySumOfPrefix
  <2> QED
    BY <2>3 DEF n
<1>3. ASSUME NEW i \in 1 .. Len(s), NEW type, NEW d
      PROVE  DaySum(s, made2, i - 1, type, d) = DaySum(s, made, i - 1, type, d)
  <2> DEFINE n == i - 1
  <2>1. n \in Nat /\ \A j \in 1 .. n : j \in 1 .. Len(s)
    BY <1>1
  <2>2. AgreeUpTo(s, made, s, made2, n)
    BY <2>1 DEF AgreeUpTo
  <2> HIDE DEF n
  <2>3. DaySum(s, made2, n, type, d) = DaySum(s, made, n, type, d)
    BY <2>1, <2>2, DaySumOfPrefix
  <2> QED
    BY <2>3 DEF n
<1>4. KeepsLimits(s, made, today) => KeepsLimits(s, made2, today)
  BY <1>2, <1>3 DEF KeepsLimits
<1> QED
  BY <1>2, <1>4 DEF HasRoom

(* At midnight the day is empty.                                           *)
LEMMA LimitsNextDay ==
    ASSUME NEW s \in Seq(Entries), NEW made, NEW today \in Nat, KeepsLimits(s, made, today), NEW c
    PROVE  /\ KeepsLimits(s, made, today + 1)
           /\ HasRoom(c, s, made, today) /\ c.stake \in Nat /\ today \in 0 .. LastDay
                => HasRoom(c, s, made, today + 1)
<1> USE PolicyAssumption
<1>1. Len(s) \in Nat /\ Len(s) \in 0 .. Len(s) /\ MaxDailyStake \in Nat /\ MaxDailyLoss \in Nat
  BY LenProperties
<1>2. \A i \in 1 .. Len(s) : made[s[i].key] \in 0 .. today
  BY DEF KeepsLimits
<1>3. KeepsLimits(s, made, today + 1)
  <2>1. \A i \in 1 .. Len(s) : made[s[i].key] \in 0 .. today + 1
    BY <1>2
  <2> QED
    BY <2>1 DEF KeepsLimits
<1>4. \A i \in 1 .. Len(s) : made[s[i].key] # today + 1
  BY <1>2
<1>5. \A type : DaySum(s, made, Len(s), type, today + 1) = 0
  BY <1>1, <1>4, DaySumOfNothing
<1>6. DaySum(s, made, Len(s), "RESERVE", today) \in Nat
  BY <1>1, StakesAreNatural DEF KeepsLimits
<1>7. ASSUME HasRoom(c, s, made, today), c.stake \in Nat, c.stage = "judged"
      PROVE  c.stake <= MaxDailyStake /\ MaxDailyLoss > 0
  <2> DEFINE x == DaySum(s, made, Len(s), "RESERVE", today)
  <2>1. x \in Nat /\ x + c.stake <= MaxDailyStake /\ MaxDailyLoss > 0
    BY <1>6, <1>7 DEF HasRoom
  <2> HIDE DEF x
  <2> QED
    BY <1>1, <1>7, <2>1
<1>8. ASSUME HasRoom(c, s, made, today), c.stake \in Nat
      PROVE  HasRoom(c, s, made, today + 1)
  BY <1>1, <1>5, <1>7, <1>8 DEF HasRoom
<1> QED
  BY <1>3, <1>8

(* One more entry, written today, within the limits when it is a stake.    *)
LEMMA LimitsGrow ==
    ASSUME NEW s \in Seq(Entries), NEW made, NEW made2, NEW today \in 0 .. LastDay,
           KeepsLimits(s, made, today), NEW e \in Entries,
           \A i \in 1 .. Len(s) : made2[s[i].key] = made[s[i].key],
           made2[e.key] = today,
           e.type = "RESERVE" =>
              /\ e.delta \in Nat
              /\ DaySum(s, made, Len(s), "RESERVE", today) + e.delta <= MaxDailyStake
              /\ MaxDailyLoss > 0
              /\ -DaySum(s, made, Len(s), "SETTLE", today) < MaxDailyLoss
    PROVE  KeepsLimits(Append(s, e), made2, today)
<1> DEFINE t == Append(s, e)
           n == Len(s)
<1> USE PolicyAssumption
<1>1. /\ n \in Nat /\ t \in Seq(Entries) /\ Len(t) = n + 1 /\ t[n + 1] = e
      /\ \A i \in 1 .. n : t[i] = s[i]
  BY AppendProperties, LenProperties
<1> HIDE DEF t
<1>2. \A i \in 1 .. n + 1 : i \in 1 .. n \/ i = n + 1
  BY <1>1
<1>3. ASSUME NEW m \in 0 .. n, NEW type, NEW d
      PROVE  DaySum(t, made2, m, type, d) = DaySum(s, made, m, type, d)
  <2>1. m \in Nat
    BY <1>1
  <2>3. \A i \in 1 .. m : i \in 1 .. n
    BY <1>1
  <2>2. AgreeUpTo(s, made, t, made2, m)
    BY <1>1, <2>3 DEF AgreeUpTo
  <2> QED
    BY <2>1, <2>2, DaySumOfPrefix
<1>4. \A i \in 1 .. Len(t) : made2[t[i].key] \in 0 .. today
  BY <1>1, <1>2 DEF KeepsLimits
<1>5. \A i \in 1 .. Len(t) : t[i].type = "RESERVE" => t[i].delta \in Nat
  BY <1>1, <1>2 DEF KeepsLimits
<1>6. ASSUME NEW d \in 0 .. LastDay
      PROVE  DaySum(t, made2, Len(t), "RESERVE", d) <= MaxDailyStake
  <2> DEFINE x == DaySum(s, made, n, "RESERVE", d)
             y == DaySum(t, made2, n + 1, "RESERVE", d)
  <2>1. n + 1 \in 1 .. Len(t)
    BY <1>1
  <2>2. y = x + (IF e.type = "RESERVE" /\ today = d THEN Weight(e) ELSE 0)
    <3> HIDE DEF n
    <3>1. n \in 0 .. n
      BY <1>1
    <3>2. DaySum(t, made2, n, "RESERVE", d) = x
      BY <1>3, <3>1
    <3>a. t \in Seq(Entries) /\ n \in Nat
      BY <1>1
    <3>3. y = DaySum(t, made2, n, "RESERVE", d)
              + (IF t[n + 1].type = "RESERVE" /\ made2[t[n + 1].key] = d THEN Weight(t[n + 1]) ELSE 0)
      BY <3>a, <2>1, DaySumNext
    <3> QED
      BY <1>1, <3>2, <3>3
  <2>3. x \in Int /\ x <= MaxDailyStake
    <3>1. n \in 0 .. Len(s)
      BY <1>1
    <3> QED
      BY <3>1, DaySumIsInteger DEF KeepsLimits
  <2>4. e.type = "RESERVE" => Weight(e) = e.delta
    BY DEF Weight
  <2>5. e.type = "RESERVE" /\ today = d => x + e.delta <= MaxDailyStake
    OBVIOUS
  <2> HIDE DEF x, y
  <2>6. y <= MaxDailyStake
    BY <2>2, <2>3, <2>4, <2>5
  <2> QED
    BY <1>1, <2>6 DEF y
<1>7. ASSUME NEW i \in 1 .. Len(t), t[i].type = "RESERVE"
      PROVE  /\ MaxDailyLoss > 0
             /\ -DaySum(t, made2, i - 1, "SETTLE", made2[t[i].key]) < MaxDailyLoss
  <2>1. CASE i \in 1 .. n
    <3>1. i - 1 \in 0 .. n
      BY <1>1, <2>1
    <3>2. DaySum(t, made2, i - 1, "SETTLE", made2[t[i].key]) = DaySum(s, made, i - 1, "SETTLE", made[s[i].key])
      BY <1>1, <1>3, <2>1, <3>1
    <3>3. /\ MaxDailyLoss > 0
          /\ -DaySum(s, made, i - 1, "SETTLE", made[s[i].key]) < MaxDailyLoss
      BY <1>1, <1>7, <2>1 DEF KeepsLimits
    <3> QED
      BY <3>2, <3>3
  <2>2. CASE i = n + 1
    <3>1. i - 1 = n /\ n \in 0 .. n
      BY <1>1, <2>2
    <3>2. DaySum(t, made2, i - 1, "SETTLE", made2[t[i].key]) = DaySum(s, made, n, "SETTLE", today)
      BY <1>1, <1>3, <2>2, <3>1
    <3> QED
      BY <1>1, <1>7, <2>2, <3>2
  <2> QED
    BY <1>1, <1>2, <2>1, <2>2
<1> QED
  BY <1>4, <1>5, <1>6, <1>7 DEF KeepsLimits, t

-----------------------------------------------------------------------------
(* Steps within the limits of the day *)

LInv == RInv /\ DayInv

LEMMA ConcatKeysDiffer ==
    ASSUME IInv, NEW w \in Writers, txn[w].on # NoAccount
    PROVE  Whole(txn[w]) \in Seq(Entries) /\ KeysDiffer(Whole(txn[w]))
<1> DEFINE a == txn[w].on
           s == journal[a]
           t == txn[w].new
           st == s \o t
<1>1. a \in Accounts /\ s \in Seq(Entries) /\ t \in Seq(Entries)
  BY DEF IInv, LedgerTypes
<1>2. /\ st \in Seq(Entries) /\ Len(s) \in Nat /\ Len(t) \in Nat
      /\ \A k \in 1 .. Len(st) :
            \/ k \in 1 .. Len(s) /\ st[k] = s[k]
            \/ ~ k \in 1 .. Len(s) /\ k - Len(s) \in 1 .. Len(t) /\ st[k] = t[k - Len(s)]
  <2> HIDE DEF s, t
  <2> QED
    BY <1>1, ConcatEntries
<1>3. \A i, j \in 1 .. Len(s) : s[i].key = s[j].key => i = j
  BY <1>1 DEF IInv, OneEntryPerKey
<1>4. \A i \in 1 .. Len(t), j \in 1 .. Len(s) : t[i].key # s[j].key
  BY <1>1 DEF IInv, PendingKeysAreNew
<1>5. \A i, j \in 1 .. Len(t) : t[i].key = t[j].key => i = j
  BY DEF IInv, PendingKeysAreNew
<1> HIDE DEF s, t, st
<1>6. ASSUME NEW i \in 1 .. Len(st), NEW j \in 1 .. Len(st), st[i].key = st[j].key
      PROVE  i = j
  <2> DEFINE n == Len(s)
  <2>1. n \in Nat /\ i \in Int /\ j \in Int
    BY <1>2
  <2>2. (i \in 1 .. n /\ st[i] = s[i]) \/ (i - n \in 1 .. Len(t) /\ st[i] = t[i - n])
    BY <1>2
  <2>3. (j \in 1 .. n /\ st[j] = s[j]) \/ (j - n \in 1 .. Len(t) /\ st[j] = t[j - n])
    BY <1>2
  <2>4. i - n \in 1 .. Len(t) /\ j - n \in 1 .. Len(t) /\ st[i] = t[i - n] /\ st[j] = t[j - n]
          => i - n = j - n
    BY <1>5, <1>6
  <2>5. i = j \/ i - n = j - n
    BY <1>3, <1>4, <1>6, <2>2, <2>3, <2>4
  <2> HIDE DEF n
  <2> QED
    BY <2>1, <2>5
<1> QED
  BY <1>2, <1>6 DEF Whole, KeysDiffer, st, s, t, a

LEMMA JournalKeysDiffer ==
    ASSUME IInv, NEW a \in Accounts
    PROVE  journal[a] \in Seq(Entries) /\ KeysDiffer(journal[a])
BY DEF IInv, LedgerTypes, OneEntryPerKey, KeysDiffer

(* One writer moves, the journals stay.                                    *)
LEMMA WriterKeepsDay ==
    ASSUME LInv, NEW w \in Writers, NEW t, NEW c,
           txn' = [txn EXCEPT ![w] = t], claim' = [claim EXCEPT ![w] = c],
           journal' = journal, day' = day, created' \in [EntryKeys -> 0 .. LastDay + 1],
           \A a \in Accounts : \A i \in 1 .. Len(journal[a]) :
               created'[journal[a][i].key] = created[journal[a][i].key],
           \A v \in Writers \ {w} : \A i \in 1 .. Len(txn[v].new) :
               created'[txn[v].new[i].key] = created[txn[v].new[i].key],
           t.on # NoAccount => /\ KeepsLimits(Whole(t), created', day)
                               /\ HasRoom(c, Whole(t), created', day)
    PROVE  DayInv'
<1>1. /\ txn'[w] = t /\ claim'[w] = c
      /\ \A v \in Writers \ {w} : txn'[v] = txn[v] /\ claim'[v] = claim[v]
  BY DEF LInv, RInv, IInv, LedgerTypes, ExposureInv, ClaimTypes
<1>2. ASSUME NEW a \in Accounts
      PROVE  KeepsLimits(journal[a], created', day)
  <2>1. journal[a] \in Seq(Entries) /\ KeepsLimits(journal[a], created, day)
    BY JournalKeysDiffer DEF LInv, RInv, DayInv
  <2> QED
    BY <2>1, LimitsElsewhere
<1>3. ASSUME NEW v \in Writers, v # w, txn[v].on # NoAccount
      PROVE  /\ KeepsLimits(Whole(txn[v]), created', day)
             /\ HasRoom(claim[v], Whole(txn[v]), created', day)
  <2> DEFINE s == journal[txn[v].on]
             p == txn[v].new
             sp == s \o p
  <2>1. txn[v].on \in Accounts /\ s \in Seq(Entries) /\ p \in Seq(Entries)
    BY <1>3 DEF LInv, RInv, IInv, LedgerTypes
  <2>2. /\ \A i \in 1 .. Len(s) : created'[s[i].key] = created[s[i].key]
        /\ \A i \in 1 .. Len(p) : created'[p[i].key] = created[p[i].key]
    BY <1>3, <2>1
  <2>3. /\ KeepsLimits(sp, created, day)
        /\ HasRoom(claim[v], sp, created, day)
    BY <1>3 DEF LInv, DayInv, Whole
  <2> HIDE DEF s, p, sp
  <2>4. /\ sp \in Seq(Entries)
        /\ \A k \in 1 .. Len(sp) :
              \/ k \in 1 .. Len(s) /\ sp[k] = s[k]
              \/ k - Len(s) \in 1 .. Len(p) /\ sp[k] = p[k - Len(s)]
    BY <2>1, ConcatEntries DEF sp
  <2>5. ASSUME NEW i \in 1 .. Len(sp)
        PROVE  created'[sp[i].key] = created[sp[i].key]
    <3>1. CASE i \in 1 .. Len(s) /\ sp[i] = s[i]
      BY <2>2, <3>1
    <3>2. CASE i - Len(s) \in 1 .. Len(p) /\ sp[i] = p[i - Len(s)]
      <4> DEFINE j == i - Len(s)
      <4>1. j \in 1 .. Len(p) /\ sp[i] = p[j]
        BY <3>2
      <4> HIDE DEF j
      <4> QED
        BY <2>2, <4>1
    <3> QED
      BY <2>4, <3>1, <3>2
  <2>6. KeepsLimits(sp, created', day) /\ HasRoom(claim[v], sp, created', day)
    BY <2>3, <2>4, <2>5, LimitsElsewhere
  <2> QED
    BY <2>6 DEF Whole, sp, s, p
<1>4. ASSUME NEW v \in Writers, txn'[v].on # NoAccount
      PROVE  /\ KeepsLimits(Whole(txn[v])', created', day')
             /\ HasRoom(claim'[v], Whole(txn[v])', created', day')
  <2>1. CASE v = w
    BY <1>1, <1>4, <2>1 DEF Whole
  <2>2. CASE v # w
    <3>1. txn'[v] = txn[v] /\ claim'[v] = claim[v]
      BY <1>1, <2>2
    <3> QED
      BY <1>3, <1>4, <2>2, <3>1 DEF Whole
  <2> QED
    BY <2>1, <2>2
<1> QED
  BY <1>2, <1>4 DEF DayInv, LInv

(* A stake is written only as it was judged.                               *)
WasJudged(w, a, type, effect) ==
    type = "RESERVE" => /\ effect.delta \in Nat
                        /\ txn[w].on = a
                        /\ claim[w].stage = "judged"
                        /\ claim[w].stake = effect.delta

(* An entry is written and dated; a stake only with the permission.        *)
LEMMA GrowsKeepsDay ==
    ASSUME LInv, NEW w \in Writers, NEW a \in Accounts, NEW row \in Rows,
           NEW key \in EntryKeys, NEW type \in EntryTypes, NEW effect,
           Grows(w, a, row, key, type, effect),
           NEW c, claim' = [claim EXCEPT ![w] = c], c.stage # "judged",
           day' = day, created' = [created EXCEPT ![key] = day],
           WasJudged(w, a, type, effect)
    PROVE  DayInv'
<1> DEFINE row2 == RowOf(After(Balances(row), effect), row.version + 1)
           e == Entry(key, type, effect, row2)
           s == journal[a] \o txn[w].new
           t == txn'[w]
<1>1. LedgerTypes /\ IInv
  BY DEF LInv, RInv, IInv
<1>2. /\ e \in Entries /\ e.key = key
      /\ t.on = a
      /\ t.new = Append(txn[w].new, e)
  BY <1>1, GrownTables
<1>3. e.type = type /\ e.delta = effect.delta
  BY DEF Entry
<1>4. txn' = [txn EXCEPT ![w] = t]
  BY <1>1 DEF LedgerTypes, Grows
<1>5. journal' = journal /\ txn[w].on \in {a, NoAccount} /\ a # NoAccount
  BY NoAccountAssumption DEF Grows
<1>6. journal[a] \in Seq(Entries) /\ txn[w].new \in Seq(Entries)
  BY <1>1 DEF LedgerTypes
<1> HIDE DEF e, row2, t
<1>7. Whole(t) = Append(s, e) /\ s \in Seq(Entries)
  <2> DEFINE q == journal[a]
             p == txn[w].new
  <2>1. Whole(t) = q \o Append(p, e)
    BY <1>2 DEF Whole
  <2>2. q \in Seq(Entries) /\ p \in Seq(Entries) /\ e \in Entries /\ s = q \o p
    BY <1>2, <1>6
  <2> HIDE DEF q, p, s
  <2>3. q \o Append(p, e) = Append(q \o p, e) /\ q \o p \in Seq(Entries)
    BY <2>2, ConcatAppend
  <2> QED
    BY <2>1, <2>2, <2>3
<1>8. KeepsLimits(s, created, day)
  <2>1. CASE txn[w].on = a
    BY <1>5, <2>1 DEF LInv, DayInv, Whole
  <2>2. CASE txn[w].on = NoAccount
    <3>1. txn[w].new = <<>>
      BY <1>1, <2>2 DEF IInv, IdleHasNothing, Idle
    <3>2. s = journal[a]
      BY <1>6, <3>1, ConcatEmptySeq
    <3> QED
      BY <3>2 DEF LInv, DayInv
  <2> QED
    BY <1>5, <2>1, <2>2
<1>9. /\ \A b \in Accounts : \A i \in 1 .. Len(journal[b]) : journal[b][i].key # key
      /\ \A v \in Writers : \A i \in 1 .. Len(txn[v].new) : txn[v].new[i].key # key
  BY DEF Grows
<1>10. ASSUME NEW i \in 1 .. Len(s)
       PROVE  s[i].key # key
  <2> DEFINE q == journal[a]
             p == txn[w].new
  <2>1. q \in Seq(Entries) /\ p \in Seq(Entries) /\ s = q \o p
    BY <1>6
  <2>2. /\ \A j \in 1 .. Len(q) : q[j].key # key
        /\ \A j \in 1 .. Len(p) : p[j].key # key
    BY <1>9
  <2> HIDE DEF q, p, s
  <2>3. \/ i \in 1 .. Len(q) /\ s[i] = q[i]
        \/ i - Len(q) \in 1 .. Len(p) /\ s[i] = p[i - Len(q)]
    BY <2>1, ConcatEntries
  <2> DEFINE j == i - Len(q)
  <2>4. \/ i \in 1 .. Len(q) /\ s[i] = q[i]
        \/ j \in 1 .. Len(p) /\ s[i] = p[j]
    BY <2>3
  <2> HIDE DEF j
  <2> QED
    BY <2>2, <2>4
<1>11. created \in [EntryKeys -> 0 .. LastDay + 1] /\ day \in 0 .. LastDay /\ LastDay \in Nat
  BY PolicyAssumption DEF LInv, DayInv
<1>12. /\ created' \in [EntryKeys -> 0 .. LastDay + 1] /\ created'[key] = day
       /\ \A k : k # key => created'[k] = created[k]
  BY <1>11
<1>13. e.type = "RESERVE" =>
          /\ e.delta \in Nat
          /\ DaySum(s, created, Len(s), "RESERVE", day) + e.delta <= MaxDailyStake
          /\ MaxDailyLoss > 0
          /\ -DaySum(s, created, Len(s), "SETTLE", day) < MaxDailyLoss
  <2>1. SUFFICES ASSUME type = "RESERVE"
                 PROVE  /\ effect.delta \in Nat
                        /\ DaySum(s, created, Len(s), "RESERVE", day) + effect.delta <= MaxDailyStake
                        /\ MaxDailyLoss > 0
                        /\ -DaySum(s, created, Len(s), "SETTLE", day) < MaxDailyLoss
    BY <1>3
  <2>2. HasRoom(claim[w], s, created, day)
    BY <1>5, <2>1 DEF LInv, DayInv, Whole, WasJudged
  <2> QED
    BY <2>1, <2>2 DEF HasRoom, WasJudged
<1>14. \A i \in 1 .. Len(s) : created'[s[i].key] = created[s[i].key]
  BY <1>10, <1>12
<1>15. created'[e.key] = day
  BY <1>2, <1>12
<1> HIDE DEF s
<1>16. KeepsLimits(Append(s, e), created', day)
  BY <1>2, <1>7, <1>8, <1>11, <1>13, <1>14, <1>15, LimitsGrow
<1>17. HasRoom(c, Whole(t), created', day)
  BY DEF HasRoom
<1>18. /\ \A b \in Accounts : \A i \in 1 .. Len(journal[b]) :
             created'[journal[b][i].key] = created[journal[b][i].key]
       /\ \A v \in Writers \ {w} : \A i \in 1 .. Len(txn[v].new) :
             created'[txn[v].new[i].key] = created[txn[v].new[i].key]
  BY <1>9, <1>12
<1>19. KeepsLimits(Whole(t), created', day)
  BY <1>7, <1>16
<1>20. created' \in [EntryKeys -> 0 .. LastDay + 1]
  BY <1>12
<1> QED
  BY <1>4, <1>5, <1>17, <1>18, <1>19, <1>20, WriterKeepsDay

(* A step that writes nothing: a lock, a replay, a claim.                  *)
LEMMA NothingWritten ==
    ASSUME LInv, NEW w \in Writers, NEW t, NEW c,
           txn' = [txn EXCEPT ![w] = t], claim' = [claim EXCEPT ![w] = c],
           journal' = journal, day' = day, created' = created,
           \/ t.on = NoAccount
           \/ t.on \in Accounts /\ t.new = <<>>
           \/ t.on = txn[w].on /\ t.new = txn[w].new,
           t.on # NoAccount => HasRoom(c, Whole(t), created, day)
    PROVE  DayInv'
<1>1. created' \in [EntryKeys -> 0 .. LastDay + 1]
  BY DEF LInv, DayInv
<1>2. ASSUME t.on # NoAccount
      PROVE  KeepsLimits(Whole(t), created, day)
  <2>1. CASE t.on \in Accounts /\ t.new = <<>>
    <3>1. journal[t.on] \in Seq(Entries) /\ KeepsLimits(journal[t.on], created, day)
      BY <2>1, JournalKeysDiffer DEF LInv, RInv, DayInv
    <3>2. Whole(t) = journal[t.on]
      BY <2>1, <3>1, ConcatEmptySeq DEF Whole
    <3> QED
      BY <3>1, <3>2
  <2>2. CASE t.on = txn[w].on /\ t.new = txn[w].new
    BY <1>2, <2>2 DEF LInv, DayInv, Whole
  <2> QED
    BY <1>2, <2>1, <2>2
<1> QED
  BY <1>1, <1>2, WriterKeepsDay

(* The transaction's own sums are the sums of its day.                     *)
LEMMA TodaysSums ==
    ASSUME LInv, NEW w \in Writers, txn[w].on # NoAccount
    PROVE  /\ DailyStaked(w) = DaySum(Whole(txn[w]), created, Len(Whole(txn[w])), "RESERVE", day)
           /\ DailyPnl(w) = DaySum(Whole(txn[w]), created, Len(Whole(txn[w])), "SETTLE", day)
<1> DEFINE s == Whole(txn[w])
           E(type) == {e \in EntriesOf(s) : e.type = type /\ created[e.key] = day}
           q == journal[txn[w].on]
           p == txn[w].new
<1>1. s \in Seq(Entries) /\ KeysDiffer(s) /\ KeepsLimits(s, created, day)
  BY ConcatKeysDiffer DEF LInv, RInv, DayInv
<1>2. q \in Seq(Entries) /\ p \in Seq(Entries) /\ s = q \o p
  BY DEF LInv, RInv, IInv, LedgerTypes, Whole
<1>3. EntriesOf(s) = EntriesOf(q) \cup EntriesOf(p)
  <2> HIDE DEF s, q, p
  <2>1. /\ Len(q) \in Nat
        /\ \A i \in 1 .. Len(q) : i \in 1 .. Len(s) /\ s[i] = q[i]
        /\ \A i \in 1 .. Len(p) : Len(q) + i \in 1 .. Len(s) /\ s[Len(q) + i] = p[i]
        /\ \A k \in 1 .. Len(s) :
              \/ k \in 1 .. Len(q) /\ s[k] = q[k]
              \/ k - Len(q) \in 1 .. Len(p) /\ s[k] = p[k - Len(q)]
    BY <1>2, ConcatEntries
  <2>2. EntriesOf(s) \subseteq EntriesOf(q) \cup EntriesOf(p)
    BY <2>1 DEF EntriesOf
  <2>3. EntriesOf(q) \subseteq EntriesOf(s)
    BY <2>1 DEF EntriesOf
  <2>4. EntriesOf(p) \subseteq EntriesOf(s)
    BY <2>1 DEF EntriesOf
  <2> QED
    BY <2>2, <2>3, <2>4
<1>4. \A e \in EntriesOf(s) : e \in Entries /\ created[e.key] \in 0 .. day
  BY <1>1, ElementOfSeq DEF EntriesOf, KeepsLimits
<1>5. day \in 0 .. LastDay /\ LastDay \in Nat
  BY PolicyAssumption DEF LInv, DayInv
<1>6. \A type : {e \in Today(w) : e.type = type} = E(type)
  <2>1. Today(w) = {e \in EntriesOf(s) : created[e.key] # NoDay /\ created[e.key] >= day}
    BY <1>3 DEF Today, WrittenBy
  <2>2. \A d \in 0 .. day : (d # NoDay /\ d >= day) <=> d = day
    BY <1>5 DEF NoDay
  <2>3. Today(w) = {e \in EntriesOf(s) : created[e.key] = day}
    BY <1>4, <2>1, <2>2
  <2> QED
    BY <2>3
<1>7. \A type : IsFiniteSet(E(type)) /\ E(type) \subseteq Entries /\ \A e \in E(type) : e.type = type
  <2>1. IsFiniteSet(EntriesOf(s))
    <3> DEFINE f == [i \in 1 .. Len(s) |-> s[i]]
    <3>1. IsFiniteSet(1 .. Len(s))
      BY <1>1, LenProperties, FS_Interval
    <3>2. f \in Surjection(1 .. Len(s), EntriesOf(s))
      BY DEF Surjection, EntriesOf
    <3> HIDE DEF f, s
    <3> QED
      BY <3>1, <3>2, FS_Surjection
  <2>2. \A type : E(type) \in SUBSET EntriesOf(s)
    OBVIOUS
  <2>3. \A X \in SUBSET EntriesOf(s) : IsFiniteSet(X)
    BY <2>1, FS_Subset
  <2> QED
    BY <1>4, <2>2, <2>3
<1>8. \A type : SumOf([e \in Entries |-> Weight(e)], E(type)) = DaySum(s, created, Len(s), type, day)
  <2> HIDE DEF s
  <2> QED
    BY <1>1, EntrySumIsDaySum
<1> DEFINE R == E("RESERVE")
           T == E("SETTLE")
<1>9. DailyStaked(w) = MapThenSumSet(LAMBDA e : e.delta, R)
  BY <1>6 DEF DailyStaked
<1>10. DailyPnl(w) = MapThenSumSet(LAMBDA e : e.amount + e.delta, T)
  BY <1>6 DEF DailyPnl
<1>11. IsFiniteSet(R) /\ R \subseteq Entries /\ \A e \in R : e.type = "RESERVE"
  BY <1>7
<1>12. IsFiniteSet(T) /\ T \subseteq Entries /\ \A e \in T : e.type = "SETTLE"
  BY <1>7
<1>13. /\ SumOf([e \in Entries |-> Weight(e)], R) = DaySum(s, created, Len(s), "RESERVE", day)
       /\ SumOf([e \in Entries |-> Weight(e)], T) = DaySum(s, created, Len(s), "SETTLE", day)
  BY <1>8
<1> HIDE DEF R, T, s
<1> QED
  BY <1>9, <1>10, <1>11, <1>12, <1>13, DeltaSum, PnlSum DEF s

(* Steps of one writer that leave the entries and their days alone.        *)
LEMMA ClaimKeepsDay ==
    ASSUME LInv, NEW w \in Writers, BeginReserve(w) \/ AddUpDay(w) \/ RaiseStop(w)
    PROVE  DayInv'
<1>1. PICK c \in Claims : claim' = [claim EXCEPT ![w] = c] /\ c.stage # "judged"
  BY ClaimMoves DEF MovesClaim, LInv
<1>2. txn' = [txn EXCEPT ![w] = txn[w]]
  BY DEF BeginReserve, AddUpDay, RaiseStop, vars, LInv, RInv, IInv, LedgerTypes
<1>3. journal' = journal /\ day' = day /\ created' = created
  BY DEF BeginReserve, AddUpDay, RaiseStop, vars
<1> QED
  BY <1>1, <1>2, <1>3, NothingWritten DEF HasRoom

(* The judgement is about the very sums that the entry will move.          *)
LEMMA JudgeKeepsDay ==
    ASSUME LInv, NEW w \in Writers, NEW key \in Keys, NEW stake \in Cents, Judge(w, key, stake)
    PROVE  DayInv'
<1> DEFINE c == [claim[w] EXCEPT !.stage = "judged", !.key = key, !.stake = stake]
           s == Whole(txn[w])
           staked == DaySum(s, created, Len(s), "RESERVE", day)
           pnl == DaySum(s, created, Len(s), "SETTLE", day)
<1>1. claim' = [claim EXCEPT ![w] = c] /\ c.stage = "judged" /\ c.stake = stake
  BY DEF Judge, LInv, RInv, ExposureInv, ClaimTypes, Claims
<1>2. txn' = [txn EXCEPT ![w] = txn[w]] /\ journal' = journal /\ day' = day /\ created' = created
  BY DEF Judge, vars, LInv, RInv, IInv, LedgerTypes
<1>3. txn[w].on # NoAccount
  BY DEF Judge, Writing
<1>4. DailyStaked(w) = staked /\ DailyPnl(w) = pnl
  BY <1>3, TodaysSums
<1>5. staked \in Int /\ pnl \in Int
  <2>1. s \in Seq(Entries)
    BY <1>3, ConcatKeysDiffer DEF LInv, RInv
  <2>2. Len(s) \in 0 .. Len(s)
    BY <2>1, LenProperties
  <2> HIDE DEF s
  <2> QED
    BY <2>1, <2>2, DaySumIsInteger
<1> HIDE DEF staked, pnl, c
<1>6. staked + stake <= MaxDailyStake /\ MaxDailyLoss # 0 /\ ~ (-pnl >= MaxDailyLoss)
  BY <1>4 DEF Judge, Permitted, WithinDailyStake, LossReached
<1>7. MaxDailyLoss > 0 /\ -pnl < MaxDailyLoss
  BY <1>5, <1>6, PolicyAssumption
<1>8. HasRoom(c, Whole(txn[w]), created, day)
  BY <1>1, <1>6, <1>7 DEF HasRoom, staked, pnl
<1> QED
  BY <1>1, <1>2, <1>8, NothingWritten

LEMMA BookKeepsDay ==
    ASSUME LInv, NEW w \in Writers, BookReserve(w),
           NEW key, key = claim[w].key, NEW stake, stake = claim[w].stake
    PROVE  DayInv'
<1>1. claim[w].stage = "judged" /\ key \in Keys /\ stake \in Cents
  BY DEF BookReserve, LInv, RInv, ExposureInv, JudgedFits, Fits
<1> DEFINE type == "RESERVE"
           effect == MovementEffect(type, stake, 0)
<1>2. effect.delta = stake /\ effect.delta \in Nat
  BY <1>1, CentsAssumption DEF MovementEffect
<1>3. type \in OrderTypes /\ 0 \in Cents \cup {0}
  BY DEF OrderTypes, EntryTypes
<1>4. AppendEntry(w, key, type, stake, 0)
  BY DEF BookReserve
<1>5. /\ txn[w].on \in Accounts /\ txn[w].row \in Rows
      /\ key \in EntryKeys /\ type \in EntryTypes
      /\ Grows(w, txn[w].on, txn[w].row, key, type, effect)
  BY <1>1, <1>3, <1>4, AppendEntryGrows DEF LInv, RInv
<1>6. PICK c : claim' = [claim EXCEPT ![w] = c] /\ c.stage # "judged"
  <2>1. [NoClaim EXCEPT !.stage = "booked"].stage # "judged"
    BY DEF NoClaim
  <2> QED
    BY <2>1 DEF BookReserve
<1>7. day' = day /\ created' = [created EXCEPT ![key] = day]
  BY DEF BookReserve
<1> HIDE DEF type, effect
<1>8. WasJudged(w, txn[w].on, type, effect)
  BY <1>1, <1>2 DEF WasJudged
<1> QED
  BY <1>5, <1>6, <1>7, <1>8, GrowsKeepsDay

LEMMA EntryKeepsDay ==
    ASSUME LInv, NEW w \in Writers, NEW key \in Keys, NEW stake \in Cents,
           ReleaseStake(w, key, stake) \/ \E paid \in Payouts : SettleStake(w, key, stake, paid)
    PROVE  DayInv'
<1>1. PICK type \in {"RELEASE", "SETTLE"}, cents \in Cents \cup {0} :
          AppendEntry(w, key, type, stake, cents)
  BY PayoutsAssumption DEF ReleaseStake, SettleStake
<1>2. type \in OrderTypes /\ type # "RESERVE"
  BY DEF OrderTypes, EntryTypes
<1>3. /\ txn[w].on \in Accounts /\ txn[w].row \in Rows
      /\ key \in EntryKeys /\ type \in EntryTypes
      /\ Grows(w, txn[w].on, txn[w].row, key, type, MovementEffect(type, stake, cents))
  BY <1>1, <1>2, AppendEntryGrows DEF LInv, RInv
<1>4. PICK c \in Claims : claim' = [claim EXCEPT ![w] = c] /\ c.stage # "judged"
  BY ClaimMoves DEF MovesClaim, LInv
<1>5. day' = day /\ created' = [created EXCEPT ![key] = day]
  BY DEF ReleaseStake, SettleStake
<1> DEFINE effect == MovementEffect(type, stake, cents)
<1>6. Grows(w, txn[w].on, txn[w].row, key, type, effect)
  BY <1>3
<1>7. WasJudged(w, txn[w].on, type, effect)
  BY <1>2 DEF WasJudged
<1> HIDE DEF effect
<1> QED
  BY <1>3, <1>4, <1>5, <1>6, <1>7, GrowsKeepsDay

LEMMA OpenKeepsDay ==
    ASSUME LInv, NEW w \in Writers, NEW a \in Accounts, OpenAccount(w, a)
    PROVE  DayInv'
<1>1. /\ RowOf(NoMoney, 1) \in Rows
      /\ OpenKey(a) \in EntryKeys /\ "ADJUSTMENT" \in EntryTypes
      /\ \E cents \in Cents :
            Grows(w, a, RowOf(NoMoney, 1), OpenKey(a), "ADJUSTMENT",
                  MovementEffect("ADJUSTMENT", cents, cents))
  BY OpenGrows DEF OpenAccount, LInv, RInv
<1>2. PICK c \in Claims : claim' = [claim EXCEPT ![w] = c] /\ c.stage # "judged"
  BY ClaimMoves DEF MovesClaim, LInv
<1>3. day' = day /\ created' = [created EXCEPT ![OpenKey(a)] = day]
  BY DEF OpenAccount
<1>4. PICK effect : Grows(w, a, RowOf(NoMoney, 1), OpenKey(a), "ADJUSTMENT", effect)
  BY <1>1
<1>5. WasJudged(w, a, "ADJUSTMENT", effect)
  BY DEF WasJudged
<1> QED
  BY <1>1, <1>2, <1>3, <1>4, <1>5, GrowsKeepsDay

LEMMA LockKeepsDay ==
    ASSUME LInv, NEW w \in Writers, NEW a \in Accounts, LockForReserve(w, a) \/ LockForEntry(w, a)
    PROVE  DayInv'
<1> DEFINE t == Started(a, account[a])
<1>1. txn' = [txn EXCEPT ![w] = t] /\ journal' = journal /\ day' = day /\ created' = created
  BY DEF LockForReserve, LockForEntry, LockAccount
<1>2. t.on \in Accounts /\ t.new = <<>>
  BY DEF Started
<1>3. PICK c \in Claims : claim' = [claim EXCEPT ![w] = c] /\ c.stage # "judged"
  BY ClaimMoves DEF MovesClaim, LInv
<1> HIDE DEF t
<1> QED
  BY <1>1, <1>2, <1>3, NothingWritten DEF HasRoom

LEMMA ReplayKeepsDay ==
    ASSUME LInv, NEW w \in Writers, NEW key, NEW type, NEW stake, NEW paid,
           ReplayReserve(w, key, stake) \/ ReplayEntry(w, key, type, stake, paid)
    PROVE  DayInv'
<1>0. txn \in [Writers -> Transactions]
  BY DEF LInv, RInv, IInv, LedgerTypes, Transactions
<1>1. PICK told : txn' = [txn EXCEPT ![w] = [txn[w] EXCEPT !.told = told]]
  <2>1. ASSUME NEW kind, NEW cents, Replay(w, key, kind, stake, cents)
        PROVE  \E told : txn' = [txn EXCEPT ![w] = [txn[w] EXCEPT !.told = told]]
    BY <1>0, <2>1 DEF Replay
  <2> QED
    BY <2>1 DEF ReplayReserve, ReplayEntry
<1> DEFINE t == [txn[w] EXCEPT !.told = told]
<1>2. t.on = txn[w].on /\ t.new = txn[w].new
  BY <1>0 DEF Transactions
<1>3. journal' = journal /\ day' = day /\ created' = created
  BY DEF ReplayReserve, ReplayEntry, Replay
<1>4. PICK c \in Claims : claim' = [claim EXCEPT ![w] = c] /\ c.stage # "judged"
  BY ClaimMoves DEF MovesClaim, LInv
<1>5. txn' = [txn EXCEPT ![w] = t]
  BY <1>1
<1> HIDE DEF t
<1> QED
  BY <1>2, <1>3, <1>4, <1>5, NothingWritten DEF HasRoom

LEMMA RefuseKeepsDay ==
    ASSUME LInv, NEW w \in Writers, NEW stake, NEW stale, Refuse(w, stake, stale)
    PROVE  DayInv'
<1>1. /\ txn' = [txn EXCEPT ![w] = Idle] /\ Idle.on = NoAccount
      /\ journal' = journal /\ day' = day /\ created' = created
  BY DEF Refuse, Idle
<1>2. PICK c \in Claims : claim' = [claim EXCEPT ![w] = c] /\ c.stage # "judged"
  BY ClaimMoves DEF MovesClaim, LInv
<1> QED
  BY <1>1, <1>2, NothingWritten DEF HasRoom

(* The entries that go were those of nobody else.                          *)
LEMMA AbandonKeepsDay ==
    ASSUME LInv, NEW w \in Writers, Abandon(w)
    PROVE  DayInv'
<1>1. /\ txn' = [txn EXCEPT ![w] = Idle] /\ Idle.on = NoAccount
      /\ journal' = journal /\ day' = day
  BY DEF Abandon, Idle
<1>2. PICK c \in Claims : claim' = [claim EXCEPT ![w] = c] /\ c.stage # "judged"
  BY ClaimMoves DEF MovesClaim, LInv
<1>3. created' \in [EntryKeys -> 0 .. LastDay + 1]
  <2>1. NoDay \in 0 .. LastDay + 1
    BY PolicyAssumption DEF NoDay
  <2> QED
    BY <2>1 DEF Abandon, LInv, DayInv
<1>4. \A key \in EntryKeys : (\A e \in WrittenBy(w) : e.key # key) => created'[key] = created[key]
  BY DEF Abandon
<1>5. ASSUME NEW a \in Accounts, NEW i \in 1 .. Len(journal[a])
      PROVE  created'[journal[a][i].key] = created[journal[a][i].key]
  <2>1. journal[a][i].key \in EntryKeys
    <3>1. journal[a] \in Seq(Entries)
      BY DEF LInv, RInv, IInv, LedgerTypes
    <3>2. journal[a][i] \in Entries
      BY <3>1, ElementOfSeq
    <3> QED
      BY <3>2 DEF Entries
  <2>2. \A e \in WrittenBy(w) : e.key # journal[a][i].key
    BY DEF LInv, RInv, IInv, PendingKeysAreNew, WrittenBy, EntriesOf
  <2> QED
    BY <1>4, <2>1, <2>2
<1>6. ASSUME NEW v \in Writers \ {w}, NEW i \in 1 .. Len(txn[v].new)
      PROVE  created'[txn[v].new[i].key] = created[txn[v].new[i].key]
  <2>1. txn[v].new[i].key \in EntryKeys
    <3>1. txn[v].new \in Seq(Entries)
      BY DEF LInv, RInv, IInv, LedgerTypes
    <3>2. txn[v].new[i] \in Entries
      BY <3>1, ElementOfSeq
    <3> QED
      BY <3>2 DEF Entries
  <2>2. \A e \in WrittenBy(w) : e.key # txn[v].new[i].key
    BY DEF LInv, RInv, IInv, PendingKeysAreNew, WrittenBy, EntriesOf
  <2> QED
    BY <1>4, <2>1, <2>2
<1> QED
  BY <1>1, <1>2, <1>3, <1>5, <1>6, WriterKeepsDay

(* A commit makes the journal what the transaction had judged.             *)
LEMMA CommitKeepsDay ==
    ASSUME LInv, NEW w \in Writers, CommitClaim(w)
    PROVE  DayInv'
<1> DEFINE a == txn[w].on
<1>0. Commit(w) /\ IInv /\ day' = day /\ created' = created
  BY DEF CommitClaim, LInv, RInv
<1>1. a \in Accounts /\ journal'[a] = Whole(txn[w])
      /\ \A b \in Accounts \ {a} : journal'[b] = journal[b]
  BY <1>0, CommittedTables DEF Whole
<1>2. a # NoAccount /\ txn' = [txn EXCEPT ![w] = Idle]
  BY <1>0 DEF Commit
<1>3. PICK c \in Claims : claim' = [claim EXCEPT ![w] = c] /\ c.stage # "judged"
  BY ClaimMoves DEF MovesClaim, LInv
<1>4. /\ txn'[w] = Idle
      /\ \A v \in Writers \ {w} : txn'[v] = txn[v] /\ claim'[v] = claim[v]
  BY <1>2, <1>3 DEF LInv, RInv, IInv, LedgerTypes, ExposureInv, ClaimTypes
<1>5. \A b \in Accounts : KeepsLimits(journal'[b], created, day)
  BY <1>1, <1>2 DEF LInv, DayInv
<1>6. ASSUME NEW v \in Writers, txn'[v].on # NoAccount
      PROVE  /\ v # w /\ txn'[v] = txn[v] /\ claim'[v] = claim[v]
             /\ Whole(txn[v])' = Whole(txn[v])
  <2>1. v # w
    BY <1>4, <1>6 DEF Idle
  <2>2. txn[v].on # a /\ txn[v].on \in Accounts
    BY <1>0, <1>4, <1>6, <2>1 DEF IInv, LocksExclude, LedgerTypes
  <2> QED
    BY <1>1, <1>4, <2>1, <2>2 DEF Whole
<1>7. \A v \in Writers : txn'[v].on # NoAccount =>
          /\ KeepsLimits(Whole(txn[v])', created, day)
          /\ HasRoom(claim'[v], Whole(txn[v])', created, day)
  BY <1>6 DEF LInv, DayInv
<1> QED
  BY <1>0, <1>5, <1>7 DEF DayInv, LInv

LEMMA MidnightKeepsDay ==
    ASSUME LInv, Midnight
    PROVE  DayInv'
<1>1. /\ day' = day + 1 /\ day < LastDay /\ created' = created /\ txn' = txn /\ journal' = journal
      /\ claim' = claim
  BY DEF Midnight, vars
<1>2. day \in 0 .. LastDay /\ day \in Nat /\ day + 1 \in 0 .. LastDay
  BY <1>1, PolicyAssumption DEF LInv, DayInv
<1>3. ASSUME NEW a \in Accounts
      PROVE  KeepsLimits(journal[a], created, day + 1)
  <2>1. journal[a] \in Seq(Entries) /\ KeepsLimits(journal[a], created, day)
    BY JournalKeysDiffer DEF LInv, RInv, DayInv
  <2> QED
    BY <1>2, <2>1, LimitsNextDay
<1>4. ASSUME NEW w \in Writers, txn[w].on # NoAccount
      PROVE  /\ KeepsLimits(Whole(txn[w]), created, day + 1)
             /\ HasRoom(claim[w], Whole(txn[w]), created, day + 1)
  <2>1. Whole(txn[w]) \in Seq(Entries)
    BY <1>4, ConcatKeysDiffer DEF LInv, RInv
  <2>2. /\ KeepsLimits(Whole(txn[w]), created, day)
        /\ HasRoom(claim[w], Whole(txn[w]), created, day)
    BY <1>4 DEF LInv, DayInv
  <2>3. claim[w].stake \in Nat
    <3>1. claim[w] \in Claims
      BY DEF LInv, RInv, ExposureInv, ClaimTypes
    <3> DEFINE stake == claim[w].stake
    <3>2. stake \in Cents \cup {0}
      BY <3>1 DEF Claims
    <3> HIDE DEF stake
    <3>3. stake \in Nat
      BY <3>2, CentsAssumption
    <3> QED
      BY <3>3 DEF stake
  <2> QED
    BY <1>2, <2>1, <2>2, <2>3, LimitsNextDay
<1>5. \A w \in Writers : Whole(txn[w])' = Whole(txn[w])
  BY <1>1 DEF Whole
<1>6. DayInv
  BY DEF LInv
<1> QED
  BY <1>1, <1>2, <1>3, <1>4, <1>5, <1>6 DEF DayInv

LEMMA DayStep == LInv /\ [RiskNext]_riskVars => DayInv'
<1> SUFFICES ASSUME LInv, [RiskNext]_riskVars PROVE DayInv'
  OBVIOUS
<1>1. ASSUME UNCHANGED <<journal, txn, claim, created, day>>
      PROVE  DayInv'
  <2>1. \A w \in Writers : Whole(txn[w])' = Whole(txn[w])
    BY <1>1 DEF Whole
  <2> QED
    BY <1>1, <2>1 DEF LInv, DayInv
<1>2. ASSUME \/ /\ \/ \E c \in Checkers, a \in Accounts : ReadAccount(c, a)
                   \/ \E c \in Checkers : CheckStep(c)
                /\ UNCHANGED <<day, created, execution, claim>>
             \/ Reactivate \/ UNCHANGED riskVars
      PROVE  UNCHANGED <<journal, txn, claim, created, day>>
  BY <1>2 DEF ReadAccount, CheckStep, ReadSums, ReadLast, Rest, Reactivate, riskVars, vars
<1>3. CASE RiskNext
  <2>1. CASE \E w \in Writers : \/ BeginReserve(w) \/ BookReserve(w) \/ AddUpDay(w)
                               \/ CommitClaim(w) \/ Abandon(w) \/ RaiseStop(w)
    BY <2>1, ClaimKeepsDay, BookKeepsDay, CommitKeepsDay, AbandonKeepsDay
  <2>2. CASE \E w \in Writers, a \in Accounts :
               LockForReserve(w, a) \/ OpenAccount(w, a) \/ LockForEntry(w, a)
    BY <2>2, LockKeepsDay, OpenKeepsDay
  <2>3. ASSUME NEW w \in Writers, NEW stake \in Cents,
               \/ \E stale \in BOOLEAN : Refuse(w, stake, stale)
               \/ \E key \in Keys : ReplayReserve(w, key, stake) \/ Judge(w, key, stake)
                                     \/ ReleaseStake(w, key, stake)
               \/ \E key \in Keys, paid \in Payouts : SettleStake(w, key, stake, paid)
               \/ \E key \in Keys, type \in OrderTypes, paid \in Payouts :
                      ReplayEntry(w, key, type, stake, paid)
        PROVE  DayInv'
    BY <2>3, RefuseKeepsDay, ReplayKeepsDay, JudgeKeepsDay, EntryKeepsDay
  <2> QED
    BY <1>3, <2>1, <2>2, <2>3, <1>1, <1>2, MidnightKeepsDay DEF RiskNext
<1> QED
  BY <1>1, <1>2, <1>3


LEMMA RiskInitKeepsDay == RiskInit => LInv
<1> SUFFICES ASSUME RiskInit PROVE LInv
  OBVIOUS
<1>1. RInv
  BY RiskInitIsSafe
<1>2. LastDay \in Nat /\ MaxDailyStake \in Nat /\ day = 0
  BY PolicyAssumption DEF RiskInit
<1>3. created \in [EntryKeys -> 0 .. LastDay + 1]
  BY <1>2 DEF RiskInit, NoDay
<1>4. ASSUME NEW a \in Accounts
      PROVE  KeepsLimits(journal[a], created, day)
  <2> DEFINE s == journal[a]
             n == Len(s)
  <2>1. n = 0 /\ n \in Nat
    BY DEF RiskInit, Init
  <2>2. \A i \in 1 .. n : FALSE
    BY <2>1
  <2> HIDE DEF n
  <2>3. ASSUME NEW d
        PROVE  DaySum(s, created, n, "RESERVE", d) = 0
    BY <2>1, <2>2, DaySumOfNothing
  <2> QED
    BY <1>2, <2>2, <2>3 DEF KeepsLimits, n
<1>5. \A w \in Writers : txn[w].on = NoAccount
  BY DEF RiskInit, Init, Idle
<1>6. day \in 0 .. LastDay
  BY <1>2
<1> QED
  BY <1>1, <1>3, <1>4, <1>5, <1>6 DEF LInv, DayInv

(* What the invariant says of a whole journal.                             *)
LEMMA LimitsOfJournals == LInv => DailyStakeHolds /\ NoBetAfterLoss
<1> SUFFICES ASSUME LInv PROVE DailyStakeHolds /\ NoBetAfterLoss
  OBVIOUS
<1>1. ASSUME NEW a \in Accounts, NEW d \in 0 .. LastDay
      PROVE  StakedOn(a, d) <= MaxDailyStake
  <2> DEFINE s == journal[a]
             E == {e \in EntriesOf(s) : e.type = "RESERVE" /\ created[e.key] = d}
  <2>1. s \in Seq(Entries) /\ KeysDiffer(s) /\ KeepsLimits(s, created, day)
    BY JournalKeysDiffer DEF LInv, RInv, DayInv
  <2>2. StakedOn(a, d) = MapThenSumSet(LAMBDA e : e.delta, E)
    BY DEF StakedOn
  <2>3. IsFiniteSet(E) /\ E \subseteq Entries /\ \A e \in E : e.type = "RESERVE"
    <3>1. EntriesOf(s) \subseteq Entries
      BY <2>1, ElementOfSeq DEF EntriesOf
    <3>2. IsFiniteSet(EntriesOf(s))
      <4> DEFINE f == [i \in 1 .. Len(s) |-> s[i]]
      <4>1. IsFiniteSet(1 .. Len(s))
        BY <2>1, LenProperties, FS_Interval
      <4>2. f \in Surjection(1 .. Len(s), EntriesOf(s))
        BY DEF Surjection, EntriesOf
      <4> HIDE DEF f, s
      <4> QED
        BY <4>1, <4>2, FS_Surjection
    <3>3. E \in SUBSET EntriesOf(s)
      OBVIOUS
    <3>4. IsFiniteSet(E)
      <4> HIDE DEF E
      <4> QED
        BY <3>2, <3>3, FS_Subset
    <3> QED
      BY <3>1, <3>4
  <2>4. SumOf([e \in Entries |-> Weight(e)], E) = DaySum(s, created, Len(s), "RESERVE", d)
    <3> HIDE DEF s
    <3> QED
      BY <2>1, EntrySumIsDaySum
  <2>5. DaySum(s, created, Len(s), "RESERVE", d) <= MaxDailyStake
    BY <2>1 DEF KeepsLimits
  <2> HIDE DEF E, s
  <2> QED
    BY <2>2, <2>3, <2>4, <2>5, DeltaSum
<1>2. ASSUME NEW a \in Accounts, NEW i \in 1 .. Len(journal[a]), journal[a][i].type = "RESERVE"
      PROVE  MaxDailyLoss > 0 /\ -PnlBefore(a, i) < MaxDailyLoss
  <2>1. journal[a] \in Seq(Entries) /\ KeepsLimits(journal[a], created, day)
    BY JournalKeysDiffer DEF LInv, RInv, DayInv
  <2>2. PnlBefore(a, i) = DaySum(journal[a], created, i - 1, "SETTLE", created[journal[a][i].key])
    BY <2>1, PlaceSum
  <2> QED
    BY <1>2, <2>1, <2>2 DEF KeepsLimits
<1> QED
  BY <1>1, <1>2 DEF DailyStakeHolds, NoBetAfterLoss

-----------------------------------------------------------------------------
LEMMA RiskNextIsSafe == RInv /\ [RiskNext]_riskVars => RInv'
BY RiskStepIsLedgerStep, NextIsSafe, ExposureStep DEF RInv

(* The strengthened invariant holds in every reachable state.              *)
THEOREM RiskInvariantIsKept == RiskSpec => []RInv
BY RiskInitIsSafe, RiskNextIsSafe, PTL DEF RiskSpec

(* The risk engine implements the ledger: its reservations, refusals,      *)
(* settlements and crashes are openings, locks, appends, commits and       *)
(* rollbacks of LedgerService, so all that is proved of the ledger holds.  *)
THEOREM RiskImplementsLedger == RiskSpec => Spec
<1>1. RiskInit => Init
  BY DEF RiskInit
<1> QED
  BY <1>1, RiskStepIsLedgerStep, RiskInvariantIsKept, PTL DEF RiskSpec, Spec

(* Under the limits too, every journal replays to its account, and what    *)
(* callers were told is in it (LedgerService.append within the             *)
(* transactions of RiskEngineService).                                     *)
THEOREM LedgerPromisesHold == RiskSpec => [](JournalReplays /\ AnswersAreTrue)
<1>1. RInv => JournalReplays /\ AnswersAreTrue
  BY DEF RInv, IInv
<1> QED
  BY <1>1, RiskInvariantIsKept, PTL

(* No account has more at stake than maxOpenExposure, whatever             *)
(* reservations, settlements and crashes interleave (evaluateRisk judges   *)
(* the locked row that reserveWithin then books on).                       *)
THEOREM ExposureStays == RiskSpec => []ExposureHolds
<1>1. RInv => ExposureHolds
  BY DEF RInv, ExposureInv
<1> QED
  BY <1>1, RiskInvariantIsKept, PTL

LEMMA LimitsAreKept == RiskSpec => []LInv
<1>1. RInv /\ DayInv /\ [RiskNext]_riskVars => DayInv'
  BY DayStep DEF LInv
<1>2. RiskInit => DayInv
  BY RiskInitKeepsDay DEF LInv
<1>3. RInv /\ DayInv <=> LInv
  BY DEF LInv
<1> QED
  BY <1>1, <1>2, <1>3, RiskInvariantIsKept, PTL DEF RiskSpec

(* The stakes of a day never exceed maxDailyStake, whatever reservations   *)
(* run at once and over midnight: the sum that evaluateRisk judged under   *)
(* the lock is still the sum when reserveWithin books the entry, or the    *)
(* day is a new one and its sum is nothing.                                *)
THEOREM DailyStakeStays == RiskSpec => []DailyStakeHolds
BY LimitsAreKept, LimitsOfJournals, PTL

(* Nothing is staked on a day after its settlements have lost the limit,   *)
(* whether the stop that dailyAggregates asks for was raised, lost in a    *)
(* crash or undone by an administrator.                                    *)
THEOREM NoStakeAfterLoss == RiskSpec => []NoBetAfterLoss
BY LimitsAreKept, LimitsOfJournals, PTL
=============================================================================
