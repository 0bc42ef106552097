------------------------------- MODULE Ledger -------------------------------
(***************************************************************************)
(* The bankroll ledger (LedgerService): accounts and their append-only     *)
(* journals.  A writer opens an account, or locks one, appends entries and *)
(* commits; appendBatch is several appends of one transaction.  Writers    *)
(* run in READ COMMITTED: what they wrote shows when they commit.  A       *)
(* checker runs verifyInvariant, which reads account, sums and last entry  *)
(* in three queries and no transaction.                                    *)
(***************************************************************************)
EXTENDS LedgerRules, Sequences, FiniteSets, Functions

CONSTANTS
    Accounts,     \* the (mode, operator, currency) an account may be opened for
    Keys,         \* entry keys the callers choose
    Writers,      \* transactions that write
    Checkers,     \* runs of verifyInvariant
    Cents,        \* bound: the amounts of movements
    MaxEntries,   \* bound: entries of one journal
    NoAccount

ASSUME CentsAssumption == Cents \subseteq Nat \ {0}
ASSUME NoAccountAssumption == NoAccount \notin Accounts
ASSUME MaxEntriesAssumption == MaxEntries \in Nat

VARIABLES
    account,   \* the row of each account; version 0 when there is none
    journal,   \* the committed entries of each account
    txn,       \* the transaction of each writer
    answers,   \* the movements that committed transactions were told are booked
    check      \* how far each checker has come, and what it has read

vars == <<account, journal, txn, answers, check>>

Balances(row) == [available |-> row.available, reserved |-> row.reserved]
NoMoney == [available |-> 0, reserved |-> 0]

RowOf(balances, version) ==
    [available |-> balances.available, reserved |-> balances.reserved, version |-> version]

NoRow == RowOf(NoMoney, 0)

(* An adjustment is only ever the opening entry.                           *)
OrderTypes == EntryTypes \ {"ADJUSTMENT"}

(* The key that openAccount writes: open:<id of the account>.              *)
OpenKey(a) == <<"open", a>>
EntryKeys == Keys \cup {OpenKey(a) : a \in Accounts}

(* The keys of movements name orders, never the opening of an account.     *)
ASSUME KeysAssumption == \A a \in Accounts : OpenKey(a) \notin Keys

Entry(key, type, effect, row) ==
    [key |-> key, type |-> type, amount |-> effect.amount, delta |-> effect.delta,
     availableAfter |-> row.available, reservedAfter |-> row.reserved, version |-> row.version]

Idle == [on |-> NoAccount, row |-> NoRow, new |-> <<>>, told |-> {}]
Unstarted == [stage |-> "idle", on |-> NoAccount, row |-> NoRow, sums |-> NoMoney, ok |-> TRUE]

Init ==
    /\ account = [a \in Accounts |-> NoRow]
    /\ journal = [a \in Accounts |-> <<>>]
    /\ txn = [w \in Writers |-> Idle]
    /\ answers = {}
    /\ check = [c \in Checkers |-> Unstarted]

-----------------------------------------------------------------------------
(* Writers *)

IsLocked(a) == \E w \in Writers : txn[w].on = a

EntriesOf(s) == {s[i] : i \in 1 .. Len(s)}
Committed == UNION {EntriesOf(journal[a]) : a \in Accounts}
WrittenBy(w) == EntriesOf(txn[w].new)

Started(a, row) == [on |-> a, row |-> row, new |-> <<>>, told |-> {}]

(* What a caller of append asked for, and is told has been booked.         *)
Movement(a, key, type, effect) ==
    [on |-> a, key |-> key, type |-> type, amount |-> effect.amount, delta |-> effect.delta]

(* The row and the entries of a transaction after one more append.         *)
Appended(t, key, type, effect) ==
    LET row == RowOf(After(Balances(t.row), effect), t.row.version + 1)
    IN  [on   |-> t.on,
         row  |-> row,
         new  |-> Append(t.new, Entry(key, type, effect, row)),
         told |-> t.told \cup {Movement(t.on, key, type, effect)}]

(* openAccount: a row at version 1 without money, and the opening entry.   *)
(* The unique index on mode, operator and currency keeps a second opening  *)
(* waiting, and then refuses it.                                           *)
Open(w, a) ==
    /\ txn[w] = Idle
    /\ account[a] = NoRow
    /\ ~ IsLocked(a)
    /\ \E cents \in Cents :
          txn' = [txn EXCEPT ![w] =
                     Appended(Started(a, RowOf(NoMoney, 1)), OpenKey(a), "ADJUSTMENT",
                              MovementEffect("ADJUSTMENT", cents, cents))]
    /\ UNCHANGED <<account, journal, answers, check>>

(* lockAccount                                                             *)
LockAccount(w, a) ==
    /\ txn[w] = Idle
    /\ account[a] # NoRow
    /\ ~ IsLocked(a)
    /\ txn' = [txn EXCEPT ![w] = Started(a, account[a])]
    /\ UNCHANGED <<account, journal, answers, check>>

IsFree(w, key) ==
    \A e \in Committed \cup UNION {WrittenBy(x) : x \in Writers} : e.key # key

(* Inside a transaction that locked an existing account.                   *)
Writing(w) == txn[w].on # NoAccount /\ account[txn[w].on] # NoRow

(* append, and one movement of appendBatch, with a key that is free.  A    *)
(* movement the rules refuse ends the transaction: see Rollback.           *)
AppendEntry(w, key, type, stake, paid) ==
    LET effect == MovementEffect(type, stake, paid) IN
    /\ Writing(w)
    /\ Len(journal[txn[w].on]) + Len(txn[w].new) < MaxEntries
    /\ IsFree(w, key)
    /\ ValidMovement(type, stake, paid)
    /\ Plannable(type, Balances(txn[w].row), effect)
    /\ txn' = [txn EXCEPT ![w] = Appended(@, key, type, effect)]
    /\ UNCHANGED <<account, journal, answers, check>>

(* Mutant: a key of another account is taken for a replay.                 *)
SameAnywhere(w, key, type, effect) ==
    \E e \in Committed \cup WrittenBy(w) :
        <<e.key, e.type, e.amount, e.delta>> = <<key, type, effect.amount, effect.delta>>

(* The key is taken, and by this movement of this account.                 *)
SameMovement(w, key, type, effect) ==
    \E e \in EntriesOf(journal[txn[w].on]) \cup WrittenBy(w) :
        <<e.key, e.type, e.amount, e.delta>> = <<key, type, effect.amount, effect.delta>>

(* append with a key that is taken: nothing is written.  When the entry is *)
(* that of another movement the transaction fails: see Rollback.           *)
Replay(w, key, type, stake, paid) ==
    LET effect == MovementEffect(type, stake, paid) IN
    /\ Writing(w)
    /\ ValidMovement(type, stake, paid)
    /\ SameMovement(w, key, type, effect)
    /\ txn' = [txn EXCEPT ![w].told = @ \cup {Movement(txn[w].on, key, type, effect)}]
    /\ UNCHANGED <<account, journal, answers, check>>

(* Mutant: the entries are written, the balances of the row are not.       *)
CommitStale(w) ==
    LET t == txn[w] IN
    /\ t.on # NoAccount
    /\ account' = [account EXCEPT ![t.on].version = t.row.version]
    /\ journal' = [journal EXCEPT ![t.on] = @ \o t.new]
    /\ answers' = answers \cup t.told
    /\ txn' = [txn EXCEPT ![w] = Idle]
    /\ UNCHANGED check

(* The transaction commits.  Its updates of the account asked for the      *)
(* version they had read.                                                  *)
Commit(w) ==
    LET t == txn[w] IN
    /\ t.on # NoAccount
    /\ account[t.on] = NoRow \/ account[t.on].version + Len(t.new) = t.row.version
    /\ account' = [account EXCEPT ![t.on] = t.row]
    /\ journal' = [journal EXCEPT ![t.on] = @ \o t.new]
    /\ answers' = answers \cup t.told
    /\ txn' = [txn EXCEPT ![w] = Idle]
    /\ UNCHANGED check

(* A refused movement, a key used for another one, a conflict, a crash.    *)
Rollback(w) ==
    /\ txn[w].on # NoAccount
    /\ txn' = [txn EXCEPT ![w] = Idle]
    /\ UNCHANGED <<account, journal, answers, check>>

-----------------------------------------------------------------------------
(* verifyInvariant *)

ReadAccount(c, a) ==
    /\ check[c].stage = "idle"
    /\ account[a] # NoRow
    /\ check' = [check EXCEPT ![c] = [stage |-> "account", on |-> a, row |-> account[a],
                                      sums |-> NoMoney, ok |-> TRUE]]
    /\ UNCHANGED <<account, journal, txn, answers>>

Sums(s) ==
    [available |-> SumFunction([i \in 1 .. Len(s) |-> s[i].amount]),
     reserved  |-> SumFunction([i \in 1 .. Len(s) |-> s[i].delta])]

ReadSums(c) ==
    /\ check[c].stage = "account"
    /\ check' = [check EXCEPT ![c].stage = "sums", ![c].sums = Sums(journal[check[c].on])]
    /\ UNCHANGED <<account, journal, txn, answers>>

(* Mutant: the oldest entry is taken for the last one.                     *)
OldestEntry(s) == s[1]

LastEntry(s) == s[Len(s)]

(* The row agrees with the sums and, but for its version, with the entry.  *)
Agrees(row, sums, s) ==
    /\ Balances(row) = sums
    /\ s # <<>> => row = [available |-> LastEntry(s).availableAfter,
                          reserved |-> LastEntry(s).reservedAfter,
                          version |-> LastEntry(s).version]

ReadLast(c) ==
    /\ check[c].stage = "sums"
    /\ check' = [check EXCEPT ![c].stage = "done",
                              ![c].ok = Agrees(check[c].row, check[c].sums, journal[check[c].on])]
    /\ UNCHANGED <<account, journal, txn, answers>>

(* The report has been used; the checker may run again.                    *)
Rest(c) ==
    /\ check[c].stage = "done"
    /\ check' = [check EXCEPT ![c] = Unstarted]
    /\ UNCHANGED <<account, journal, txn, answers>>

-----------------------------------------------------------------------------
Next ==
    \/ \E w \in Writers, a \in Accounts : Open(w, a) \/ LockAccount(w, a)
    \/ \E w \in Writers, key \in Keys, type \in OrderTypes, stake \in Cents, paid \in Cents \cup {0} :
          AppendEntry(w, key, type, stake, paid) \/ Replay(w, key, type, stake, paid)
    \/ \E w \in Writers : Commit(w) \/ Rollback(w)
    \/ \E c \in Checkers, a \in Accounts : ReadAccount(c, a)
    \/ \E c \in Checkers : ReadSums(c) \/ ReadLast(c) \/ Rest(c)

Spec == Init /\ [][Next]_vars

-----------------------------------------------------------------------------
(* Properties *)

Rows == [available : Nat, reserved : Nat, version : Nat]
Entries == [key : EntryKeys, type : EntryTypes, amount : Int, delta : Int,
            availableAfter : Nat, reservedAfter : Nat, version : Nat]
Movements == [on : Accounts, key : EntryKeys, type : EntryTypes, amount : Int, delta : Int]

LedgerTypes ==
    /\ account \in [Accounts -> Rows]
    /\ journal \in [Accounts -> Seq(Entries)]
    /\ txn \in [Writers -> [on : Accounts \cup {NoAccount}, row : Rows, new : Seq(Entries),
                            told : SUBSET Movements]]
    /\ answers \subseteq Movements

(* Types; in particular no balance, committed or not, is ever negative,    *)
(* however movements of a batch or of several writers follow each other    *)
(* (planEntry).                                                            *)
TypeOK ==
    /\ LedgerTypes
    /\ check \in [Checkers -> [stage : {"idle", "account", "sums", "done"},
                               on : Accounts \cup {NoAccount}, row : Rows,
                               sums : [available : Int, reserved : Int], ok : BOOLEAN]]

(* The row that entry i of a journal starts from.                          *)
RowBefore(s, i) ==
    IF i = 1 THEN RowOf(NoMoney, 1)
    ELSE RowOf([available |-> s[i-1].availableAfter, reserved |-> s[i-1].reservedAfter],
               s[i-1].version)

(* The entries of s lead from an account just opened to the row.           *)
Reaches(s, row) ==
    /\ \A i \in 1 .. Len(s) :
          RowOf(After(Balances(RowBefore(s, i)), s[i]), RowBefore(s, i).version + 1)
            = RowBefore(s, i + 1)
    /\ row = RowBefore(s, Len(s) + 1)

(* Each entry carries the balances that the one before left, moved by its  *)
(* own amounts, and the next version; the row of the account is what the   *)
(* last entry left.  (append and appendBatch write both in one transaction *)
(* under the lock.)                                                        *)
JournalReplays ==
    \A a \in Accounts : IF journal[a] = <<>> THEN account[a] = NoRow
                                            ELSE Reaches(journal[a], account[a])

(* The invariant verifyInvariant looks for: the row is the sum of the      *)
(* entries.                                                                *)
AccountIsSum == \A a \in Accounts : Balances(account[a]) = Sums(journal[a])

(* One movement per entry key over all accounts, whatever is replayed and  *)
(* by whom (findEntry and the unique index).                               *)
OneEntryPerKey ==
    \A a, b \in Accounts :
        \A i \in 1 .. Len(journal[a]), j \in 1 .. Len(journal[b]) :
            journal[a][i].key = journal[b][j].key => <<a, i>> = <<b, j>>

(* What the caller of append was told, new or replayed, is what the        *)
(* journal of that account holds under that key.                           *)
AnswersAreTrue ==
    \A m \in answers : \E i \in 1 .. Len(journal[m.on]) :
        LET e == journal[m.on][i] IN Movement(m.on, e.key, e.type, e) = m

(* Append-only: no step changes or removes an entry.                       *)
NothingRewritten ==
    [][\A a \in Accounts :
          /\ Len(journal[a]) <= Len(journal'[a])
          /\ \A i \in 1 .. Len(journal[a]) : journal'[a][i] = journal[a][i]]_vars

(* A check during which the account did not move reports no divergence.    *)
UndisturbedChecksPass ==
    \A c \in Checkers :
        check[c].stage = "done" /\ account[check[c].on].version = check[c].row.version => check[c].ok

=============================================================================
