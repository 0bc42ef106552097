--------------------------- MODULE SimulationProofs ---------------------------
(***************************************************************************)
(* A simulation run keeps within its bankroll, bets once on a signal,      *)
(* decides without hindsight and not after its stop, for any signals,      *)
(* quotes, strategies, instances and delays.  A tick takes the journal to  *)
(* another one in passes; each pass is shown to keep what makes a journal  *)
(* sound, and the tick is their composition.                               *)
(***************************************************************************)
EXTENDS Simulation, SequenceTheorems, FoldTheorems, TLAPS

Quotes     == [odd : Nat, book : Nat, observedAt : Int, receivedAt : Int]
QuoteRows  == [bet : Signals, odd : Nat, book : Nat, observedAt : Int, receivedAt : Int]
Codes      == Refusals \cup {"", "ODD_MOVED"}
BetStates  == {"REJECTED", "ORDER_RESERVED", "COMPLETED"}
Outcomes   == {"OPEN", "WON", "LOST", "VOID", "NO_RESULT"}
Bets       == [status : BetStates, code : Codes, stake : Nat \cup {Unknown}, minOdd : Int,
               decidedAt : Int, decision : Quotes, dueAt : Int, executable : Quotes,
               executedAt : Int, outcome : Outcomes, profit : Int, settledAt : Int]
LiveBets   == [market : Markets, side : Sides, minOdd : Nat]

(* Received by then, and fresh.                                            *)
KnownAt(quote, at) ==
    quote # NoQuote => quote.receivedAt <= at /\ at - quote.observedAt <= MaxQuoteAge

(* A bet that was made without hindsight, and has a stake while it is open.*)
IsSound(r) ==
    /\ r \in Bets
    /\ KnownAt(r.decision, r.decidedAt)
    /\ KnownAt(r.executable, r.dueAt)
    /\ r.executable # NoQuote => r.executedAt >= r.dueAt
    /\ r.status = "ORDER_RESERVED" => r.stake \in Nat

IsJournal(js) == js \in [Signals -> [Kinds -> Bets \cup {NoRow}]]

RowsAreSound(js) == \A s \in Signals, k \in Kinds : js[s][k] # NoRow => IsSound(js[s][k])

QuotesAreTyped == quotes \subseteq QuoteRows /\ IsFiniteSet(quotes)

LEMMA NoQuoteIsTyped == NoQuote \in Quotes
BY DEF NoQuote, Quotes

LEMMA NoRowIsNone == NoRow.status = "NONE" /\ NoRow \notin Bets /\ \A r \in Bets : r # NoRow
<1>1. NoRow.status = "NONE"
  BY DEF NoRow
<1>2. \A r \in Bets : r.status # "NONE"
  BY DEF Bets, BetStates
<1> QED
  BY <1>1, <1>2

-----------------------------------------------------------------------------
(* The latest quote is one that counts at that instant.                    *)
LEMMA SelectedIsKnown ==
    ASSUME QuotesAreTyped, NEW s, NEW books, NEW at
    PROVE  SelectLatest(s, books, at) \in Quotes /\ KnownAt(SelectLatest(s, books, at), at)
<1> DEFINE found == Candidates(s, books, at)
           before == {x \in found \X found : Later(x[1], x[2])}
           q == CHOOSE q \in found : \A p \in found : Later(q, p)
<1>1. found \subseteq quotes /\ found \subseteq QuoteRows
  BY DEF Candidates, QuotesAreTyped
<1>2. IsFiniteSet(found)
  BY <1>1, FS_Subset DEF QuotesAreTyped
<1>3. \A p \in found : p.receivedAt <= at /\ at - p.observedAt <= MaxQuoteAge
  BY DEF Candidates
<1>4. CASE found = {}
  BY <1>4, NoQuoteIsTyped DEF SelectLatest, KnownAt
<1>5. CASE found # {}
  <2>1. \A x \in found : x.odd \in Nat /\ x.book \in Nat /\ x.observedAt \in Int /\ x.receivedAt \in Int
    BY <1>1 DEF QuoteRows
  <2> HIDE DEF found
  <2>2. ASSUME NEW x \in found, NEW y \in found
        PROVE  <<x, y>> \in before \/ <<y, x>> \in before
    BY <2>1 DEF Later
  <2>3. ASSUME NEW x \in found, NEW y \in found, NEW z \in found,
               <<x, y>> \in before, <<y, z>> \in before
        PROVE  <<x, z>> \in before
    BY <2>1, <2>3 DEF Later
  <2>4. IsOrder(before, found)
    BY <2>2, <2>3 DEF IsOrder
  <2>5. \E x \in found : \A y \in found : <<x, y>> \in before
    <3> HIDE DEF before
    <3> QED
      BY <1>2, <1>5, <2>4, FirstInOrder
  <2>6. \E x \in found : \A y \in found : Later(x, y)
    BY <2>5
  <2>7. q \in found
    BY <2>6
  <2> HIDE DEF q
  <2>8. SelectLatest(s, books, at) = [odd |-> q.odd, book |-> q.book, observedAt |-> q.observedAt,
                                      receivedAt |-> q.receivedAt]
    BY <1>5 DEF SelectLatest, found, q
  <2>9. [odd |-> q.odd, book |-> q.book, observedAt |-> q.observedAt,
         receivedAt |-> q.receivedAt] \in Quotes
    BY <2>1, <2>7 DEF Quotes
  <2> QED
    BY <1>3, <2>7, <2>8, <2>9 DEF KnownAt
<1> QED
  BY <1>4, <1>5

-----------------------------------------------------------------------------
(* One order of a journal as the first two passes leave it.                *)

(* What a bet has brought, as far as it is known, or may still cost.       *)
Worth(r) == CASE r.status = "COMPLETED"      -> r.profit
              [] r.status = "ORDER_RESERVED" -> -r.stake
              [] OTHER                       -> 0

AtStake(r) == IF r.status = "ORDER_RESERVED" THEN r.stake ELSE 0

LEMMA OutcomesAreTyped == \A m, s : ResolveSettlement(m, s) \in Outcomes
<1>1. \A m, s : Undecided(m, s) \in {"OPEN", "WON", "LOST"}
  BY DEF Undecided, FirstHalfOutcome, SecondHalfOutcome, FullOutcome
<1> QED
  BY <1>1 DEF ResolveSettlement, Outcomes

(* A bet never loses more than its stake.                                  *)
LEMMA ProfitCoversStake ==
    ASSUME NEW stake \in Nat, NEW odd \in Nat
    PROVE  WinningProfit(stake, odd) \in Int /\ WinningProfit(stake, odd) >= -stake
<1> DEFINE p == stake * odd
           x == stake * (odd - 1000) + 500
<1>1. p \in Nat
  OBVIOUS
<1>2. x = p - 1000 * stake + 500
  <2>1. stake * (odd - 1000) = stake * odd - stake * 1000
    OBVIOUS
  <2> QED
    BY <2>1
<1> HIDE DEF p, x
<1>3. x \in Int /\ x >= -(1000 * stake)
  BY <1>1, <1>2
<1>4. x \div 1000 >= -stake /\ x \div 1000 \in Int
  BY <1>3
<1> QED
  BY <1>4 DEF WinningProfit, x

LEMMA ExecutedIsSound ==
    ASSUME QuotesAreTyped, NEW r, IsSound(r), r.status = "ORDER_RESERVED", NEW s,
           NEW now \in Int, r.dueAt <= now
    PROVE  /\ IsSound(Executed(r, s, now))
           /\ Executed(r, s, now).stake = r.stake
           /\ Executed(r, s, now).status \in {"ORDER_RESERVED", "REJECTED"}
<1> DEFINE quote == SelectLatest(s, {r.decision.book}, r.dueAt)
<1>1. quote \in Quotes /\ KnownAt(quote, r.dueAt)
  BY SelectedIsKnown
<1>2. r \in Bets
  BY DEF IsSound
<1> HIDE DEF quote
<1>3. ASSUME NEW e, e = [r EXCEPT !.status = "REJECTED", !.code = "NO_EXECUTABLE_ODD", !.executedAt = now]
      PROVE  IsSound(e) /\ e.stake = r.stake /\ e.status = "REJECTED"
  <2>1. e \in Bets
    BY <1>2, <1>3 DEF Bets, BetStates, Codes, Refusals
  <2>2. /\ e.status = "REJECTED" /\ e.executedAt = now /\ e.decision = r.decision
        /\ e.decidedAt = r.decidedAt /\ e.executable = r.executable /\ e.dueAt = r.dueAt
        /\ e.stake = r.stake
    BY <1>2, <1>3 DEF Bets
  <2> QED
    BY <2>1, <2>2 DEF IsSound
<1>4. ASSUME NEW e,
             e = [r EXCEPT !.status = "REJECTED", !.code = "ODD_MOVED", !.executable = quote,
                           !.executedAt = now]
      PROVE  IsSound(e) /\ e.stake = r.stake /\ e.status = "REJECTED"
  <2>1. e \in Bets
    BY <1>1, <1>2, <1>4 DEF Bets, BetStates, Codes, Refusals
  <2>2. /\ e.status = "REJECTED" /\ e.executedAt = now /\ e.decision = r.decision
        /\ e.decidedAt = r.decidedAt /\ e.executable = quote /\ e.dueAt = r.dueAt
        /\ e.stake = r.stake
    BY <1>2, <1>4 DEF Bets
  <2> QED
    BY <1>1, <2>1, <2>2 DEF IsSound
<1>5. ASSUME NEW e, e = [r EXCEPT !.executable = quote, !.executedAt = now]
      PROVE  IsSound(e) /\ e.stake = r.stake /\ e.status = "ORDER_RESERVED"
  <2>1. e \in Bets
    BY <1>1, <1>2, <1>5 DEF Bets
  <2>2. /\ e.status = r.status /\ e.executedAt = now /\ e.decision = r.decision
        /\ e.decidedAt = r.decidedAt /\ e.executable = quote /\ e.dueAt = r.dueAt
        /\ e.stake = r.stake
    BY <1>2, <1>5 DEF Bets
  <2> QED
    BY <1>1, <2>1, <2>2 DEF IsSound
<1> QED
  BY <1>3, <1>4, <1>5 DEF Executed, quote

LEMMA SettledIsSound ==
    ASSUME NEW r, IsSound(r), r.status = "ORDER_RESERVED", NEW s, NEW now \in Int
    PROVE  /\ IsSound(Settled(r, s, now))
           /\ Settled(r, s, now).stake = r.stake
           /\ Settled(r, s, now).status \in {"ORDER_RESERVED", "COMPLETED"}
           /\ Worth(Settled(r, s, now)) >= Worth(r)
<1> DEFINE outcome == Outcome(r, s, now)
           profit == CASE outcome = "WON"  -> WinningProfit(r.stake, r.executable.odd)
                       [] outcome = "LOST" -> -r.stake
                       [] OTHER            -> 0
           e == [r EXCEPT !.status = "COMPLETED", !.outcome = outcome, !.profit = profit,
                          !.settledAt = now]
<1>1. r \in Bets /\ r.stake \in Nat /\ r.executable.odd \in Nat
  BY DEF IsSound, Bets, Quotes
<1>2. outcome \in Outcomes
  BY OutcomesAreTyped DEF Outcome, Outcomes
<1>3. profit \in Int /\ profit >= -r.stake
  BY <1>1, ProfitCoversStake
<1> HIDE DEF outcome, profit
<1>4. e \in Bets
  BY <1>1, <1>2, <1>3 DEF Bets, BetStates
<1>5. /\ e.status = "COMPLETED" /\ e.executedAt = r.executedAt /\ e.decision = r.decision
      /\ e.decidedAt = r.decidedAt /\ e.executable = r.executable /\ e.dueAt = r.dueAt
      /\ e.stake = r.stake /\ e.profit = profit
  BY <1>1 DEF Bets
<1>6. Settled(r, s, now) = IF outcome = "OPEN" THEN r ELSE e
  BY DEF Settled, outcome, profit
<1> HIDE DEF e
<1>7. IsSound(e)
  BY <1>4, <1>5 DEF IsSound
<1>8. Worth(r) = -r.stake /\ Worth(e) = profit
  BY <1>5 DEF Worth
<1>9. Worth(r) \in Int
  BY <1>1, <1>8
<1> QED
  BY <1>3, <1>5, <1>6, <1>7, <1>8, <1>9

LEMMA AdvancedIsSound ==
    ASSUME QuotesAreTyped, NEW r, IsSound(r), r.status = "ORDER_RESERVED", NEW s, NEW now \in Int
    PROVE  /\ IsSound(Advanced(r, s, now))
           /\ Worth(Advanced(r, s, now)) \in Int /\ AtStake(Advanced(r, s, now)) \in Int
           /\ Worth(Advanced(r, s, now)) >= Worth(r)
           /\ AtStake(Advanced(r, s, now)) <= AtStake(r)
<1> DEFINE e == IF IsDue(r, now) THEN Executed(r, s, now) ELSE r
           a == Advanced(r, s, now)
<1>1. r.stake \in Nat /\ Worth(r) = -r.stake /\ AtStake(r) = r.stake
  BY DEF IsSound, Worth, AtStake
<1>2. IsSound(e) /\ e.stake = r.stake /\ e.status \in {"ORDER_RESERVED", "REJECTED"}
  BY ExecutedIsSound DEF IsDue
<1>3. a = IF e.status = "ORDER_RESERVED" /\ e.executable # NoQuote THEN Settled(e, s, now) ELSE e
  BY DEF Advanced
<1> HIDE DEF e, a
<1>4. Worth(e) >= Worth(r) /\ Worth(e) \in Int
  BY <1>1, <1>2 DEF Worth
<1>5. IsSound(a) /\ a.stake = r.stake /\ Worth(a) >= Worth(r)
  <2>1. CASE e.status = "ORDER_RESERVED" /\ e.executable # NoQuote
    <3>1. a = Settled(e, s, now)
      BY <1>3, <2>1
    <3>2. IsSound(a) /\ a.stake = e.stake /\ Worth(a) >= Worth(e)
      BY <1>2, <2>1, <3>1, SettledIsSound
    <3>3. Worth(e) = Worth(r)
      BY <1>1, <1>2, <2>1 DEF Worth
    <3> QED
      BY <1>2, <3>2, <3>3
  <2> QED
    BY <1>2, <1>3, <1>4, <2>1
<1>6. Worth(a) \in Int /\ AtStake(a) \in Int /\ AtStake(a) <= AtStake(r)
  BY <1>1, <1>5 DEF Worth, AtStake, IsSound, Bets
<1> QED
  BY <1>5, <1>6 DEF a

-----------------------------------------------------------------------------
(* The bankroll, as a sum over all places of the journal.                  *)

Places == Signals \X Kinds

Worths(js) == [x \in Places |-> Worth(js[x[1]][x[2]])]
AtStakes(js) == [x \in Places |-> AtStake(js[x[1]][x[2]])]

LEMMA SignalsAreFinite == IsFiniteSet(Signals) /\ Signals \subseteq [market : Markets, side : Sides]
<1> DEFINE f == [i \in 1 .. Len(SignalOrder) |-> SignalOrder[i]]
<1>1. IsFiniteSet(1 .. Len(SignalOrder))
  BY SignalsAssumption, LenProperties, FS_Interval
<1>2. DOMAIN SignalOrder = 1 .. Len(SignalOrder)
  BY SignalsAssumption, LenProperties
<1>3. f \in Surjection(1 .. Len(SignalOrder), Signals)
  BY <1>2 DEF Surjection, Signals, Range
<1>4. Signals \subseteq [market : Markets, side : Sides]
  BY <1>2, SignalsAssumption, ElementOfSeq DEF Signals, Range
<1> HIDE DEF f
<1> QED
  BY <1>1, <1>3, <1>4, FS_Surjection

LEMMA KindsAreFinite == IsFiniteSet(Kinds)
<1> DEFINE orders == {Order(n) : n \in 0 .. MaxAttempts - 1}
           refusals == {Refused(c) : c \in Refusals}
           f == [n \in 0 .. MaxAttempts - 1 |-> Order(n)]
           g == [c \in Refusals |-> Refused(c)]
<1>1. IsFiniteSet(0 .. MaxAttempts - 1)
  <2>1. 0 \in Int /\ MaxAttempts - 1 \in Int
    BY TimesAssumption
  <2> QED
    BY <2>1, FS_Interval
<1>2. f \in Surjection(0 .. MaxAttempts - 1, orders) /\ g \in Surjection(Refusals, refusals)
  BY DEF Surjection
<1>3. IsFiniteSet(Refusals)
  <2>1. Refusals = (({} \cup {"NO_EXECUTABLE_ODD"}) \cup {"BELOW_MIN_ODD"}) \cup {"LIMIT_EXCEEDED"}
    BY DEF Refusals
  <2>2. IsFiniteSet({})
    BY FS_EmptySet
  <2> QED
    BY <2>1, <2>2, FS_AddElement
<1>4. Kinds = orders \cup refusals
  BY DEF Kinds
<1> HIDE DEF orders, refusals, f, g
<1>5. IsFiniteSet(orders) /\ IsFiniteSet(refusals)
  BY <1>1, <1>2, <1>3, FS_Surjection
<1> QED
  BY <1>4, <1>5, FS_Union

LEMMA PlacesAreFinite == IsFiniteSet(Places)
BY KindsAreFinite, SignalsAreFinite, FS_Product DEF Places

(* The sums of the code (StakeSum, ProfitSum) are sums.                    *)
LEMMA StakesAreSummed ==
    ASSUME NEW js, NEW K, IsFiniteSet(K), NEW g, \A x \in K : g[x] = js[x[1]][x[2]].stake /\ g[x] \in Int
    PROVE  StakeSum(js, K) = SumOf(g, K)
<1> DEFINE isIter(f) == f = [s \in SUBSET K |-> IF s = {} THEN 0
                                     ELSE LET x == CHOOSE x \in s : TRUE
                                          IN  js[x[1]][x[2]].stake + f[s \ {x}]]
           iter == CHOOSE f : isIter(f)
<1>1. StakeSum(js, K) = iter[K]
  BY DEF StakeSum, MapThenSumSet, MapThenFoldSet
<1>2. PICK h : IsSum(h, g, K)
  BY SumFoldExists
<1>3. \A s \in SUBSET K : s # {} => g[First(s)] = js[First(s)[1]][First(s)[2]].stake
  BY FirstIsElement
<1>4. isIter(h)
  BY <1>2, <1>3 DEF IsSum, First
<1>5. isIter(iter)
  <2> HIDE DEF isIter
  <2> QED
    BY <1>4
<1> HIDE DEF iter
<1>6. IsSum(iter, g, K)
  BY <1>3, <1>5 DEF IsSum, First
<1>7. SumOf(g, K) = iter[K]
  BY <1>6, SumIsFold
<1> QED
  BY <1>1, <1>7

LEMMA ProfitsAreSummed ==
    ASSUME NEW js, NEW K, IsFiniteSet(K), NEW g, \A x \in K : g[x] = js[x[1]][x[2]].profit /\ g[x] \in Int
    PROVE  ProfitSum(js, K) = SumOf(g, K)
<1> DEFINE isIter(f) == f = [s \in SUBSET K |-> IF s = {} THEN 0
                                     ELSE LET x == CHOOSE x \in s : TRUE
                                          IN  js[x[1]][x[2]].profit + f[s \ {x}]]
           iter == CHOOSE f : isIter(f)
<1>1. ProfitSum(js, K) = iter[K]
  BY DEF ProfitSum, MapThenSumSet, MapThenFoldSet
<1>2. PICK h : IsSum(h, g, K)
  BY SumFoldExists
<1>3. \A s \in SUBSET K : s # {} => g[First(s)] = js[First(s)[1]][First(s)[2]].profit
  BY FirstIsElement
<1>4. isIter(h)
  BY <1>2, <1>3 DEF IsSum, First
<1>5. isIter(iter)
  <2> HIDE DEF isIter
  <2> QED
    BY <1>4
<1> HIDE DEF iter
<1>6. IsSum(iter, g, K)
  BY <1>3, <1>5 DEF IsSum, First
<1>7. SumOf(g, K) = iter[K]
  BY <1>6, SumIsFold
<1> QED
  BY <1>1, <1>7

LEMMA WorthsAreIntegers ==
    ASSUME NEW js, IsJournal(js), RowsAreSound(js)
    PROVE  \A x \in Places : /\ Worths(js)[x] = Worth(js[x[1]][x[2]]) /\ Worths(js)[x] \in Int
                             /\ AtStakes(js)[x] = AtStake(js[x[1]][x[2]]) /\ AtStakes(js)[x] \in Nat
<1> SUFFICES ASSUME NEW x \in Places
             PROVE  Worth(js[x[1]][x[2]]) \in Int /\ AtStake(js[x[1]][x[2]]) \in Nat
  BY DEF Worths, AtStakes
<1> DEFINE r == js[x[1]][x[2]]
<1>1. (r \in Bets /\ (r.status = "ORDER_RESERVED" => r.stake \in Nat)) \/ r.status = "NONE"
  <2>1. x[1] \in Signals /\ x[2] \in Kinds
    BY DEF Places
  <2> QED
    BY <2>1, NoRowIsNone DEF IsJournal, RowsAreSound, IsSound
<1> HIDE DEF r
<1>2. Worth(r) \in Int /\ AtStake(r) \in Nat
  BY <1>1 DEF Worth, AtStake, Bets
<1> QED
  BY <1>2 DEF r

LEMMA BankrollIsSum ==
    ASSUME NEW js, IsJournal(js), RowsAreSound(js)
    PROVE  /\ Exposure(js) = SumOf(AtStakes(js), Places)
           /\ Available(js) = InitialBankroll + SumOf(Worths(js), Places)
           /\ SumOf(AtStakes(js), Places) \in Nat /\ SumOf(Worths(js), Places) \in Int
<1> DEFINE open == OpenOrders(js)
           done == Completed(js)
           w == Worths(js)
           s == AtStakes(js)
           p == [x \in Places |-> IF x \in done THEN js[x[1]][x[2]].profit ELSE 0]
<1>1. /\ \A x \in Places : /\ w[x] = Worth(js[x[1]][x[2]]) /\ w[x] \in Int
                           /\ s[x] = AtStake(js[x[1]][x[2]]) /\ s[x] \in Nat
      /\ open = {x \in Places : js[x[1]][x[2]].status = "ORDER_RESERVED"}
      /\ done = {x \in Places : js[x[1]][x[2]].status = "COMPLETED"}
  BY WorthsAreIntegers DEF OpenOrders, Completed, Places
<1>2. IsFiniteSet(Places) /\ IsFiniteSet(open) /\ IsFiniteSet(done)
      /\ open \in SUBSET Places /\ done \in SUBSET Places
  BY <1>1, PlacesAreFinite, FS_Subset
<1> HIDE DEF open, done, w, s
<1>3. /\ \A x \in Places : s[x] \in Int /\ p[x] \in Int /\ w[x] \in Int /\ p[x] = w[x] + s[x]
      /\ \A x \in open : s[x] = js[x[1]][x[2]].stake
      /\ \A x \in done : p[x] = js[x[1]][x[2]].profit
      /\ \A x \in Places \ open : s[x] = 0
      /\ \A x \in Places \ done : p[x] = 0
  BY <1>1 DEF Worth, AtStake
<1> HIDE DEF p
<1>4. StakeSum(js, open) = SumOf(s, open)
  BY <1>2, <1>3, StakesAreSummed
<1>5. ProfitSum(js, done) = SumOf(p, done)
  BY <1>2, <1>3, ProfitsAreSummed
<1>6. SumOf(s, Places) = SumOf(s, open)
  BY <1>2, <1>3, SumOfPart
<1>7. SumOf(p, Places) = SumOf(p, done)
  BY <1>2, <1>3, SumOfPart
<1>8. SumOf(p, Places) = SumOf(w, Places) + SumOf(s, Places)
  BY <1>2, <1>3, SumPlus
<1>9. SumOf(s, Places) \in Nat /\ SumOf(w, Places) \in Int
  BY <1>1, <1>2, SumIsNatural, SumTyped
<1>10. Exposure(js) = SumOf(s, Places)
  BY <1>4, <1>6 DEF Exposure, open
<1>11. Available(js) = InitialBankroll + SumOf(p, Places) - Exposure(js)
  BY <1>5, <1>7 DEF Available, done
<1> DEFINE a == SumOf(w, Places)
           b == SumOf(s, Places)
<1>12. Available(js) = InitialBankroll + (a + b) - b /\ a \in Int /\ b \in Nat
  BY <1>8, <1>9, <1>10, <1>11
<1> HIDE DEF a, b
<1>13. Available(js) = InitialBankroll + a
  BY <1>12, MoneyAssumption
<1> QED
  BY <1>9, <1>10, <1>13 DEF a, w, s

-----------------------------------------------------------------------------
(* The passes of a tick. *)

(* The virtual bankroll is not overdrawn, the exposure within its limit.   *)
InBankroll(js) == Available(js) >= 0 /\ Exposure(js) <= run.strategy.maxExposure

IsBet(r) == r.status \in {"ORDER_RESERVED", "COMPLETED"}

(* Orders advance: what they are worth only grows, what is at stake shrinks.*)
LEMMA AdvanceIsSound ==
    ASSUME QuotesAreTyped, NEW js, IsJournal(js), RowsAreSound(js), NEW now \in Int
    PROVE  /\ IsJournal(AdvanceOrders(js, now)) /\ RowsAreSound(AdvanceOrders(js, now))
           /\ Available(AdvanceOrders(js, now)) >= Available(js)
           /\ Exposure(AdvanceOrders(js, now)) <= Exposure(js)
           /\ \A s \in Signals, k \in Kinds :
                 /\ js[s][k] = NoRow => AdvanceOrders(js, now)[s][k] = NoRow
                 /\ IsBet(AdvanceOrders(js, now)[s][k]) => IsBet(js[s][k])
<1> DEFINE adv == AdvanceOrders(js, now)
<1>1. ASSUME NEW s \in Signals, NEW k \in Kinds
      PROVE  /\ adv[s][k] = IF js[s][k].status = "ORDER_RESERVED" THEN Advanced(js[s][k], s, now)
                                                                  ELSE js[s][k]
             /\ js[s][k] \in Bets \cup {NoRow}
             /\ js[s][k] # NoRow => IsSound(js[s][k])
  BY DEF AdvanceOrders, IsJournal, RowsAreSound
<1>2. adv = [s \in Signals |-> [k \in Kinds |-> adv[s][k]]]
  BY DEF AdvanceOrders
<1> HIDE DEF adv
<1>3. ASSUME NEW s \in Signals, NEW k \in Kinds
      PROVE  /\ adv[s][k] \in Bets \cup {NoRow}
             /\ adv[s][k] # NoRow => IsSound(adv[s][k])
             /\ Worth(adv[s][k]) >= Worth(js[s][k])
             /\ AtStake(adv[s][k]) <= AtStake(js[s][k])
             /\ js[s][k] = NoRow => adv[s][k] = NoRow
             /\ IsBet(adv[s][k]) => IsBet(js[s][k])
  <2> DEFINE r == js[s][k]
             a == adv[s][k]
  <2>1. r \in Bets \cup {NoRow} /\ (r # NoRow => IsSound(r))
    BY <1>1
  <2>2. a = IF r.status = "ORDER_RESERVED" THEN Advanced(r, s, now) ELSE r
    BY <1>1
  <2> HIDE DEF r, a
  <2>3. CASE r.status = "ORDER_RESERVED"
    <3>1. r # NoRow /\ IsSound(r)
      BY <2>1, <2>3, NoRowIsNone
    <3>2. IsSound(a) /\ Worth(a) >= Worth(r) /\ AtStake(a) <= AtStake(r)
      BY <2>2, <2>3, <3>1, AdvancedIsSound
    <3>3. IsBet(r)
      BY <2>3 DEF IsBet
    <3> QED
      BY <3>1, <3>2, <3>3 DEF IsSound, r, a
  <2>4. CASE r.status # "ORDER_RESERVED"
    <3>1. a = r
      BY <2>2, <2>4
    <3>2. Worth(r) \in Int /\ AtStake(r) \in Int
      BY <2>1, <2>4, NoRowIsNone DEF Worth, AtStake, Bets
    <3> QED
      BY <2>1, <3>1, <3>2 DEF r, a
  <2> QED
    BY <2>3, <2>4
<1>4. IsJournal(adv) /\ RowsAreSound(adv)
  BY <1>2, <1>3 DEF IsJournal, RowsAreSound
<1> DEFINE w == Worths(js)
           w2 == Worths(adv)
           s1 == AtStakes(js)
           s2 == AtStakes(adv)
<1>5. \A x \in Places : /\ w[x] \in Int /\ w2[x] \in Int /\ w[x] <= w2[x]
                        /\ s1[x] \in Int /\ s2[x] \in Int /\ s2[x] <= s1[x]
  <2>1. \A x \in Places : x[1] \in Signals /\ x[2] \in Kinds
    BY DEF Places
  <2>2. \A x \in Places : /\ w[x] = Worth(js[x[1]][x[2]]) /\ w[x] \in Int
                          /\ s1[x] = AtStake(js[x[1]][x[2]]) /\ s1[x] \in Nat
    BY WorthsAreIntegers
  <2>3. \A x \in Places : /\ w2[x] = Worth(adv[x[1]][x[2]]) /\ w2[x] \in Int
                          /\ s2[x] = AtStake(adv[x[1]][x[2]]) /\ s2[x] \in Nat
    BY <1>4, WorthsAreIntegers
  <2> HIDE DEF w, w2, s1, s2
  <2> QED
    BY <1>3, <2>1, <2>2, <2>3
<1>6. /\ Exposure(js) = SumOf(s1, Places) /\ Available(js) = InitialBankroll + SumOf(w, Places)
      /\ SumOf(s1, Places) \in Nat /\ SumOf(w, Places) \in Int
  BY BankrollIsSum
<1>7. /\ Exposure(adv) = SumOf(s2, Places) /\ Available(adv) = InitialBankroll + SumOf(w2, Places)
      /\ SumOf(s2, Places) \in Nat /\ SumOf(w2, Places) \in Int
  BY <1>4, BankrollIsSum
<1> HIDE DEF w, w2, s1, s2
<1>8. SumOf(w, Places) <= SumOf(w2, Places) /\ SumOf(s2, Places) <= SumOf(s1, Places)
  BY <1>5, PlacesAreFinite, SumMonotone
<1>9. Available(adv) >= Available(js) /\ Exposure(adv) <= Exposure(js)
  <2> DEFINE a == SumOf(w, Places)
             b == SumOf(w2, Places)
  <2>1. a \in Int /\ b \in Int /\ a <= b /\ Available(js) = InitialBankroll + a
        /\ Available(adv) = InitialBankroll + b
    BY <1>6, <1>7, <1>8
  <2> HIDE DEF a, b
  <2>2. Available(adv) >= Available(js)
    BY <2>1, MoneyAssumption
  <2> QED
    BY <1>6, <1>7, <1>8, <2>2
<1> QED
  BY <1>3, <1>4, <1>9 DEF adv

(* A row that is new, and affordable when it is an order.                  *)
LEMMA InsertIsSound ==
    ASSUME NEW js, IsJournal(js), RowsAreSound(js), InBankroll(js),
           run.strategy.maxExposure \in Nat,
           NEW s \in Signals, NEW k \in Kinds, NEW r, IsSound(r),
           AtStake(r) \in Nat, AtStake(r) + Worth(r) = 0,
           AtStake(r) > 0 => /\ AtStake(r) <= Available(js)
                             /\ AtStake(r) <= run.strategy.maxExposure - Exposure(js)
    PROVE  /\ IsJournal(Insert(js, s, k, r)) /\ RowsAreSound(Insert(js, s, k, r))
           /\ InBankroll(Insert(js, s, k, r))
           /\ \A s2 \in Signals, k2 \in Kinds :
                 Insert(js, s, k, r)[s2][k2] = js[s2][k2]
                   \/ (s2 = s /\ k2 = k /\ Insert(js, s, k, r)[s2][k2] = r)
<1> DEFINE new == [js EXCEPT ![s][k] = r]
<1>1. CASE js[s][k] # NoRow
  <2>1. Insert(js, s, k, r) = js
    BY <1>1 DEF Insert
  <2> QED
    BY <2>1
<1>2. CASE js[s][k] = NoRow
  <2>1. Insert(js, s, k, r) = new
    BY <1>2 DEF Insert
  <2>2. /\ js \in [Signals -> [Kinds -> Bets \cup {NoRow}]]
        /\ r \in Bets
    BY DEF IsJournal, IsSound
  <2>3. /\ IsJournal(new)
        /\ new[s][k] = r
        /\ \A s2 \in Signals, k2 \in Kinds : (s2 # s \/ k2 # k) => new[s2][k2] = js[s2][k2]
    BY <2>2 DEF IsJournal
  <2> HIDE DEF new
  <2>4. RowsAreSound(new)
    BY <2>3 DEF RowsAreSound
  <2> DEFINE e == <<s, k>>
             w == Worths(js)
             w2 == Worths(new)
             s1 == AtStakes(js)
             s2 == AtStakes(new)
  <2>5. e \in Places /\ e[1] = s /\ e[2] = k
    BY DEF Places
  <2>6. \A x \in Places : x[1] \in Signals /\ x[2] \in Kinds /\ (x # e => x[1] # s \/ x[2] # k)
    BY DEF Places
  <2>7. \A x \in Places : /\ w[x] = Worth(js[x[1]][x[2]]) /\ w[x] \in Int
                          /\ s1[x] = AtStake(js[x[1]][x[2]]) /\ s1[x] \in Nat
    BY WorthsAreIntegers
  <2>8. \A x \in Places : /\ w2[x] = Worth(new[x[1]][x[2]]) /\ w2[x] \in Int
                          /\ s2[x] = AtStake(new[x[1]][x[2]]) /\ s2[x] \in Nat
    BY <2>3, <2>4, WorthsAreIntegers
  <2>9. /\ Exposure(js) = SumOf(s1, Places) /\ Available(js) = InitialBankroll + SumOf(w, Places)
        /\ SumOf(s1, Places) \in Nat /\ SumOf(w, Places) \in Int
    BY BankrollIsSum
  <2>10. /\ Exposure(new) = SumOf(s2, Places) /\ Available(new) = InitialBankroll + SumOf(w2, Places)
         /\ SumOf(s2, Places) \in Nat /\ SumOf(w2, Places) \in Int
    BY <2>3, <2>4, BankrollIsSum
  <2> HIDE DEF e, w, w2, s1, s2
  <2>11. \A x \in Places \ {e} : w2[x] = w[x] /\ s2[x] = s1[x]
    BY <2>3, <2>6, <2>7, <2>8
  <2>12. w[e] = 0 /\ s1[e] = 0 /\ w2[e] = Worth(r) /\ s2[e] = AtStake(r)
    <3>1. Worth(NoRow) = 0 /\ AtStake(NoRow) = 0
      BY NoRowIsNone DEF Worth, AtStake
    <3> QED
      BY <1>2, <2>3, <2>5, <2>7, <2>8, <3>1
  <2>13. \A x \in Places : w[x] \in Int /\ w2[x] \in Int /\ s1[x] \in Int /\ s2[x] \in Int
    BY <2>7, <2>8
  <2>14. SumOf(w2, Places) = SumOf(w, Places) + (w2[e] - w[e])
    BY <2>5, <2>11, <2>13, PlacesAreFinite, SumChanged
  <2>15. SumOf(s2, Places) = SumOf(s1, Places) + (s2[e] - s1[e])
    BY <2>5, <2>11, <2>13, PlacesAreFinite, SumChanged
  <2> DEFINE a == SumOf(w, Places)
             b == SumOf(s1, Places)
             c == AtStake(r)
             m == run.strategy.maxExposure
  <2>16. Worth(r) = -c
    <3>1. Worth(r) \in Int
      BY <2>5, <2>12, <2>13
    <3> QED
      BY <3>1
  <2>17. /\ a \in Int /\ b \in Nat /\ c \in Nat /\ m \in Nat
         /\ Available(js) = InitialBankroll + a /\ Available(new) = InitialBankroll + (a + (-c - 0))
         /\ Exposure(js) = b /\ Exposure(new) = b + (c - 0)
         /\ c > 0 => c <= Available(js) /\ c <= m - Exposure(js)
         /\ Available(js) >= 0 /\ Exposure(js) <= m
    BY <2>9, <2>10, <2>12, <2>14, <2>15, <2>16 DEF InBankroll
  <2> HIDE DEF a, b, c, m
  <2>18. Available(new) >= 0 /\ Exposure(new) <= m
    BY <2>17, MoneyAssumption
  <2>19. InBankroll(new)
    BY <2>18 DEF InBankroll, m
  <2> QED
    BY <2>1, <2>3, <2>4, <2>19
<1> QED
  BY <1>1, <1>2


(* The stake of a new bet is within what is left of bankroll and exposure. *)
LEMMA StakeIsCovered ==
    ASSUME run.strategy \in Strategies, NEW js, Available(js) \in Int, Exposure(js) \in Int
    PROVE  /\ NextStake(js) \in Int
           /\ NextStake(js) <= Available(js)
           /\ NextStake(js) <= run.strategy.maxExposure - Exposure(js)
<1> DEFINE a == Available(js)
           x == run.strategy.maxExposure - Exposure(js)
           p == a * run.strategy.amount
           q == RequestedStake(run.strategy, a)
<1>1. /\ run.strategy.amount \in Nat /\ run.strategy.maxStake \in Nat
      /\ run.strategy.maxExposure \in Nat
  BY StrategiesAssumption
<1>2. a \in Int /\ x \in Int /\ p \in Int
  BY <1>1
<1>3. q = IF run.strategy.staking = "PERCENT_BANKROLL" THEN p \div 100 ELSE run.strategy.amount
  BY DEF RequestedStake
<1>4. NextStake(js) = Least(Least(q, a), Least(run.strategy.maxStake, x))
  BY DEF NextStake
<1> HIDE DEF a, x, p, q
<1>5. q \in Int
  BY <1>1, <1>2, <1>3
<1>6. NextStake(js) \in Int /\ NextStake(js) <= a /\ NextStake(js) <= x
  BY <1>1, <1>2, <1>4, <1>5 DEF Least
<1> QED
  BY <1>6 DEF a, x

LEMMA OrdersAreKinds ==
    ASSUME NEW js, NEW s, ~ (Attempts(js, s) >= MaxAttempts)
    PROVE  Order(Attempts(js, s)) \in Kinds
<1> DEFINE tried == {k \in Kinds : js[s][k] # NoRow /\ js[s][k].stake # Unknown}
<1>1. IsFiniteSet(tried)
  BY KindsAreFinite, FS_Subset
<1>2. Attempts(js, s) = Cardinality(tried)
  BY DEF Attempts
<1> HIDE DEF tried
<1>3. Attempts(js, s) \in Nat
  BY <1>1, <1>2, FS_CardinalityType
<1>4. Attempts(js, s) \in 0 .. MaxAttempts - 1
  BY <1>3, TimesAssumption
<1> QED
  BY <1>4 DEF Kinds

(* What a tick may have decided so far: on a signal that had a bet before  *)
(* it, nothing; on another one, the bet of its next attempt.               *)
OnlyNextBets(js) ==
    \A s \in Signals, k \in Kinds :
        IsBet(js[s][k]) => IF IsCommitted(rows, s) THEN IsBet(rows[s][k])
                                                   ELSE k = Order(Attempts(rows, s))

GoodJournals ==
    {js \in [Signals -> [Kinds -> Bets \cup {NoRow}]] :
        RowsAreSound(js) /\ InBankroll(js) /\ OnlyNextBets(js)}

LEMMA RefusedIsSound ==
    ASSUME QuotesAreTyped, NEW s, NEW signal, signal.minOdd \in Int, NEW now \in Int,
           NEW code \in Refusals
    PROVE  LET r == Row("REJECTED", code, Unknown, SelectLatest(s, Books, now), signal, now)
           IN  IsSound(r) /\ AtStake(r) = 0 /\ Worth(r) = 0 /\ ~ IsBet(r)
<1> DEFINE quote == SelectLatest(s, Books, now)
           r == Row("REJECTED", code, Unknown, quote, signal, now)
<1>1. quote \in Quotes /\ KnownAt(quote, now)
  BY SelectedIsKnown
<1> HIDE DEF quote
<1>2. r = [status |-> "REJECTED", code |-> code, stake |-> Unknown, minOdd |-> signal.minOdd,
           decidedAt |-> now, decision |-> quote, dueAt |-> Unknown,
           executable |-> NoQuote, executedAt |-> Unknown,
           outcome |-> "OPEN", profit |-> 0, settledAt |-> Unknown]
  BY DEF Row
<1> HIDE DEF r
<1>3. r \in Bets
  <2>0. Unknown \in Int
    BY DEF Unknown
  <2>1. "REJECTED" \in BetStates /\ code \in Codes /\ "OPEN" \in Outcomes
    BY DEF BetStates, Codes, Outcomes
  <2>2. NoQuote \in Quotes /\ Unknown \in Nat \cup {Unknown}
    BY NoQuoteIsTyped
  <2> QED
    BY <1>1, <1>2, <2>0, <2>1, <2>2 DEF Bets
<1>4. IsSound(r)
  BY <1>1, <1>2, <1>3 DEF IsSound, KnownAt
<1>5. AtStake(r) = 0 /\ Worth(r) = 0 /\ ~ IsBet(r)
  BY <1>2 DEF AtStake, Worth, IsBet
<1> QED
  BY <1>4, <1>5 DEF r, quote

LEMMA OrderIsSound ==
    ASSUME QuotesAreTyped, NEW s, NEW signal, signal.minOdd \in Int, NEW now \in Int,
           NEW stake \in Nat
    PROVE  LET r == Row("ORDER_RESERVED", "", stake, SelectLatest(s, Books, now), signal, now)
           IN  IsSound(r) /\ AtStake(r) = stake /\ Worth(r) = -stake
<1> DEFINE quote == SelectLatest(s, Books, now)
           r == Row("ORDER_RESERVED", "", stake, quote, signal, now)
           due == now + Latency
           none == ""
<1>1. quote \in Quotes /\ KnownAt(quote, now)
  BY SelectedIsKnown
<1> HIDE DEF quote
<1>2. r = [status |-> "ORDER_RESERVED", code |-> none, stake |-> stake, minOdd |-> signal.minOdd,
           decidedAt |-> now, decision |-> quote, dueAt |-> due,
           executable |-> NoQuote, executedAt |-> Unknown,
           outcome |-> "OPEN", profit |-> 0, settledAt |-> Unknown]
  BY DEF Row
<1>l. due \in Int
  BY TimesAssumption
<1> HIDE DEF r, due, none
<1>3. r \in Bets
  <2>0. Unknown \in Int
    BY DEF Unknown
  <2>1. "ORDER_RESERVED" \in BetStates /\ none \in Codes /\ "OPEN" \in Outcomes
    BY DEF BetStates, Codes, Outcomes, none
  <2>2. NoQuote \in Quotes /\ stake \in Nat \cup {Unknown}
    BY NoQuoteIsTyped
  <2> QED
    BY <1>1, <1>2, <1>l, <2>0, <2>1, <2>2 DEF Bets
<1>4. IsSound(r)
  BY <1>1, <1>2, <1>3 DEF IsSound, KnownAt
<1>5. AtStake(r) = stake /\ Worth(r) = -stake
  BY <1>2 DEF AtStake, Worth
<1> QED
  BY <1>4, <1>5 DEF r, quote

LEMMA DecideStays ==
    ASSUME QuotesAreTyped, run.strategy \in Strategies, NEW js \in GoodJournals,
           NEW signal, signal.minOdd \in Int, NEW now \in Int,
           [market |-> signal.market, side |-> signal.side] \in Signals
    PROVE  Decide(js, signal, now) \in GoodJournals
<1> DEFINE s     == [market |-> signal.market, side |-> signal.side]
           quote == SelectLatest(s, Books, now)
           no(code) == Row("REJECTED", code, Unknown, quote, signal, now)
           refuse(code) == Insert(js, s, Refused(code), no(code))
           stake == NextStake(js)
           k     == Order(Attempts(rows, s))
           yes   == Row("ORDER_RESERVED", "", stake, quote, signal, now)
<1>1. /\ IsJournal(js) /\ RowsAreSound(js) /\ InBankroll(js) /\ OnlyNextBets(js)
      /\ run.strategy.maxExposure \in Nat
  BY StrategiesAssumption DEF GoodJournals, IsJournal
<1>2. Available(js) \in Int /\ Exposure(js) \in Nat
  <2> DEFINE a == SumOf(Worths(js), Places)
  <2>1. Exposure(js) \in Nat /\ Available(js) = InitialBankroll + a /\ a \in Int
    BY <1>1, BankrollIsSum
  <2> HIDE DEF a
  <2> QED
    BY <2>1, MoneyAssumption
<1>3. s \in Signals
  OBVIOUS
<1>d. Decide(js, signal, now) =
          IF IsCommitted(rows, s) THEN js
          ELSE IF quote = NoQuote THEN refuse("NO_EXECUTABLE_ODD")
          ELSE IF quote.odd < signal.minOdd THEN refuse("BELOW_MIN_ODD")
          ELSE IF stake <= 0 THEN refuse("LIMIT_EXCEEDED")
          ELSE IF Attempts(rows, s) >= MaxAttempts THEN js
          ELSE Insert(js, s, k, yes)
  BY DEF Decide
<1> HIDE DEF s
<1>4. ASSUME NEW code \in Refusals
      PROVE  refuse(code) \in GoodJournals
  <2> DEFINE r == no(code)
             x == Refused(code)
             new == Insert(js, s, x, r)
  <2>1. IsSound(r) /\ AtStake(r) = 0 /\ Worth(r) = 0 /\ ~ IsBet(r)
    BY RefusedIsSound
  <2>2. x \in Kinds
    BY DEF Kinds
  <2> HIDE DEF r, x
  <2>3. /\ IsJournal(new) /\ RowsAreSound(new) /\ InBankroll(new)
        /\ \A s2 \in Signals, k2 \in Kinds :
               new[s2][k2] = js[s2][k2] \/ (s2 = s /\ k2 = x /\ new[s2][k2] = r)
    <3>1. AtStake(r) \in Nat /\ AtStake(r) + Worth(r) = 0 /\ ~ (AtStake(r) > 0)
      BY <2>1
    <3> QED
      BY <1>1, <1>3, <2>1, <2>2, <3>1, InsertIsSound
  <2> HIDE DEF new
  <2>4. OnlyNextBets(new)
    BY <1>1, <2>1, <2>3 DEF OnlyNextBets
  <2>5. new \in GoodJournals
    BY <2>3, <2>4 DEF GoodJournals, IsJournal
  <2> QED
    BY <2>5 DEF new, r, x
<1>5. ASSUME ~ IsCommitted(rows, s), ~ (stake <= 0), ~ (Attempts(rows, s) >= MaxAttempts)
      PROVE  Insert(js, s, k, yes) \in GoodJournals
  <2> DEFINE r == yes
             new == Insert(js, s, k, r)
  <2>1. /\ stake \in Int /\ stake <= Available(js)
        /\ stake <= run.strategy.maxExposure - Exposure(js)
    BY <1>2, StakeIsCovered
  <2>2. k \in Kinds
    BY <1>5, OrdersAreKinds
  <2> HIDE DEF stake, k
  <2>3. stake \in Nat
    BY <1>5, <2>1
  <2>4. IsSound(r) /\ AtStake(r) = stake /\ Worth(r) = -stake
    BY <2>3, OrderIsSound
  <2> HIDE DEF r
  <2>5. /\ IsJournal(new) /\ RowsAreSound(new) /\ InBankroll(new)
        /\ \A s2 \in Signals, k2 \in Kinds :
               new[s2][k2] = js[s2][k2] \/ (s2 = s /\ k2 = k /\ new[s2][k2] = r)
    <3>1. AtStake(r) \in Nat /\ AtStake(r) + Worth(r) = 0
      BY <2>3, <2>4
    <3>2. AtStake(r) > 0 => /\ AtStake(r) <= Available(js)
                            /\ AtStake(r) <= run.strategy.maxExposure - Exposure(js)
      BY <2>1, <2>4
    <3> QED
      BY <1>1, <1>3, <2>2, <2>4, <3>1, <3>2, InsertIsSound
  <2> HIDE DEF new
  <2>6. OnlyNextBets(new)
    BY <1>1, <1>5, <2>5 DEF OnlyNextBets, k
  <2>7. new \in GoodJournals
    BY <2>5, <2>6 DEF GoodJournals, IsJournal
  <2> QED
    BY <2>7 DEF new, r
<1>6. \A code \in {"NO_EXECUTABLE_ODD", "BELOW_MIN_ODD", "LIMIT_EXCEEDED"} :
          refuse(code) \in GoodJournals
  BY <1>4 DEF Refusals
<1> DEFINE c1 == refuse("NO_EXECUTABLE_ODD")
           c2 == refuse("BELOW_MIN_ODD")
           c3 == refuse("LIMIT_EXCEEDED")
           c4 == Insert(js, s, k, yes)
<1>7. c1 \in GoodJournals /\ c2 \in GoodJournals /\ c3 \in GoodJournals
  BY <1>6
<1> HIDE DEF c1, c2, c3, c4, stake, quote
<1>8. Decide(js, signal, now) =
          IF IsCommitted(rows, s) THEN js
          ELSE IF quote = NoQuote THEN c1
          ELSE IF quote.odd < signal.minOdd THEN c2
          ELSE IF stake <= 0 THEN c3
          ELSE IF Attempts(rows, s) >= MaxAttempts THEN js
          ELSE c4
  BY <1>d DEF c1, c2, c3, c4
<1>9. ~ IsCommitted(rows, s) /\ ~ (stake <= 0) /\ ~ (Attempts(rows, s) >= MaxAttempts)
          => c4 \in GoodJournals
  BY <1>5 DEF c4
<1> QED
  BY <1>7, <1>8, <1>9

-----------------------------------------------------------------------------
(* The third pass: the signals one after the other.                        *)

(* What the third pass does with a signal.                                 *)
StepOf(js, s, signals, now) ==
    LET mine == {g \in signals : g.market = s.market /\ g.side = s.side}
    IN  IF mine = {} THEN js ELSE Decide(js, CHOOSE g \in mine : TRUE, now)

KeepsIn(J, signals, now) == \A js \in J, s \in Signals : StepOf(js, s, signals, now) \in J

(* A set of journals that no step leaves is left by no pass.               *)
LEMMA PassStays ==
    ASSUME NEW J, NEW js \in J, NEW signals, NEW now, KeepsIn(J, signals, now)
    PROVE  DecideAll(js, signals, now) \in J
<1> DEFINE D == DOMAIN SignalOrder
           isIter(f) == f = [d \in SUBSET D |->
                               IF d = {} THEN js
                               ELSE LET x == Max(d)
                                    IN  StepOf(f[d \ {x}], SignalOrder[x], signals, now)]
           iter == CHOOSE f : isIter(f)
           step == [x \in D |-> [v \in J |-> StepOf(v, SignalOrder[x], signals, now)]]
<1>1. DecideAll(js, signals, now) = iter[D]
  BY DEF DecideAll, FoldLeft, MapThenFoldSet, StepOf
<1>2. IsFiniteSet(D) /\ D \subseteq Int
  <2>1. D = 1 .. Len(SignalOrder) /\ Len(SignalOrder) \in Nat
    BY SignalsAssumption, LenProperties
  <2> QED
    BY <2>1, FS_Interval
<1>3. \A x \in D : SignalOrder[x] \in Signals
  BY DEF Signals, Range
<1> HIDE DEF D
<1>4. \A d \in SUBSET D : d # {} => Max(d) \in d
  BY <1>2, MaxIsElement, FS_Subset
<1>5. step \in [D -> [J -> J]]
  BY <1>3 DEF KeepsIn
<1>6. PICK h \in [SUBSET D -> J] : IsLeftFold(h, D, step, js)
  <2> HIDE DEF step
  <2> QED
    BY <1>2, <1>5, LeftFoldExists
<1>7. isIter(h)
  <2>1. h[{}] = js /\ \A d \in SUBSET D : d # {} => h[d] = step[Max(d)][h[d \ {Max(d)}]]
    BY <1>6 DEF IsLeftFold
  <2>2. ASSUME NEW d \in SUBSET D, d # {}
        PROVE  h[d] = StepOf(h[d \ {Max(d)}], SignalOrder[Max(d)], signals, now)
    <3>1. Max(d) \in D /\ h[d \ {Max(d)}] \in J
      BY <1>4, <2>2
    <3> QED
      BY <2>1, <2>2, <3>1
  <2> QED
    BY <2>1, <2>2
<1>8. isIter(iter)
  <2> HIDE DEF isIter
  <2> QED
    BY <1>7
<1> HIDE DEF iter
<1>9. /\ iter[{}] = js
      /\ \A d \in SUBSET D : d # {} => iter[d] = StepOf(iter[d \ {Max(d)}], SignalOrder[Max(d)], signals, now)
  <2>1. {} \in SUBSET D
    OBVIOUS
  <2> QED
    BY <1>8, <2>1
<1> HIDE DEF isIter
<1> DEFINE B == {d \in SUBSET D : iter[d] \notin J}
<1>10. B = {}
  <2>1. SUFFICES ASSUME B # {} PROVE FALSE
    OBVIOUS
  <2>2. PICK d \in B : \A t \in B : t \subseteq d => t = d
    <3>1. B \subseteq SUBSET D
      OBVIOUS
    <3>2. IsFiniteSet(D)
      BY <1>2
    <3> HIDE DEF B
    <3> QED
      BY <2>1, <3>1, <3>2, SmallestSubset
  <2>3. d # {}
    BY <1>9, <2>2
  <2>4. Max(d) \in d /\ d \ {Max(d)} \in SUBSET D /\ d \ {Max(d)} # d
    BY <1>4, <2>2, <2>3
  <2>5. iter[d \ {Max(d)}] \in J
    BY <2>2, <2>4
  <2> DEFINE acc == iter[d \ {Max(d)}]
             s == SignalOrder[Max(d)]
  <2>6. iter[d] \in J
    <3>1. iter[d] = StepOf(acc, s, signals, now)
      BY <1>9, <2>2, <2>3
    <3>2. acc \in J /\ s \in Signals
      BY <1>3, <2>2, <2>4, <2>5
    <3> HIDE DEF acc, s
    <3>3. StepOf(acc, s, signals, now) \in J
      BY <3>2 DEF KeepsIn
    <3> QED
      BY <3>1, <3>3
  <2> QED
    BY <2>2, <2>6
<1>11. iter[D] \in J
  BY <1>10
<1> QED
  BY <1>1, <1>11

(* The signals of a tick with their least odd.                             *)
AreLive(signals) == \A g \in signals : g.minOdd \in Int

LEMMA DecisionsAreSound ==
    ASSUME QuotesAreTyped, run.strategy \in Strategies, NEW js \in GoodJournals,
           NEW signals, AreLive(signals), NEW now \in Int
    PROVE  DecideAll(js, signals, now) \in GoodJournals
<1>1. ASSUME NEW acc \in GoodJournals, NEW s \in Signals
      PROVE  StepOf(acc, s, signals, now) \in GoodJournals
  <2> DEFINE mine == {g \in signals : g.market = s.market /\ g.side = s.side}
             g == CHOOSE g \in mine : TRUE
  <2>1. CASE mine = {}
    BY <2>1 DEF StepOf
  <2>2. CASE mine # {}
    <3>1. g \in signals /\ g.market = s.market /\ g.side = s.side
      BY <2>2
    <3>2. s = [market |-> s.market, side |-> s.side]
      BY SignalsAreFinite
    <3>3. StepOf(acc, s, signals, now) = Decide(acc, g, now)
      BY <2>2 DEF StepOf
    <3> HIDE DEF mine, g
    <3>4. g.minOdd \in Int /\ [market |-> g.market, side |-> g.side] \in Signals
      BY <3>1, <3>2 DEF AreLive
    <3> QED
      BY <3>3, <3>4, DecideStays
  <2> QED
    BY <2>1, <2>2
<1> QED
  BY <1>1, PassStays DEF KeepsIn

(* With no signals, there is nothing to decide.                            *)
LEMMA NothingToDecide == \A js, now : DecideAll(js, {}, now) = js
<1> SUFFICES ASSUME NEW js, NEW now PROVE DecideAll(js, {}, now) = js
  OBVIOUS
<1> DEFINE J == {js}
<1>1. KeepsIn(J, {}, now)
  BY DEF KeepsIn, StepOf
<1>2. js \in J
  OBVIOUS
<1> HIDE DEF J
<1>3. DecideAll(js, {}, now) \in J
  BY <1>1, <1>2, PassStays
<1> QED
  BY <1>3 DEF J

-----------------------------------------------------------------------------
(* The inductive invariant.                                                *)
Runs  == [status : {"RUNNING", "STOPPED"}, strategy : Strategies, stoppedAt : Int]

IsTick(t) == t = NoTick \/ (t.at = "ready" /\ t.now \in Int /\ AreLive(t.signals))

OneBetIn(js) ==
    \A s \in Signals, k1, k2 \in Kinds : IsBet(js[s][k1]) /\ IsBet(js[s][k2]) => k1 = k2

EmptyJournal == [s \in Signals |-> [k \in Kinds |-> NoRow]]

TypesHold   == /\ clock \in Nat /\ QuotesAreTyped
               /\ run \in Runs \cup {NoRun}
               /\ tick \in [Instances -> {tick[i] : i \in Instances}]
               /\ \A i \in Instances : IsTick(tick[i])
JournalHolds == IsJournal(rows) /\ RowsAreSound(rows) /\ OneBetIn(rows)
BeforeStart == run = NoRun => rows = EmptyJournal /\ \A i \in Instances : tick[i] = NoTick
AfterStart  == run # NoRun => InBankroll(rows)

SimInv == TypesHold /\ JournalHolds /\ BeforeStart /\ AfterStart

LEMMA NoRunIsNone == NoRun.status = "NONE" /\ NoRun \notin Runs
<1>1. NoRun.status = "NONE"
  BY DEF NoRun
<1> QED
  BY <1>1 DEF Runs

(* Before the first bet nothing is at stake and the bankroll is whole.     *)
LEMMA EmptyIsSound ==
    /\ IsJournal(EmptyJournal) /\ RowsAreSound(EmptyJournal) /\ OneBetIn(EmptyJournal)
    /\ Available(EmptyJournal) = InitialBankroll /\ Exposure(EmptyJournal) = 0
<1> DEFINE js == EmptyJournal
<1>1. \A s \in Signals, k \in Kinds : js[s][k] = NoRow
  BY DEF EmptyJournal
<1>2. IsJournal(js) /\ RowsAreSound(js)
  <2>1. IsJournal(js)
    BY DEF EmptyJournal, IsJournal
  <2> QED
    BY <1>1, <2>1 DEF RowsAreSound
<1>3. OneBetIn(js)
  BY <1>1, NoRowIsNone DEF OneBetIn, IsBet
<1> DEFINE w == Worths(js)
           s1 == AtStakes(js)
<1>4. \A x \in Places : w[x] = 0 /\ s1[x] = 0
  <2>1. Worth(NoRow) = 0 /\ AtStake(NoRow) = 0
    BY NoRowIsNone DEF Worth, AtStake
  <2>2. \A x \in Places : x[1] \in Signals /\ x[2] \in Kinds
    BY DEF Places
  <2>3. \A x \in Places : js[x[1]][x[2]] = NoRow
    BY <1>1, <2>2
  <2> HIDE DEF js
  <2> QED
    BY <2>1, <2>3 DEF Worths, AtStakes
<1>5. Exposure(js) = SumOf(s1, Places) /\ Available(js) = InitialBankroll + SumOf(w, Places)
  BY <1>2, BankrollIsSum
<1> HIDE DEF w, s1
<1>6. SumOf(s1, Places) = 0 /\ SumOf(w, Places) = 0
  BY <1>4, PlacesAreFinite, SumOfZeros
<1>7. Exposure(js) = 0 /\ Available(js) = InitialBankroll
  BY <1>5, <1>6, MoneyAssumption
<1> QED
  BY <1>2, <1>3, <1>7

LEMMA InitHolds == Init => SimInv
<1> SUFFICES ASSUME Init PROVE SimInv
  OBVIOUS
<1>1. rows = EmptyJournal /\ run = NoRun /\ quotes = {} /\ clock = 0
      /\ tick = [i \in Instances |-> NoTick]
  BY DEF Init, EmptyJournal
<1>2. QuotesAreTyped
  BY <1>1, FS_EmptySet DEF QuotesAreTyped
<1>3. TypesHold
  BY <1>1, <1>2 DEF TypesHold, IsTick
<1>4. JournalHolds
  BY <1>1, EmptyIsSound DEF JournalHolds
<1> QED
  BY <1>1, <1>3, <1>4 DEF SimInv, BeforeStart, AfterStart

(* The signals of a match have the least odd the strategy configures.      *)
LEMMA SignalsAreLive ==
    ASSUME run.strategy \in Strategies
    PROVE  AreLive(LiveSignals)
<1> DEFINE config == run.strategy.rules
<1>1. \A mk \in Markets : config.odds[mk] \in Int
  BY StrategiesAssumption
<1> HIDE DEF config
<1>2. ASSUME NEW rules, NEW markets \in SUBSET Markets, NEW shots
      PROVE  AreLive(RuleMatches(config, rules, markets, match, shots))
  BY <1>1 DEF AreLive, RuleMatches, RuleMatch
<1>3. AreLive({})
  BY DEF AreLive
<1>4. AreLive(EvaluateFirstHalf(match, config))
  BY <1>2, <1>3 DEF EvaluateFirstHalf, Markets
<1>5. AreLive(EvaluateSecondHalf(match, config))
  BY <1>2, <1>3 DEF EvaluateSecondHalf, Markets
<1>6. \A g \in LiveSignals : g \in EvaluateRules(match, config)
  BY DEF LiveSignals, config
<1> QED
  BY <1>4, <1>5, <1>6 DEF AreLive, EvaluateRules

(* What a tick writes.                                                     *)
LEMMA TickIsSound ==
    ASSUME SimInv, NEW i \in Instances, TickCommits(i)
    PROVE  rows' \in GoodJournals /\ run # NoRun /\ run.strategy \in Strategies
<1> DEFINE now == tick[i].now
           moved == AdvanceOrders(rows, now)
           accepted == IF run.status = "RUNNING" THEN tick[i].signals ELSE {}
<1>1. tick[i] # NoTick
  BY DEF TickCommits, NoTick
<1>2. run # NoRun /\ run \in Runs /\ run.strategy \in Strategies
  BY <1>1 DEF SimInv, BeforeStart, TypesHold, Runs
<1>3. now \in Int /\ AreLive(accepted) /\ QuotesAreTyped
  BY <1>1 DEF SimInv, TypesHold, IsTick, AreLive
<1>4. IsJournal(rows) /\ RowsAreSound(rows) /\ InBankroll(rows)
  BY <1>2 DEF SimInv, JournalHolds, AfterStart
<1>5. rows' = DecideAll(moved, accepted, now)
  BY DEF TickCommits
<1> HIDE DEF now
<1>6. /\ IsJournal(moved) /\ RowsAreSound(moved)
      /\ Available(moved) >= Available(rows) /\ Exposure(moved) <= Exposure(rows)
      /\ \A s \in Signals, k \in Kinds : IsBet(moved[s][k]) => IsBet(rows[s][k])
  BY <1>3, <1>4, AdvanceIsSound
<1> HIDE DEF moved, accepted
<1>7. /\ Available(rows) \in Int /\ Available(moved) \in Int
      /\ Exposure(rows) \in Int /\ Exposure(moved) \in Int
  <2>1. \A js : IsJournal(js) /\ RowsAreSound(js) =>
            Available(js) \in Int /\ Exposure(js) \in Int
    <3> SUFFICES ASSUME NEW js, IsJournal(js), RowsAreSound(js)
                 PROVE  Available(js) \in Int /\ Exposure(js) \in Int
      OBVIOUS
    <3> DEFINE a == SumOf(Worths(js), Places)
    <3>1. Exposure(js) \in Nat /\ Available(js) = InitialBankroll + a /\ a \in Int
      BY BankrollIsSum
    <3> HIDE DEF a
    <3> QED
      BY <3>1, MoneyAssumption
  <2> QED
    BY <1>4, <1>6, <2>1
<1>8. InBankroll(moved)
  <2>1. run.strategy.maxExposure \in Nat
    BY <1>2, StrategiesAssumption
  <2> QED
    BY <1>4, <1>6, <1>7, <2>1 DEF InBankroll
<1>9. OnlyNextBets(moved)
  <2>1. ASSUME NEW s \in Signals, NEW k \in Kinds, IsBet(rows[s][k])
        PROVE  IsCommitted(rows, s)
    BY <2>1 DEF IsBet, IsCommitted
  <2> QED
    BY <1>6, <2>1 DEF OnlyNextBets
<1>10. moved \in GoodJournals
  BY <1>6, <1>8, <1>9 DEF GoodJournals, IsJournal
<1> QED
  BY <1>2, <1>3, <1>5, <1>10, DecisionsAreSound

(* New quotes are quotes, and finitely many.                               *)
LEMMA QuotesStay ==
    ASSUME SimInv, ReceiveQuotes
    PROVE  QuotesAreTyped'
<1> PICK odd \in QuotedOdds, book \in Books, age \in Delays :
        quotes' = quotes \cup {[bet |-> s, odd |-> odd, book |-> book,
                                observedAt |-> clock - age, receivedAt |-> clock] : s \in Signals}
  BY DEF ReceiveQuotes
<1> DEFINE q(s) == [bet |-> s, odd |-> odd, book |-> book, observedAt |-> clock - age,
                    receivedAt |-> clock]
           new == {q(s) : s \in Signals}
           f == [s \in Signals |-> q(s)]
<1>1. odd \in Nat /\ book \in Nat /\ clock - age \in Int /\ clock \in Int
  BY QuotesAssumption, TimesAssumption DEF SimInv, TypesHold
<1>2. new \subseteq QuoteRows
  BY <1>1 DEF QuoteRows
<1>3. f \in Surjection(Signals, new)
  BY DEF Surjection
<1>4. quotes' = quotes \cup new
  OBVIOUS
<1> HIDE DEF new, f
<1>5. IsFiniteSet(new)
  BY <1>3, SignalsAreFinite, FS_Surjection
<1>6. quotes \subseteq QuoteRows /\ IsFiniteSet(quotes)
  BY DEF SimInv, TypesHold, QuotesAreTyped
<1>7. IsFiniteSet(quotes \cup new)
  BY <1>5, <1>6, FS_Union
<1> QED
  BY <1>2, <1>4, <1>6, <1>7 DEF QuotesAreTyped

LEMMA StepHolds == SimInv /\ [Next]_vars => SimInv'
<1> SUFFICES ASSUME SimInv, [Next]_vars PROVE SimInv'
  OBVIOUS
<1> USE DEF SimInv
<1>1. ASSUME NEW strategy \in Strategies, Start(strategy) PROVE SimInv'
  <2>1. /\ run = NoRun /\ UNCHANGED <<clock, quotes, rows, tick>>
        /\ run' = [status |-> "RUNNING", strategy |-> strategy, stoppedAt |-> Unknown]
    BY <1>1 DEF Start
  <2>2. run' \in Runs
    BY <2>1 DEF Runs, Unknown
  <2>3. TypesHold'
    BY <2>1, <2>2 DEF TypesHold, QuotesAreTyped
  <2>4. rows = EmptyJournal
    BY <2>1 DEF BeforeStart
  <2>5. AfterStart'
    <3>1. run'.strategy = strategy /\ strategy.maxExposure \in Nat
      BY <2>1, StrategiesAssumption
    <3>2. Available(rows') = InitialBankroll /\ Exposure(rows') = 0
      BY <2>1, <2>4, EmptyIsSound
    <3>3. InBankroll(rows)'
      BY <3>1, <3>2, MoneyAssumption DEF InBankroll
    <3> QED
      BY <3>3 DEF AfterStart
  <2>6. JournalHolds' /\ BeforeStart'
    BY <2>1, <2>2, NoRunIsNone DEF JournalHolds, BeforeStart
  <2> QED
    BY <2>3, <2>5, <2>6
<1>2. CASE Stop
  <2>1. /\ run.status = "RUNNING" /\ UNCHANGED <<clock, quotes, rows, tick>>
        /\ run' = [run EXCEPT !.status = "STOPPED", !.stoppedAt = clock]
    BY <1>2 DEF Stop
  <2>2. run \in Runs /\ run # NoRun
    BY <2>1, NoRunIsNone DEF TypesHold
  <2>3. run' \in Runs /\ run'.strategy = run.strategy
    <3>1. clock \in Int
      BY DEF TypesHold
    <3> QED
      BY <2>1, <2>2, <3>1 DEF Runs
  <2>4. TypesHold'
    BY <2>1, <2>3 DEF TypesHold, QuotesAreTyped
  <2>5. AfterStart'
    BY <2>1, <2>2, <2>3 DEF AfterStart, InBankroll
  <2>6. JournalHolds' /\ BeforeStart'
    BY <2>1, <2>3, NoRunIsNone DEF JournalHolds, BeforeStart
  <2> QED
    BY <2>4, <2>5, <2>6
<1>3. ASSUME NEW i \in Instances, BeginTick(i) PROVE SimInv'
  <2> DEFINE t == [at |-> "ready", now |-> clock,
                   signals |-> IF run.status = "RUNNING" THEN LiveSignals ELSE {}]
  <2>1. /\ tick' = [tick EXCEPT ![i] = t] /\ UNCHANGED <<clock, quotes, run, rows>>
        /\ run.status = "RUNNING" \/ OpenOrders(rows) # {}
    BY <1>3 DEF BeginTick
  <2>2. run # NoRun
    <3>1. SUFFICES ASSUME run = NoRun PROVE FALSE
      OBVIOUS
    <3>2. OpenOrders(rows) # {} /\ rows = EmptyJournal
      BY <2>1, <3>1, NoRunIsNone DEF BeforeStart
    <3>3. PICK x \in Signals \X Kinds : rows[x[1]][x[2]].status = "ORDER_RESERVED"
      BY <3>2 DEF OpenOrders
    <3>4. rows[x[1]][x[2]] = NoRow
      BY <3>2 DEF EmptyJournal
    <3> QED
      BY <3>3, <3>4, NoRowIsNone
  <2>3. run.strategy \in Strategies /\ clock \in Int
    BY <2>2 DEF TypesHold, Runs
  <2>4. IsTick(t)
    <3>1. AreLive(LiveSignals) /\ AreLive({})
      BY <2>3, SignalsAreLive DEF AreLive
    <3>2. t.at = "ready" /\ t.now = clock /\ (t.signals = LiveSignals \/ t.signals = {})
      OBVIOUS
    <3> QED
      BY <2>3, <3>1, <3>2 DEF IsTick
  <2> HIDE DEF t
  <2>5. TypesHold'
    <3>1. \A j \in Instances : tick'[j] = IF j = i THEN t ELSE tick[j]
      BY <2>1 DEF TypesHold
    <3>2. tick' \in [Instances -> {tick'[j] : j \in Instances}]
      BY <2>1 DEF TypesHold
    <3>3. \A j \in Instances : IsTick(tick'[j])
      BY <2>4, <3>1 DEF TypesHold
    <3> QED
      BY <2>1, <3>2, <3>3 DEF TypesHold, QuotesAreTyped
  <2> QED
    BY <2>1, <2>2, <2>5 DEF JournalHolds, BeforeStart, AfterStart, InBankroll
<1>4. ASSUME NEW i \in Instances, tick' = [tick EXCEPT ![i] = NoTick],
             UNCHANGED <<clock, quotes, run>>
      PROVE  TypesHold' /\ \A j \in Instances : tick'[j] = NoTick \/ tick'[j] = tick[j]
  <2>1. \A j \in Instances : tick'[j] = IF j = i THEN NoTick ELSE tick[j]
    BY <1>4 DEF TypesHold
  <2>2. tick' \in [Instances -> {tick'[j] : j \in Instances}]
    BY <1>4 DEF TypesHold
  <2>3. \A j \in Instances : IsTick(tick'[j])
    BY <2>1 DEF TypesHold, IsTick
  <2> QED
    BY <1>4, <2>1, <2>2, <2>3 DEF TypesHold, QuotesAreTyped
<1>5. ASSUME NEW i \in Instances, TickCommits(i) PROVE SimInv'
  <2>1. tick' = [tick EXCEPT ![i] = NoTick] /\ UNCHANGED <<clock, quotes, run>>
    BY <1>5 DEF TickCommits
  <2>2. TypesHold'
    BY <1>4, <2>1
  <2>3. rows' \in GoodJournals /\ run # NoRun
    BY <1>5, TickIsSound
  <2>4. IsJournal(rows') /\ RowsAreSound(rows') /\ InBankroll(rows') /\ OnlyNextBets(rows')
    BY <2>3 DEF GoodJournals, IsJournal
  <2>5. OneBetIn(rows')
    <3> SUFFICES ASSUME NEW s \in Signals, NEW k1 \in Kinds, NEW k2 \in Kinds,
                        IsBet(rows'[s][k1]), IsBet(rows'[s][k2])
                 PROVE  k1 = k2
      BY DEF OneBetIn
    <3>1. CASE IsCommitted(rows, s)
      <4>1. IsBet(rows[s][k1]) /\ IsBet(rows[s][k2])
        BY <2>4, <3>1 DEF OnlyNextBets
      <4> QED
        BY <4>1 DEF JournalHolds, OneBetIn
    <3>2. CASE ~ IsCommitted(rows, s)
      BY <2>4, <3>2 DEF OnlyNextBets
    <3> QED
      BY <3>1, <3>2
  <2>6. InBankroll(rows)'
    BY <2>1, <2>4 DEF InBankroll
  <2> QED
    BY <2>1, <2>2, <2>3, <2>4, <2>5, <2>6 DEF JournalHolds, BeforeStart, AfterStart
<1>6. ASSUME NEW i \in Instances, TickFails(i) PROVE SimInv'
  <2>1. tick' = [tick EXCEPT ![i] = NoTick] /\ UNCHANGED <<clock, quotes, run, rows>>
    BY <1>6 DEF TickFails
  <2>2. TypesHold' /\ \A j \in Instances : tick'[j] = NoTick \/ tick'[j] = tick[j]
    BY <1>4, <2>1
  <2> QED
    BY <2>1, <2>2 DEF JournalHolds, BeforeStart, AfterStart, InBankroll
<1>7. CASE ReceiveQuotes
  <2>1. QuotesAreTyped' /\ UNCHANGED <<clock, run, rows, tick>>
    BY <1>7, QuotesStay DEF ReceiveQuotes
  <2> QED
    BY <2>1 DEF TypesHold, JournalHolds, BeforeStart, AfterStart, InBankroll
<1>8. CASE SyncMatch
  <2>1. UNCHANGED <<clock, quotes, run, rows, tick>>
    BY <1>8 DEF SyncMatch
  <2> QED
    BY <2>1 DEF TypesHold, QuotesAreTyped, JournalHolds, BeforeStart, AfterStart, InBankroll
<1>9. CASE Wait
  <2>1. clock' = clock + 1 /\ UNCHANGED <<quotes, run, rows, tick>>
    BY <1>9 DEF Wait
  <2> QED
    BY <2>1 DEF TypesHold, QuotesAreTyped, JournalHolds, BeforeStart, AfterStart, InBankroll
<1>10. CASE UNCHANGED vars
  BY <1>10 DEF vars, TypesHold, QuotesAreTyped, JournalHolds, BeforeStart, AfterStart, InBankroll
<1> QED
  BY <1>1, <1>2, <1>3, <1>5, <1>6, <1>7, <1>8, <1>9, <1>10 DEF Next

(* The inductive invariant of a run: what its ticks hold in hand, the      *)
(* journal and the bankroll are sound together (SimulationService.tick).   *)
THEOREM SimulationIsSound == Spec => []SimInv
<1>1. Init => SimInv
  BY InitHolds
<1>2. SimInv /\ [Next]_vars => SimInv'
  BY StepHolds
<1> QED
  BY <1>1, <1>2, PTL DEF Spec

-----------------------------------------------------------------------------
(* The virtual bankroll is never overdrawn and the open stakes stay within *)
(* the exposure, however many ticks of how many instances reserve them     *)
(* (decideSignals in simulation.service.ts).                               *)
THEOREM BankrollIsKept == Spec => []BankrollHolds
<1>1. SimInv => BankrollHolds
  BY DEF SimInv, AfterStart, InBankroll, BankrollHolds
<1> QED
  BY <1>1, SimulationIsSound, PTL

(* A signal is bet on once: a tick that has it decided twice, or finds it  *)
(* decided by another, adds no second bet.                                 *)
THEOREM SignalsAreBetOnce == Spec => []OneBetPerSignal
<1>1. ASSUME SimInv PROVE OneBetPerSignal
  <2> SUFFICES ASSUME NEW s \in Signals
               PROVE  Cardinality({k \in Kinds : rows[s][k].status \in {"ORDER_RESERVED", "COMPLETED"}}) <= 1
    BY DEF OneBetPerSignal
  <2> DEFINE B == {k \in Kinds : rows[s][k].status \in {"ORDER_RESERVED", "COMPLETED"}}
  <2>1. \A k1, k2 \in B : k1 = k2
    BY <1>1 DEF SimInv, JournalHolds, OneBetIn, IsBet
  <2> HIDE DEF B
  <2>2. Cardinality(B) <= 1
    <3>1. CASE B = {}
      <4>1. Cardinality(B) = 0
        BY <3>1, FS_EmptySet
      <4> QED
        BY <4>1
    <3>2. CASE B # {}
      <4>1. PICK k : k \in B
        BY <3>2
      <4>2. B = {k}
        BY <2>1, <4>1
      <4>3. Cardinality(B) = 1
        BY <4>2, FS_Singleton
      <4> QED
        BY <4>3
    <3> QED
      BY <3>1, <3>2
  <2> QED
    BY <2>2 DEF B
<1> QED
  BY <1>1, SimulationIsSound, PTL

(* A bet is decided and executed at quotes that were known and fresh at    *)
(* that time (selectLatestQuote, planExecution), whenever a tick wrote it. *)
THEOREM NothingKnownBefore == Spec => []NoHindsight
<1>1. ASSUME SimInv PROVE NoHindsight
  BY <1>1 DEF SimInv, JournalHolds, RowsAreSound, IsSound, KnownAt, NoHindsight
<1> QED
  BY <1>1, SimulationIsSound, PTL

(* After the stop no row is added: a tick that began before looks at the   *)
(* run again under its lock.                                               *)
THEOREM NothingAfterStop == Spec => NothingDecidedAfterStop
<1> DEFINE NoNewRow == run.status = "STOPPED" =>
               \A s \in Signals, k \in Kinds : rows[s][k] = NoRow => rows'[s][k] = NoRow
<1>1. ASSUME SimInv, [Next]_vars PROVE NoNewRow
  <2>1. ASSUME NEW i \in Instances, TickCommits(i), run.status = "STOPPED"
        PROVE  \A s \in Signals, k \in Kinds : rows[s][k] = NoRow => rows'[s][k] = NoRow
    <3> DEFINE moved == AdvanceOrders(rows, tick[i].now)
    <3>1. rows' = DecideAll(moved, {}, tick[i].now)
      BY <2>1 DEF TickCommits
    <3>2. rows' = moved
      BY <3>1, NothingToDecide
    <3>3. tick[i].now \in Int
      BY <1>1, <2>1 DEF TickCommits, SimInv, TypesHold, IsTick, NoTick
    <3>4. \A s \in Signals, k \in Kinds : rows[s][k] = NoRow => moved[s][k] = NoRow
      BY <1>1, <3>3, AdvanceIsSound DEF SimInv, TypesHold, JournalHolds
    <3> QED
      BY <3>2, <3>4
  <2>2. (\E i \in Instances : TickCommits(i)) \/ rows' = rows
    BY <1>1 DEF Next, vars, Start, Stop, BeginTick, TickFails, ReceiveQuotes, SyncMatch, Wait
  <2> QED
    BY <2>1, <2>2
<1> QED
  BY <1>1, SimulationIsSound, PTL DEF Spec, NothingDecidedAfterStop
=============================================================================
