---------------------------- MODULE FoldTheorems ----------------------------
(***************************************************************************)
(* Sums and folds over finite sets, for the proofs about ledgers and       *)
(* journals.  The induction is over finite sets in the order of inclusion: *)
(* of the subsets that break a law there is a smallest one.                *)
(***************************************************************************)
EXTENDS Integers, FiniteSetsExt, FiniteSetTheorems, WellFoundedInduction, TLAPS

(* Of subsets of a finite set there is one that contains no other.         *)
LEMMA SmallestSubset ==
    ASSUME NEW S, IsFiniteSet(S), NEW B, B \subseteq SUBSET S, B # {}
    PROVE  \E s \in B : \A t \in B : t \subseteq s => t = s
<1>1. IsWellFoundedOn(StrictSubsetOrdering(S), SUBSET S)
  BY FS_FiniteSubsetsOfFinite, FS_StrictSubsetOrderingWellFounded
<1>2. PICK s \in B : \A t \in B : ~ (<<t, s>> \in StrictSubsetOrdering(S))
  BY <1>1, WFMin
<1> QED
  BY <1>2 DEF StrictSubsetOrdering

(* h folds step over the subsets of S, each without the element it chooses *)
(* first.                                                                  *)
IsFold(h, S, step, base, choice) ==
    h = [s \in SUBSET S |-> IF s = {} THEN base ELSE step[choice[s]][h[s \ {choice[s]}]]]

IsChoice(choice, S) == \A s \in SUBSET S : s # {} => choice[s] \in s

(* Functions that agree on a set when they agree on what is smaller are    *)
(* equal.                                                                  *)
LEMMA AgreeFromBelow ==
    ASSUME NEW S, IsFiniteSet(S), NEW h, NEW k,
           \A s \in SUBSET S : (\A t \in SUBSET s : t # s => h[t] = k[t]) => h[s] = k[s]
    PROVE  \A s \in SUBSET S : h[s] = k[s]
<1> DEFINE B == {s \in SUBSET S : h[s] # k[s]}
<1>1. SUFFICES ASSUME B # {} PROVE FALSE
  OBVIOUS
<1>b. B \subseteq SUBSET S
  OBVIOUS
<1>2. PICK s \in B : \A t \in B : t \subseteq s => t = s
  <2> HIDE DEF B
  <2> QED
    BY <1>1, <1>b, SmallestSubset
<1>3. \A t \in SUBSET s : t # s => h[t] = k[t]
  BY <1>2
<1> QED
  BY <1>2, <1>3

(* What a fold is made of.                                                 *)
LEMMA FoldSteps ==
    ASSUME NEW S, NEW h, NEW step, NEW base, NEW choice, IsFold(h, S, step, base, choice)
    PROVE  /\ h[{}] = base
           /\ \A s \in SUBSET S : s # {} => h[s] = step[choice[s]][h[s \ {choice[s]}]]
<1>1. {} \in SUBSET S
  OBVIOUS
<1> QED
  BY <1>1 DEF IsFold

(* A step on a set of values V has a fold in V.                            *)
LEMMA FoldExists ==
    ASSUME NEW S, IsFiniteSet(S), NEW V, NEW base \in V, NEW step \in [S -> [V -> V]],
           NEW choice, IsChoice(choice, S)
    PROVE  \E h \in [SUBSET S -> V] : IsFold(h, S, step, base, choice)
<1> DEFINE Good(T) == \E h \in [SUBSET T -> V] : IsFold(h, T, step, base, choice)
           B == {T \in SUBSET S : ~ Good(T)}
<1>0. SUFFICES ASSUME B # {} PROVE FALSE
  OBVIOUS
<1>b. B \subseteq SUBSET S
  OBVIOUS
<1>1. PICK T \in B : \A U \in B : U \subseteq T => U = T
  <2> HIDE DEF B
  <2> QED
    BY <1>0, <1>b, SmallestSubset
<1>t. T \in SUBSET S
  BY <1>1
<1>2. \A U \in SUBSET T : U # T => Good(U)
  BY <1>1
<1> DEFINE H == [U \in (SUBSET T) \ {T} |->
                    CHOOSE h \in [SUBSET U -> V] : IsFold(h, U, step, base, choice)]
           val(U) == H[U][U]
           top == [s \in SUBSET T |-> IF s = {} THEN base
                                      ELSE step[choice[s]][val(s \ {choice[s]})]]
<1>3. \A U \in (SUBSET T) \ {T} : H[U] \in [SUBSET U -> V] /\ IsFold(H[U], U, step, base, choice)
  BY <1>2
<1> HIDE DEF H
<1>4. ASSUME NEW U \in (SUBSET T) \ {T}, NEW W \in SUBSET U
      PROVE  H[U][W] = H[W][W]
  <2>1. IsFiniteSet(W) /\ W \in (SUBSET T) \ {T}
    BY FS_Subset
  <2>0. IsFold(H[U], U, step, base, choice) /\ IsFold(H[W], W, step, base, choice)
    BY <2>1, <1>3
  <2>a. /\ \A s \in SUBSET U : s # {} => H[U][s] = step[choice[s]][H[U][s \ {choice[s]}]]
        /\ \A s \in SUBSET W : s # {} => H[W][s] = step[choice[s]][H[W][s \ {choice[s]}]]
    BY <2>0 DEF IsFold
  <2>2. ASSUME NEW s \in SUBSET W, \A t \in SUBSET s : t # s => H[U][t] = H[W][t]
        PROVE  H[U][s] = H[W][s]
    <3>0. s \in SUBSET U /\ s \in SUBSET S
      BY <2>1
    <3>1. CASE s = {}
      <4>1. H[U][{}] = base /\ H[W][{}] = base
        BY <2>0, FoldSteps
      <4> QED
        BY <4>1, <3>1
    <3>2. CASE s # {}
      <4>1. choice[s] \in s
        BY <3>0, <3>2 DEF IsChoice
      <4>2. H[U][s \ {choice[s]}] = H[W][s \ {choice[s]}]
        BY <4>1, <2>2
      <4>3. H[U][s] = step[choice[s]][H[U][s \ {choice[s]}]]
        BY <2>a, <3>0, <3>2
      <4>4. H[W][s] = step[choice[s]][H[W][s \ {choice[s]}]]
        BY <2>a, <3>2
      <4> QED
        BY <4>2, <4>3, <4>4
    <3> QED
      BY <3>1, <3>2
  <2> HIDE DEF H
  <2>3. \A s \in SUBSET W : H[U][s] = H[W][s]
    <3> DEFINE h == H[U]
               k == H[W]
    <3>1. \A s \in SUBSET W : (\A t \in SUBSET s : t # s => h[t] = k[t]) => h[s] = k[s]
      BY <2>2
    <3> HIDE DEF h, k
    <3>2. \A s \in SUBSET W : h[s] = k[s]
      BY <2>1, <3>1, AgreeFromBelow
    <3> QED
      BY <3>2 DEF h, k
  <2> QED
    BY <2>3
<1>5. ASSUME NEW s \in SUBSET T, s # {}
      PROVE  /\ choice[s] \in S
             /\ s \ {choice[s]} \in (SUBSET T) \ {T}
             /\ val(s \ {choice[s]}) \in V
  <2>1. choice[s] \in s
    BY <1>5, <1>t DEF IsChoice
  <2>2. s \ {choice[s]} \in (SUBSET T) \ {T}
    BY <2>1
  <2>3. {} \in SUBSET (s \ {choice[s]}) /\ s \ {choice[s]} \in SUBSET (s \ {choice[s]})
    OBVIOUS
  <2>4. val(s \ {choice[s]}) \in V
    BY <2>2, <2>3, <1>3
  <2> QED
    BY <2>1, <2>2, <2>4, <1>t
<1>6. top \in [SUBSET T -> V]
  <2>1. \A s \in SUBSET T : s # {} => step[choice[s]][val(s \ {choice[s]})] \in V
    BY <1>5
  <2> QED
    BY <2>1
<1>7. ASSUME NEW U \in (SUBSET T) \ {T}
      PROVE  top[U] = val(U)
  <2>0. IsFold(H[U], U, step, base, choice)
    BY <1>3
  <2>1. CASE U = {}
    <3>1. H[U][{}] = base
      BY <2>0, FoldSteps
    <3>2. top[{}] = base
      OBVIOUS
    <3> QED
      BY <2>1, <3>1, <3>2
  <2>2. CASE U # {}
    <3>1. H[U][U] = step[choice[U]][H[U][U \ {choice[U]}]]
      BY <2>0, <2>2 DEF IsFold
    <3>2. H[U][U \ {choice[U]}] = val(U \ {choice[U]})
      <4>1. U \ {choice[U]} \in SUBSET U
        OBVIOUS
      <4> QED
        BY <4>1, <1>4
    <3>3. top[U] = step[choice[U]][val(U \ {choice[U]})]
      BY <2>2
    <3> QED
      BY <3>1, <3>2, <3>3
  <2> QED
    BY <2>1, <2>2
<1>8. IsFold(top, T, step, base, choice)
  <2>1. \A s \in SUBSET T : s # {} => top[s \ {choice[s]}] = val(s \ {choice[s]})
    BY <1>5, <1>7
  <2> QED
    BY <2>1 DEF IsFold
<1> QED
  BY <1>1, <1>6, <1>8

-----------------------------------------------------------------------------
(* Sums *)

First(s) == CHOOSE x \in s : TRUE

SumOf(g, S) == MapThenSumSet(LAMBDA x : g[x], S)

IsSum(h, g, S) ==
    h = [s \in SUBSET S |-> IF s = {} THEN 0 ELSE g[First(s)] + h[s \ {First(s)}]]

LEMMA FirstIsElement == \A s : s # {} => First(s) \in s
BY DEF First

LEMMA SumFoldExists ==
    ASSUME NEW S, IsFiniteSet(S), NEW g, \A x \in S : g[x] \in Int
    PROVE  \E h \in [SUBSET S -> Int] : IsSum(h, g, S)
<1> DEFINE step == [x \in S |-> [v \in Int |-> g[x] + v]]
           choice == [s \in SUBSET S |-> First(s)]
<1>1. step \in [S -> [Int -> Int]]
  OBVIOUS
<1>2. IsChoice(choice, S)
  BY FirstIsElement DEF IsChoice
<1>3. PICK h \in [SUBSET S -> Int] : IsFold(h, S, step, 0, choice)
  <2> DEFINE zero == 0
  <2>1. zero \in Int
    OBVIOUS
  <2> HIDE DEF step, choice, zero
  <2>2. \E h \in [SUBSET S -> Int] : IsFold(h, S, step, zero, choice)
    BY <1>1, <1>2, <2>1, FoldExists
  <2> QED
    BY <2>2 DEF zero
<1> HIDE DEF step, choice
<1>a. /\ \A s \in SUBSET S : s # {} => h[s] = step[choice[s]][h[s \ {choice[s]}]]
      /\ h[{}] = 0
  <2>1. {} \in SUBSET S
    OBVIOUS
  <2> QED
    BY <1>3, <2>1 DEF IsFold
<1>4. ASSUME NEW s \in SUBSET S, s # {}
      PROVE  h[s] = g[First(s)] + h[s \ {First(s)}]
  <2>1. First(s) \in s
    BY <1>4, FirstIsElement
  <2>2. h[s] = step[choice[s]][h[s \ {choice[s]}]]
    BY <1>a, <1>4
  <2>3. h[s \ {First(s)}] \in Int
    BY <2>1
  <2>4. choice[s] = First(s)
    BY DEF choice
  <2>5. step[First(s)][h[s \ {First(s)}]] = g[First(s)] + h[s \ {First(s)}]
    BY <2>1, <2>3 DEF step
  <2> QED
    BY <2>2, <2>4, <2>5
<1>6. h = [s \in SUBSET S |-> IF s = {} THEN 0 ELSE g[First(s)] + h[s \ {First(s)}]]
  BY <1>3, <1>4, <1>a
<1> QED
  BY <1>6 DEF IsSum

LEMMA SumIsFold ==
    ASSUME NEW S, IsFiniteSet(S), NEW g, NEW h, IsSum(h, g, S)
    PROVE  SumOf(g, S) = h[S]
<1> DEFINE iter == CHOOSE f : IsSum(f, g, S)
<1>1. SumOf(g, S) = iter[S]
  BY DEF SumOf, MapThenSumSet, MapThenFoldSet, IsSum, First
<1>2. IsSum(iter, g, S)
  OBVIOUS
<1> HIDE DEF iter
<1>3. ASSUME NEW s \in SUBSET S, \A t \in SUBSET s : t # s => iter[t] = h[t]
      PROVE  iter[s] = h[s]
  <2>1. CASE s = {}
    BY <1>2, <2>1 DEF IsSum
  <2>2. CASE s # {}
    <3>1. s \ {First(s)} \in SUBSET s /\ s \ {First(s)} # s
      BY <2>2, FirstIsElement
    <3>2. iter[s \ {First(s)}] = h[s \ {First(s)}]
      BY <1>3, <3>1
    <3>3. iter[s] = g[First(s)] + iter[s \ {First(s)}]
      BY <1>2, <2>2 DEF IsSum
    <3>4. h[s] = g[First(s)] + h[s \ {First(s)}]
      BY <2>2 DEF IsSum
    <3> QED
      BY <3>2, <3>3, <3>4
  <2> QED
    BY <2>1, <2>2
<1>4. \A s \in SUBSET S : iter[s] = h[s]
  BY <1>3, AgreeFromBelow
<1> QED
  BY <1>1, <1>4

LEMMA SumEmpty == ASSUME NEW g PROVE SumOf(g, {}) = 0
<1>1. IsFiniteSet({})
  BY FS_EmptySet
<1>2. PICK h : IsSum(h, g, {})
  BY <1>1, SumFoldExists
<1>3. {} \in SUBSET {}
  OBVIOUS
<1>4. h[{}] = 0
  BY <1>2, <1>3 DEF IsSum
<1> QED
  BY <1>1, <1>2, <1>4, SumIsFold

(* What a sum is made of, for all subsets of a finite set at once.         *)
LEMMA SumParts ==
    ASSUME NEW S, IsFiniteSet(S), NEW g, \A x \in S : g[x] \in Int
    PROVE  \A s \in SUBSET S :
              /\ SumOf(g, s) \in Int
              /\ s # {} => SumOf(g, s) = g[First(s)] + SumOf(g, s \ {First(s)})
<1>1. PICK h \in [SUBSET S -> Int] : IsSum(h, g, S)
  BY SumFoldExists
<1>2. ASSUME NEW s \in SUBSET S
      PROVE  SumOf(g, s) = h[s]
  <2> DEFINE k == [t \in SUBSET s |-> h[t]]
  <2>1. IsFiniteSet(s)
    BY FS_Subset
  <2>2. ASSUME NEW t \in SUBSET s, t # {}
        PROVE  k[t] = g[First(t)] + k[t \ {First(t)}]
    <3>1. t \in SUBSET S /\ t \ {First(t)} \in SUBSET s
      OBVIOUS
    <3>2. h[t] = g[First(t)] + h[t \ {First(t)}]
      BY <1>1, <2>2, <3>1 DEF IsSum
    <3> QED
      BY <3>1, <3>2
  <2>3. k[{}] = 0
    <3>1. {} \in SUBSET S /\ {} \in SUBSET s
      OBVIOUS
    <3> QED
      BY <1>1, <3>1 DEF IsSum
  <2>4. IsSum(k, g, s)
    BY <2>2, <2>3 DEF IsSum
  <2>5. k[s] = h[s]
    OBVIOUS
  <2> HIDE DEF k
  <2> QED
    BY <2>1, <2>4, <2>5, SumIsFold
<1> QED
  <2>1. ASSUME NEW s \in SUBSET S, s # {}
        PROVE  h[s] = g[First(s)] + h[s \ {First(s)}]
    BY <1>1, <2>1 DEF IsSum
  <2>2. \A s \in SUBSET S : s \ {First(s)} \in SUBSET S
    OBVIOUS
  <2> QED
    BY <1>1, <1>2, <2>1, <2>2

LEMMA SumTyped ==
    ASSUME NEW S, IsFiniteSet(S), NEW g, \A x \in S : g[x] \in Int
    PROVE  SumOf(g, S) \in Int
BY SumParts

(* Any element may be taken out of a sum.                                  *)
LEMMA SumWithout ==
    ASSUME NEW S, IsFiniteSet(S), NEW g, \A x \in S : g[x] \in Int, NEW e \in S
    PROVE  SumOf(g, S) = g[e] + SumOf(g, S \ {e})
<1> DEFINE Good(s) == \A x \in s : SumOf(g, s) = g[x] + SumOf(g, s \ {x})
           B == {s \in SUBSET S : ~ Good(s)}
<1>0. SUFFICES B = {}
  OBVIOUS
<1>1. SUFFICES ASSUME B # {} PROVE FALSE
  OBVIOUS
<1>2. PICK s \in B : \A t \in B : t \subseteq s => t = s
  <2>1. B \subseteq SUBSET S
    OBVIOUS
  <2> HIDE DEF B
  <2> QED
    BY <1>1, <2>1, SmallestSubset
<1>3. \A t \in SUBSET s : t # s => Good(t)
  BY <1>2
<1>4. ASSUME NEW x \in s
      PROVE  SumOf(g, s) = g[x] + SumOf(g, s \ {x})
  <2> DEFINE c == First(s)
  <2>0. c \in s /\ s \in SUBSET S
    BY FirstIsElement
  <2> HIDE DEF c
  <2>1. SumOf(g, s) = g[c] + SumOf(g, s \ {c})
    BY <2>0, SumParts DEF c
  <2>2. CASE x = c
    BY <2>1, <2>2
  <2>3. CASE x # c
    <3>1. SumOf(g, s \ {c}) = g[x] + SumOf(g, (s \ {c}) \ {x})
      <4>1. s \ {c} \in SUBSET s /\ s \ {c} # s /\ x \in s \ {c}
        BY <2>0, <2>3
      <4> QED
        BY <4>1, <1>3
    <3>2. SumOf(g, s \ {x}) = g[c] + SumOf(g, (s \ {x}) \ {c})
      <4>1. s \ {x} \in SUBSET s /\ s \ {x} # s /\ c \in s \ {x}
        BY <2>0, <2>3
      <4> QED
        BY <4>1, <1>3
    <3>3. (s \ {x}) \ {c} = (s \ {c}) \ {x}
      OBVIOUS
    <3>4. /\ SumOf(g, (s \ {c}) \ {x}) \in Int
          /\ SumOf(g, s \ {c}) \in Int /\ SumOf(g, s \ {x}) \in Int /\ SumOf(g, s) \in Int
      BY <2>0, SumParts
    <3>5. g[x] \in Int /\ g[c] \in Int
      BY <2>0
    <3>6. SumOf(g, s \ {x}) = g[c] + SumOf(g, (s \ {c}) \ {x})
      BY <3>2, <3>3
    <3> DEFINE d == SumOf(g, (s \ {c}) \ {x})
    <3>7. SumOf(g, s) = g[c] + (g[x] + d) /\ SumOf(g, s \ {x}) = g[c] + d /\ d \in Int
      BY <2>1, <3>1, <3>4, <3>6
    <3> HIDE DEF d
    <3> QED
      BY <3>5, <3>7
  <2> QED
    BY <2>2, <2>3
<1> QED
  BY <1>2, <1>4

(* An element added to a sum.                                              *)
LEMMA SumWith ==
    ASSUME NEW S, IsFiniteSet(S), NEW e, e \notin S, NEW g,
           \A x \in S \cup {e} : g[x] \in Int
    PROVE  SumOf(g, S \cup {e}) = SumOf(g, S) + g[e]
<1>1. IsFiniteSet(S \cup {e})
  BY FS_AddElement
<1>2. (S \cup {e}) \ {e} = S
  OBVIOUS
<1>3. SumOf(g, S \cup {e}) = g[e] + SumOf(g, (S \cup {e}) \ {e})
  BY <1>1, SumWithout
<1>4. SumOf(g, S) \in Int
  BY SumTyped
<1>5. SumOf(g, S \cup {e}) = g[e] + SumOf(g, S) /\ g[e] \in Int
  BY <1>2, <1>3
<1> QED
  BY <1>4, <1>5

(* The sum depends on the values over its set only.                        *)
LEMMA SumSame ==
    ASSUME NEW S, IsFiniteSet(S), NEW g, NEW f, \A x \in S : g[x] \in Int /\ f[x] = g[x]
    PROVE  SumOf(f, S) = SumOf(g, S)
<1>1. PICK h : IsSum(h, g, S)
  BY SumFoldExists
<1>2. \A s \in SUBSET S : s # {} => f[First(s)] = g[First(s)]
  BY FirstIsElement
<1>3. IsSum(h, f, S)
  BY <1>1, <1>2 DEF IsSum
<1> QED
  BY <1>1, <1>3, SumIsFold

(* Less summed is less.                                                    *)
LEMMA SumMonotone ==
    ASSUME NEW S, IsFiniteSet(S), NEW g, NEW f,
           \A x \in S : g[x] \in Int /\ f[x] \in Int /\ f[x] <= g[x]
    PROVE  SumOf(f, S) <= SumOf(g, S)
<1> DEFINE B == {s \in SUBSET S : ~ (SumOf(f, s) <= SumOf(g, s))}
<1>1. SUFFICES ASSUME B # {} PROVE FALSE
  OBVIOUS
<1>2. PICK s \in B : \A t \in B : t \subseteq s => t = s
  <2>1. B \subseteq SUBSET S
    OBVIOUS
  <2> HIDE DEF B
  <2> QED
    BY <1>1, <2>1, SmallestSubset
<1>3. CASE s = {}
  <2>1. SumOf(f, s) = 0 /\ SumOf(g, s) = 0
    BY <1>3, SumEmpty
  <2> QED
    BY <1>2, <2>1
<1>4. CASE s # {}
  <2> DEFINE c == First(s)
             t == s \ {c}
  <2>1. c \in s /\ t \in SUBSET S /\ t \subseteq s /\ t # s
    BY <1>4, FirstIsElement
  <2>f. \A r \in SUBSET S : SumOf(f, r) \in Int
                             /\ (r # {} => SumOf(f, r) = f[First(r)] + SumOf(f, r \ {First(r)}))
    BY SumParts
  <2>g. \A r \in SUBSET S : SumOf(g, r) \in Int
                             /\ (r # {} => SumOf(g, r) = g[First(r)] + SumOf(g, r \ {First(r)}))
    BY SumParts
  <2>2. /\ SumOf(f, s) = f[c] + SumOf(f, t) /\ SumOf(f, t) \in Int
        /\ SumOf(g, s) = g[c] + SumOf(g, t) /\ SumOf(g, t) \in Int
    BY <1>4, <2>1, <2>f, <2>g
  <2> HIDE DEF c, t
  <2>3. SumOf(f, t) <= SumOf(g, t)
    BY <1>2, <2>1
  <2>4. f[c] \in Int /\ g[c] \in Int /\ f[c] <= g[c]
    BY <2>1
  <2> DEFINE p == SumOf(f, t)
             q == SumOf(g, t)
  <2>5. SumOf(f, s) = f[c] + p /\ SumOf(g, s) = g[c] + q /\ p \in Int /\ q \in Int /\ p <= q
    BY <2>2, <2>3
  <2> HIDE DEF p, q
  <2>6. SumOf(f, s) <= SumOf(g, s)
    BY <2>4, <2>5
  <2> QED
    BY <1>2, <2>6
<1> QED
  BY <1>3, <1>4

(* Sums add up.                                                            *)
LEMMA SumPlus ==
    ASSUME NEW S, IsFiniteSet(S), NEW f, NEW g, NEW h,
           \A x \in S : f[x] \in Int /\ g[x] \in Int /\ h[x] = f[x] + g[x]
    PROVE  SumOf(h, S) = SumOf(f, S) + SumOf(g, S)
<1> DEFINE B == {s \in SUBSET S : SumOf(h, s) # SumOf(f, s) + SumOf(g, s)}
<1>1. SUFFICES ASSUME B # {} PROVE FALSE
  OBVIOUS
<1>2. PICK s \in B : \A t \in B : t \subseteq s => t = s
  <2>1. B \subseteq SUBSET S
    OBVIOUS
  <2> HIDE DEF B
  <2> QED
    BY <1>1, <2>1, SmallestSubset
<1>3. CASE s = {}
  <2>1. SumOf(f, s) = 0 /\ SumOf(g, s) = 0 /\ SumOf(h, s) = 0
    BY <1>3, SumEmpty
  <2> QED
    BY <1>2, <2>1
<1>4. CASE s # {}
  <2> DEFINE c == First(s)
             t == s \ {c}
  <2>1. c \in s /\ t \in SUBSET S /\ t \subseteq s /\ t # s
    BY <1>4, FirstIsElement
  <2>f. \A r \in SUBSET S : SumOf(f, r) \in Int
                             /\ (r # {} => SumOf(f, r) = f[First(r)] + SumOf(f, r \ {First(r)}))
    BY SumParts
  <2>g. \A r \in SUBSET S : SumOf(g, r) \in Int
                             /\ (r # {} => SumOf(g, r) = g[First(r)] + SumOf(g, r \ {First(r)}))
    BY SumParts
  <2>a. \A x \in S : h[x] \in Int
    OBVIOUS
  <2>h. \A r \in SUBSET S : SumOf(h, r) \in Int
                             /\ (r # {} => SumOf(h, r) = h[First(r)] + SumOf(h, r \ {First(r)}))
    BY <2>a, SumParts
  <2>2. /\ SumOf(f, s) = f[c] + SumOf(f, t) /\ SumOf(f, t) \in Int
        /\ SumOf(g, s) = g[c] + SumOf(g, t) /\ SumOf(g, t) \in Int
        /\ SumOf(h, s) = h[c] + SumOf(h, t)
    BY <1>4, <2>1, <2>f, <2>g, <2>h
  <2> HIDE DEF c, t
  <2>3. SumOf(h, t) = SumOf(f, t) + SumOf(g, t)
    BY <1>2, <2>1
  <2>4. f[c] \in Int /\ g[c] \in Int /\ h[c] = f[c] + g[c]
    BY <2>1
  <2> DEFINE p == SumOf(f, t)
             q == SumOf(g, t)
  <2>5. SumOf(f, s) = f[c] + p /\ SumOf(g, s) = g[c] + q /\ SumOf(h, s) = h[c] + (p + q)
        /\ p \in Int /\ q \in Int
    BY <2>2, <2>3
  <2> HIDE DEF p, q
  <2>6. SumOf(h, s) = SumOf(f, s) + SumOf(g, s)
    BY <2>4, <2>5
  <2> QED
    BY <1>2, <2>6
<1> QED
  BY <1>3, <1>4

(* One summand changes.                                                    *)
LEMMA SumChanged ==
    ASSUME NEW S, IsFiniteSet(S), NEW e \in S, NEW g, NEW f,
           \A x \in S : g[x] \in Int /\ f[x] \in Int, \A x \in S \ {e} : f[x] = g[x]
    PROVE  SumOf(f, S) = SumOf(g, S) + (f[e] - g[e])
<1> DEFINE T == S \ {e}
<1>1. IsFiniteSet(T) /\ \A x \in T : g[x] \in Int /\ f[x] = g[x]
  BY FS_Subset
<1>2. SumOf(g, S) = g[e] + SumOf(g, T) /\ SumOf(f, S) = f[e] + SumOf(f, T)
  BY SumWithout
<1> HIDE DEF T
<1>3. SumOf(f, T) = SumOf(g, T) /\ SumOf(g, T) \in Int
  BY <1>1, SumSame, SumTyped
<1>4. f[e] \in Int /\ g[e] \in Int
  OBVIOUS
<1> DEFINE p == SumOf(g, T)
<1>5. p \in Int /\ SumOf(g, S) = g[e] + p /\ SumOf(f, S) = f[e] + p
  BY <1>2, <1>3
<1> HIDE DEF p
<1> QED
  BY <1>4, <1>5

(* Nothing summed is nothing.                                              *)
LEMMA SumOfZeros ==
    ASSUME NEW S, IsFiniteSet(S), NEW g, \A x \in S : g[x] = 0
    PROVE  SumOf(g, S) = 0
<1> DEFINE h == [s \in SUBSET S |-> 0]
<1>1. IsSum(h, g, S)
  <2>1. \A s \in SUBSET S : s # {} => g[First(s)] = 0 /\ s \ {First(s)} \in SUBSET S
    BY FirstIsElement
  <2> QED
    BY <2>1 DEF IsSum
<1>2. h[S] = 0
  OBVIOUS
<1> HIDE DEF h
<1> QED
  BY <1>1, <1>2, SumIsFold

(* What is not negative has no negative sum.                               *)
LEMMA SumIsNatural ==
    ASSUME NEW S, IsFiniteSet(S), NEW g, \A x \in S : g[x] \in Nat
    PROVE  SumOf(g, S) \in Nat
<1> DEFINE z == [x \in S |-> 0]
<1>1. \A x \in S : g[x] \in Int /\ z[x] \in Int /\ z[x] = 0 /\ z[x] <= g[x]
  OBVIOUS
<1> HIDE DEF z
<1>2. SumOf(z, S) <= SumOf(g, S)
  BY <1>1, SumMonotone
<1>3. SumOf(z, S) = 0
  BY <1>1, SumOfZeros
<1>4. SumOf(g, S) \in Int
  BY SumTyped
<1> QED
  BY <1>2, <1>3, <1>4

(* Elements that count for nothing may be left out.                        *)
LEMMA SumOfPart ==
    ASSUME NEW S, IsFiniteSet(S), NEW T \in SUBSET S, NEW g,
           \A x \in S : g[x] \in Int, \A x \in S \ T : g[x] = 0
    PROVE  SumOf(g, S) = SumOf(g, T)
<1> DEFINE B == {s \in SUBSET (S \ T) : SumOf(g, T \cup s) # SumOf(g, T)}
<1>1. CASE B = {}
  <2>1. SumOf(g, T \cup (S \ T)) = SumOf(g, T)
    BY <1>1
  <2>2. T \cup (S \ T) = S
    OBVIOUS
  <2>3. SumOf(g, T \cup (S \ T)) = SumOf(g, S)
    BY <2>2
  <2> QED
    BY <2>1, <2>3
<1>2. ASSUME B # {} PROVE FALSE
  <2>0. IsFiniteSet(S \ T) /\ B \subseteq SUBSET (S \ T)
    BY FS_Subset
  <2>1. PICK s \in B : \A t \in B : t \subseteq s => t = s
    <3> HIDE DEF B
    <3> QED
      BY <1>2, <2>0, SmallestSubset
  <2>2. s # {}
    <3>1. T \cup {} = T
      OBVIOUS
    <3> QED
      BY <2>1, <3>1
  <2>3. PICK c \in s : c \notin T
    BY <2>1, <2>2
  <2>4. SumOf(g, T \cup (s \ {c})) = SumOf(g, T)
    <3>1. s \ {c} \in SUBSET (S \ T) /\ s \ {c} \notin B
      BY <2>1
    <3> QED
      BY <3>1
  <2>5. T \cup s \in SUBSET S /\ (T \cup s) \ {c} = T \cup (s \ {c}) /\ c \in T \cup s
    BY <2>1, <2>3
  <2>6. IsFiniteSet(T \cup s)
    BY <2>5, FS_Subset
  <2>7. SumOf(g, T \cup s) = g[c] + SumOf(g, (T \cup s) \ {c})
    BY <2>5, <2>6, SumWithout
  <2>8. g[c] = 0
    BY <2>1, <2>3
  <2>9. SumOf(g, T) \in Int
    BY SumParts
  <2>10. SumOf(g, T \cup s) = g[c] + SumOf(g, T)
    BY <2>4, <2>5, <2>7
  <2>11. SumOf(g, T \cup s) = SumOf(g, T)
    BY <2>8, <2>9, <2>10
  <2> QED
    BY <2>1, <2>11
<1> QED
  BY <1>1, <1>2

(* The elements may be counted by another name.                            *)
LEMMA SumRenamed ==
    ASSUME NEW S, IsFiniteSet(S), NEW f,
           \A x, y \in S : f[x] = f[y] => x = y,
           NEW g, \A x \in S : g[f[x]] \in Int
    PROVE  SumOf([x \in S |-> g[f[x]]], S) = SumOf(g, {f[x] : x \in S})
<1> DEFINE k == [x \in S |-> g[f[x]]]
           Im(s) == {f[x] : x \in s}
           B == {s \in SUBSET S : SumOf(k, s) # SumOf(g, Im(s))}
<1>k. \A x \in S : k[x] = g[f[x]] /\ k[x] \in Int
  OBVIOUS
<1> HIDE DEF k
<1>1. CASE B = {}
  BY <1>1 DEF k
<1>2. ASSUME B # {} PROVE FALSE
  <2>0. B \subseteq SUBSET S
    OBVIOUS
  <2>1. PICK s \in B : \A t \in B : t \subseteq s => t = s
    <3> HIDE DEF B
    <3> QED
      BY <1>2, <2>0, SmallestSubset
  <2>2. s # {}
    <3>1. Im({}) = {} /\ SumOf(k, {}) = 0 /\ SumOf(g, {}) = 0
      BY SumEmpty
    <3> QED
      BY <2>1, <3>1
  <2>3. PICK c \in s : TRUE
    BY <2>2
  <2>4. s \in SUBSET S /\ IsFiniteSet(s) /\ IsFiniteSet(s \ {c})
    BY <2>1, FS_Subset
  <2>5. SumOf(k, s) = k[c] + SumOf(k, s \ {c})
    BY <2>4, <1>k, SumWithout
  <2>6. Im(s) \ {f[c]} = Im(s \ {c}) /\ f[c] \in Im(s)
    BY <2>3, <2>4
  <2>7. IsFiniteSet(Im(s))
    <3> DEFINE F == [x \in s |-> f[x]]
    <3>1. IsFiniteSet({F[x] : x \in s})
      <4>1. F \in Surjection(s, {F[x] : x \in s})
        BY DEF Surjection
      <4> HIDE DEF F
      <4> QED
        BY <2>4, <4>1, FS_Surjection
    <3>2. {F[x] : x \in s} = Im(s)
      OBVIOUS
    <3> QED
      BY <3>1, <3>2
  <2>8. SumOf(g, Im(s)) = g[f[c]] + SumOf(g, Im(s) \ {f[c]})
    <3>1. \A y \in Im(s) : g[y] \in Int
      BY <2>4
    <3> HIDE DEF Im
    <3> QED
      BY <2>6, <2>7, <3>1, SumWithout
  <2>9. SumOf(k, s \ {c}) = SumOf(g, Im(s \ {c}))
    <3>1. s \ {c} \in SUBSET S /\ s \ {c} \subseteq s /\ s \ {c} # s
      BY <2>4
    <3> QED
      BY <2>1, <3>1
  <2>10. SumOf(k, s) = SumOf(g, Im(s))
    <3> HIDE DEF Im, B
    <3>1. k[c] = g[f[c]]
      BY <1>k, <2>4
    <3> QED
      BY <2>5, <2>6, <2>8, <2>9, <3>1
  <2> QED
    BY <2>1, <2>10
<1> QED
  BY <1>1, <1>2

(* Products by a positive number compare as their factors.                 *)
LEMMA ProductsCompare ==
    ASSUME NEW k \in Nat \ {0}, NEW m \in Int, NEW n \in Int, k * m <= k * n
    PROVE  m <= n
<1>1. SUFFICES ASSUME m >= n + 1 PROVE FALSE
  OBVIOUS
<1>2. k * m >= k * n + k
  <2>1. PICK d \in Nat : m = n + 1 + d
    <3>1. m - n - 1 \in Nat /\ m = n + 1 + (m - n - 1)
      BY <1>1
    <3> QED
      BY <3>1
  <2>2. k * m = k * n + k + k * d
    BY <2>1
  <2>3. k * d \in Nat
    BY <2>1
  <2> QED
    BY <2>2, <2>3
<1> QED
  BY <1>2

(* Shares per mille, each rounded down, make up the whole but for one each.*)
LEMMA SharesAddUp ==
    ASSUME NEW S, IsFiniteSet(S), NEW a, \A x \in S : a[x] \in Nat, SumOf(a, S) > 0,
           NEW q, \A x \in S : q[x] = (1000 * a[x]) \div SumOf(a, S)
    PROVE  SumOf(q, S) \in 1000 - Cardinality(S) .. 1000
<1> DEFINE whole == SumOf(a, S)
<1>w. whole \in Nat \ {0}
  <2>1. SumOf(a, S) \in Nat
    BY SumIsNatural
  <2> QED
    BY <2>1
<1>q. \A x \in S : q[x] = (1000 * a[x]) \div whole
  OBVIOUS
<1> HIDE DEF whole
<1>1. ASSUME NEW x \in S
      PROVE  /\ q[x] \in Nat
             /\ whole * q[x] <= 1000 * a[x] /\ 1000 * a[x] <= whole * q[x] + whole
  <2> DEFINE n == 1000 * a[x]
             d == n \div whole
             r == n % whole
  <2>1. n \in Nat
    OBVIOUS
  <2> HIDE DEF n
  <2>2. d \in Nat /\ r \in 0 .. whole - 1 /\ n = whole * d + r
    BY <1>w, <2>1
  <2>3. q[x] = d
    BY <1>q DEF n
  <2>4. whole * d \in Nat
    BY <1>w, <2>2
  <2> HIDE DEF d, r
  <2>5. whole * d <= n /\ n <= whole * d + whole
    BY <1>w, <2>2, <2>4
  <2> QED
    BY <2>2, <2>3, <2>5 DEF n
<1>2. \A x \in S : a[x] \in Int /\ q[x] \in Int
  BY <1>1
<1> DEFINE Good(s) == /\ whole * SumOf(q, s) <= 1000 * SumOf(a, s)
                      /\ 1000 * SumOf(a, s) <= whole * SumOf(q, s) + whole * Cardinality(s)
           B == {s \in SUBSET S : ~ Good(s)}
<1>3. B = {}
  <2>1. SUFFICES ASSUME B # {} PROVE FALSE
    OBVIOUS
  <2>2. PICK s \in B : \A t \in B : t \subseteq s => t = s
    <3>1. B \subseteq SUBSET S
      OBVIOUS
    <3> HIDE DEF B
    <3> QED
      BY <2>1, <3>1, SmallestSubset
  <2>3. CASE s = {}
    <3>1. SumOf(q, s) = 0 /\ SumOf(a, s) = 0 /\ Cardinality(s) = 0
      BY <2>3, SumEmpty, FS_EmptySet
    <3>2. Good(s)
      BY <1>w, <3>1
    <3> QED
      BY <2>2, <3>2
  <2>4. CASE s # {}
    <3>1. PICK c \in s : TRUE
      BY <2>4
    <3> DEFINE t == s \ {c}
    <3>2. s \in SUBSET S /\ t \in SUBSET S /\ t \subseteq s /\ t # s /\ c \in S
      BY <2>2, <3>1
    <3>3. IsFiniteSet(s) /\ IsFiniteSet(t)
      BY <3>2, FS_Subset
    <3>4. SumOf(a, s) = a[c] + SumOf(a, t) /\ SumOf(q, s) = q[c] + SumOf(q, t)
      BY <1>2, <3>1, <3>2, <3>3, SumWithout
    <3>5. SumOf(a, t) \in Int /\ SumOf(q, t) \in Int
      BY <1>2, <3>2, <3>3, SumTyped
    <3>6. Cardinality(t) \in Nat /\ Cardinality(s) = Cardinality(t) + 1
      <4>1. Cardinality(t) = Cardinality(s) - 1 /\ Cardinality(s) \in Nat /\ Cardinality(t) \in Nat
        BY <3>1, <3>3, FS_RemoveElement, FS_CardinalityType
      <4> QED
        BY <4>1
    <3>7. Good(t)
      <4> HIDE DEF t, Good
      <4> QED
        BY <2>2, <3>2
    <3> HIDE DEF t
    <3> DEFINE at == SumOf(a, t)
               qt == SumOf(q, t)
               n  == Cardinality(t)
               ac == a[c]
               qc == q[c]
    <3>8. /\ ac \in Int /\ qc \in Int /\ at \in Int /\ qt \in Int /\ n \in Nat
          /\ whole * qt <= 1000 * at /\ 1000 * at <= whole * qt + whole * n
          /\ whole * qc <= 1000 * ac /\ 1000 * ac <= whole * qc + whole
      BY <1>1, <1>2, <3>2, <3>5, <3>6, <3>7
    <3> HIDE DEF at, qt, n, ac, qc
    <3>9. whole * (qc + qt) = whole * qc + whole * qt /\ whole * (n + 1) = whole * n + whole
      BY <1>w, <3>8
    <3>10. whole * qc \in Int /\ whole * qt \in Int /\ whole * n \in Int
      BY <1>w, <3>8
    <3>11. /\ whole * (qc + qt) <= 1000 * (ac + at)
           /\ 1000 * (ac + at) <= whole * (qc + qt) + whole * (n + 1)
      BY <1>w, <3>8, <3>9, <3>10
    <3>12. Good(s)
      BY <3>4, <3>6, <3>11 DEF at, qt, n, ac, qc
    <3> QED
      BY <2>2, <3>12
  <2> QED
    BY <2>3, <2>4
<1>4. Good(S)
  BY <1>3
<1> DEFINE sum == SumOf(q, S)
           n   == Cardinality(S)
<1>5. sum \in Int /\ n \in Nat
  BY <1>2, SumTyped, FS_CardinalityType
<1>6. whole * sum <= whole * 1000 /\ whole * 1000 <= whole * sum + whole * n
  <2>1. SumOf(a, S) = whole
    BY DEF whole
  <2> QED
    BY <1>4, <1>w, <2>1
<1> HIDE DEF sum, n
<1>7. whole * 1000 <= whole * (sum + n)
  BY <1>w, <1>5, <1>6
<1>8. sum <= 1000 /\ 1000 <= sum + n
  BY <1>w, <1>5, <1>6, <1>7, ProductsCompare
<1> QED
  BY <1>5, <1>8 DEF sum, n

-----------------------------------------------------------------------------
(* Induction over the first natural numbers.                               *)
LEMMA UpTo ==
    ASSUME NEW N \in Nat, NEW P, 0 \in P, \A n \in 0 .. N - 1 : n \in P => n + 1 \in P
    PROVE  \A n \in 0 .. N : n \in P
<1> DEFINE B == {s \in SUBSET (0 .. N) : \E n \in 0 .. N : n \notin P /\ s = 0 .. n}
<1>1. SUFFICES ASSUME NEW m \in 0 .. N, m \notin P PROVE FALSE
  OBVIOUS
<1>2. 0 .. m \in B
  BY <1>1
<1>3. IsFiniteSet(0 .. N)
  BY FS_Interval
<1>4. PICK s \in B : \A t \in B : t \subseteq s => t = s
  <2>1. B \subseteq SUBSET (0 .. N) /\ B # {}
    BY <1>2
  <2> DEFINE S == 0 .. N
  <2>2. IsFiniteSet(S)
    BY <1>3
  <2>3. B \subseteq SUBSET S
    BY <2>1
  <2>4. B # {}
    BY <2>1
  <2> HIDE DEF B, S
  <2> QED
    BY <2>2, <2>3, <2>4, SmallestSubset
<1>5. PICK n \in 0 .. N : n \notin P /\ s = 0 .. n
  BY <1>4
<1>6. n # 0 /\ n - 1 \in 0 .. N /\ n - 1 \in 0 .. N - 1 /\ (n - 1) + 1 = n
  BY <1>5
<1>7. n - 1 \notin P
  BY <1>5, <1>6
<1>8. 0 .. n - 1 \in B
  BY <1>6, <1>7
<1>9. 0 .. n - 1 \subseteq s /\ 0 .. n - 1 # s
  BY <1>5, <1>6
<1> QED
  BY <1>4, <1>8, <1>9

(* Of any two elements before comes one first, and then it goes on.        *)
IsOrder(before, S) ==
    /\ \A x, y \in S : <<x, y>> \in before \/ <<y, x>> \in before
    /\ \A x, y, z \in S : <<x, y>> \in before /\ <<y, z>> \in before => <<x, z>> \in before

(* A finite set has an element that comes before all others.               *)
LEMMA FirstInOrder ==
    ASSUME NEW S, IsFiniteSet(S), S # {}, NEW before, IsOrder(before, S)
    PROVE  \E x \in S : \A y \in S : <<x, y>> \in before
<1> DEFINE Good(T) == \E x \in T : \A y \in T : <<x, y>> \in before
           B == {T \in SUBSET S : T # {} /\ ~ Good(T)}
<1>1. SUFFICES ASSUME B # {} PROVE FALSE
  BY DEF B
<1>2. B \subseteq SUBSET S
  OBVIOUS
<1>3. PICK T \in B : \A U \in B : U \subseteq T => U = T
  <2> HIDE DEF B
  <2> QED
    BY <1>1, <1>2, SmallestSubset
<1>4. T \subseteq S /\ T # {} /\ ~ Good(T)
  BY <1>3
<1>5. PICK e \in T : TRUE
  BY <1>4
<1>6. CASE T \ {e} = {}
  <2>1. Good(T)
    BY <1>4, <1>5, <1>6 DEF IsOrder
  <2> QED
    BY <1>4, <2>1
<1>7. CASE T \ {e} # {}
  <2>1. Good(T \ {e})
    <3>1. SUFFICES ASSUME ~ Good(T \ {e}) PROVE FALSE
      OBVIOUS
    <3>2. T \ {e} \in SUBSET S
      BY <1>4
    <3>3. T \ {e} \in B
      BY <1>7, <3>1, <3>2
    <3> HIDE DEF Good
    <3>4. T \ {e} = T
      BY <1>3, <3>3
    <3> QED
      BY <1>5, <3>4
  <2>2. PICK m \in T \ {e} : \A y \in T \ {e} : <<m, y>> \in before
    BY <2>1
  <2>3. CASE <<m, e>> \in before
    <3>1. Good(T)
      BY <2>2, <2>3
    <3> QED
      BY <1>4, <3>1
  <2>4. CASE <<e, m>> \in before
    <3>1. \A y \in T \ {e} : <<e, y>> \in before
      BY <1>4, <1>5, <2>2, <2>4 DEF IsOrder
    <3>2. <<e, e>> \in before
      BY <1>4, <1>5 DEF IsOrder
    <3>3. Good(T)
      BY <1>5, <3>1, <3>2
    <3> QED
      BY <1>4, <3>3
  <2> QED
    BY <1>4, <1>5, <2>2, <2>3, <2>4 DEF IsOrder
<1> QED
  BY <1>6, <1>7

(* A finite set of integers has a greatest.                                *)
LEMMA MaxIsElement ==
    ASSUME NEW d, IsFiniteSet(d), d \subseteq Int, d # {}
    PROVE  Max(d) \in d /\ \A x \in d : Max(d) >= x
<1> DEFINE above == {p \in d \X d : p[1] >= p[2]}
<1>1. \A x, y \in d : <<x, y>> \in above <=> x >= y
  OBVIOUS
<1>2. \A x \in d : x \in Int
  OBVIOUS
<1> HIDE DEF above
<1>3. \A x, y \in d : <<x, y>> \in above \/ <<y, x>> \in above
  <2>1. ASSUME NEW x \in d, NEW y \in d
        PROVE  <<x, y>> \in above \/ <<y, x>> \in above
    <3>1. x \in Int /\ y \in Int
      BY <1>2
    <3> QED
      BY <1>1, <3>1
  <2> QED
    BY <2>1
<1>4. \A x, y, z \in d : <<x, y>> \in above /\ <<y, z>> \in above => <<x, z>> \in above
  BY <1>1, <1>2
<1>5. \E x \in d : \A y \in d : <<x, y>> \in above
  BY <1>3, <1>4, FirstInOrder DEF IsOrder
<1>6. \E x \in d : \A y \in d : x >= y
  BY <1>1, <1>5
<1> QED
  BY <1>6 DEF Max

(* What FoldLeft computes: a value of J, when every step stays in J.       *)
IsLeftFold(h, D, step, base) ==
    /\ h[{}] = base
    /\ \A d \in SUBSET D : d # {} => h[d] = step[Max(d)][h[d \ {Max(d)}]]

LEMMA LeftFoldExists ==
    ASSUME NEW D, IsFiniteSet(D), D \subseteq Int, NEW J, NEW base \in J, NEW step \in [D -> [J -> J]]
    PROVE  \E h \in [SUBSET D -> J] : IsLeftFold(h, D, step, base)
<1> DEFINE choice == [d \in SUBSET D |-> Max(d)]
<1>1. \A d \in SUBSET D : d # {} => Max(d) \in d
  BY MaxIsElement, FS_Subset
<1>2. IsChoice(choice, D)
  BY <1>1 DEF IsChoice
<1>3. \A d \in SUBSET D : choice[d] = Max(d)
  OBVIOUS
<1> HIDE DEF choice
<1>4. PICK h \in [SUBSET D -> J] : IsFold(h, D, step, base, choice)
  BY <1>2, FoldExists
<1>5. h[{}] = base /\ \A d \in SUBSET D : d # {} => h[d] = step[choice[d]][h[d \ {choice[d]}]]
  <2>1. {} \in SUBSET D
    OBVIOUS
  <2> QED
    BY <1>4, <2>1 DEF IsFold
<1> QED
  BY <1>3, <1>4, <1>5 DEF IsLeftFold
=============================================================================
