------------------------------ MODULE FiniteFolds ------------------------------
(* Induction over the subsets of a finite set, without an operator as a       *)
(* parameter, and what follows from it: the recursive function a fold is made *)
(* of exists.                                                                  *)
EXTENDS FiniteSets, FiniteSetTheorems, WellFoundedInduction, TLAPS

\* A set of subsets that has every set whose proper subsets it has, has all.
LEMMA SubsetInduction ==
    ASSUME NEW S, IsFiniteSet(S), NEW Good,
           \A s \in SUBSET S : (\A r \in SUBSET s : r # s => r \in Good) => s \in Good
    PROVE  \A s \in SUBSET S : s \in Good
<1> DEFINE Bad == {s \in SUBSET S : s \notin Good}
<1>1. SUFFICES ASSUME Bad # {} PROVE FALSE
  OBVIOUS
<1>2. IsWellFoundedOn(StrictSubsetOrdering(S), FiniteSubsetsOf(S))
  BY FS_StrictSubsetOrderingWellFounded
<1>3. FiniteSubsetsOf(S) = SUBSET S
  BY FS_FiniteSubsetsOfFinite
<1>4. Bad \subseteq FiniteSubsetsOf(S)
  BY <1>3
<1>5. PICK s \in Bad : \A r \in Bad : <<r, s>> \notin StrictSubsetOrdering(S)
  <2> HIDE DEF Bad
  <2> QED
    BY <1>1, <1>2, <1>4, WFMin
<1>6. \A r \in SUBSET s : r # s => r \in Good
  BY <1>5 DEF StrictSubsetOrdering
<1> QED
  BY <1>5, <1>6

\* Some member is the largest.
HasMax(s) == \E m \in s : \A i \in s : m >= i

\* A finite set of numbers has a largest one.
LEMMA MaxExists ==
    ASSUME NEW S \in SUBSET Int, IsFiniteSet(S), S # {}
    PROVE  HasMax(S)
<1> DEFINE Good == {s \in SUBSET S : s # {} => HasMax(s)}
<1>1. ASSUME NEW s \in SUBSET S, \A r \in SUBSET s : r # s => r \in Good PROVE s \in Good
  <2> SUFFICES ASSUME s # {} PROVE HasMax(s)
    OBVIOUS
  <2>1. PICK x \in s : TRUE
    OBVIOUS
  <2>2. CASE s = {x}
    BY <2>2 DEF HasMax
  <2>3. CASE s \ {x} # {}
    <3>1. PICK m \in s \ {x} : \A i \in s \ {x} : m >= i
      <4>1. s \ {x} \in SUBSET s /\ s \ {x} # s
        BY <2>1
      <4>2. HasMax(s \ {x})
        BY <1>1, <2>3, <4>1
      <4> QED
        BY <4>2 DEF HasMax
    <3>2. x \in Int /\ m \in Int /\ \A i \in s : i \in Int
      OBVIOUS
    <3>3. CASE x >= m
      BY <2>1, <3>1, <3>2, <3>3 DEF HasMax
    <3>4. CASE m >= x
      BY <3>1, <3>2, <3>4 DEF HasMax
    <3> QED
      BY <3>2, <3>3, <3>4
  <2> QED
    BY <2>1, <2>2, <2>3
<1> HIDE DEF Good
<1>2. S \in Good
  BY <1>1, SubsetInduction
<1> QED
  BY <1>2 DEF Good

\* Two functions agree on every subset of S; and on each subset on whose proper subsets they do.
Agree(g, h, S) == \A s \in SUBSET S : g[s] = h[s]
AgreeInTurn(g, h, S) ==
    \A s \in SUBSET S : (\A r \in SUBSET s : r # s => g[r] = h[r]) => g[s] = h[s]

\* Functions that agree on a set when they agree on its proper subsets are equal.
LEMMA SubsetUnique ==
    ASSUME NEW S, IsFiniteSet(S), NEW g, NEW h, AgreeInTurn(g, h, S)
    PROVE  Agree(g, h, S)
<1> DEFINE Good == {s \in SUBSET S : g[s] = h[s]}
<1>1. \A s \in SUBSET S : (\A r \in SUBSET s : r # s => r \in Good) => s \in Good
  BY DEF AgreeInTurn
<1> HIDE DEF Good
<1>2. \A s \in SUBSET S : s \in Good
  BY <1>1, SubsetInduction
<1> QED
  BY <1>2 DEF Good, Agree

\* What a fold over S starting from base is: pick says which element of a set comes last, and
\* does[<<x, v>>] what x does to the value v the others have come to.
FoldAt(g, base, pick, does, s) ==
    g[s] = IF s = {} THEN base ELSE does[<<pick[s], g[s \ {pick[s]}]>>]
IsFold(g, base, pick, does, S) == \A s \in SUBSET S : FoldAt(g, base, pick, does, s)
HasFold(base, pick, does, S, V) == \E g \in [SUBSET S -> V] : IsFold(g, base, pick, does, S)
Picks(pick, S) == \A s \in SUBSET S : s # {} => pick[s] \in s

\* There is one fold of what it is made of.
LEMMA FoldUnique ==
    ASSUME NEW S, IsFiniteSet(S), NEW base, NEW pick, NEW does,
           Picks(pick, S), NEW g, IsFold(g, base, pick, does, S), NEW h, IsFold(h, base, pick, does, S)
    PROVE  Agree(g, h, S)
<1>1. ASSUME NEW s \in SUBSET S, \A r \in SUBSET s : r # s => g[r] = h[r]
      PROVE  g[s] = h[s]
  <2>1. CASE s = {}
    BY <2>1 DEF IsFold, FoldAt
  <2>2. CASE s # {}
    <3>1. pick[s] \in s
      BY <2>2 DEF Picks
    <3>2. s \ {pick[s]} \in SUBSET s /\ s \ {pick[s]} # s
      BY <3>1
    <3>3. g[s \ {pick[s]}] = h[s \ {pick[s]}]
      BY <1>1, <3>2
    <3> QED
      BY <2>2, <3>3 DEF IsFold, FoldAt
  <2> QED
    BY <2>1, <2>2
<1> QED
  BY <1>1, SubsetUnique DEF AgreeInTurn

\* A fold exists, and its values are of the type of the operation's.
LEMMA FoldExists ==
    ASSUME NEW S, IsFiniteSet(S), NEW V, NEW base \in V, NEW pick, NEW does \in [S \X V -> V],
           Picks(pick, S)
    PROVE  HasFold(base, pick, does, S, V)
<1> DEFINE Fold(s, g) == g \in [SUBSET s -> V] /\ IsFold(g, base, pick, does, s)
           Good == {s \in SUBSET S : \E g : Fold(s, g)}
<1>1. ASSUME NEW s \in SUBSET S, \A r \in SUBSET s : r # s => r \in Good
      PROVE  s \in Good
  <2> DEFINE of[r \in SUBSET s] == CHOOSE g : Fold(r, g)
             f == [r \in SUBSET s |-> IF r # s THEN of[r][r]
                                      ELSE IF s = {} THEN base
                                      ELSE does[<<pick[s], of[s \ {pick[s]}][s \ {pick[s]}]>>]]
  <2>1. \A r \in SUBSET s : r # s => Fold(r, of[r])
    BY <1>1
  <2> HIDE DEF of
  <2>2. ASSUME NEW r \in SUBSET s, r # s, NEW q \in SUBSET r PROVE of[r][q] = of[q][q]
    <3>1. Fold(r, of[r]) /\ Fold(q, of[q])
      BY <2>1, <2>2
    <3>2. IsFiniteSet(q)
      BY FS_Subset
    <3>3. IsFold(of[r], base, pick, does, q) /\ IsFold(of[q], base, pick, does, q)
      BY <3>1 DEF IsFold
    <3>4. Picks(pick, q)
      BY DEF Picks
    <3>5. Agree(of[r], of[q], q)
      BY <3>2, <3>3, <3>4, FoldUnique
    <3> QED
      BY <3>5 DEF Agree
  <2>3. \A r \in SUBSET s : f[r] \in V
    <3>1. ASSUME NEW r \in SUBSET s, r # s PROVE of[r][r] \in V
      <4>1. of[r] \in [SUBSET r -> V]
        BY <2>1, <3>1
      <4>2. r \in SUBSET r
        OBVIOUS
      <4> QED
        BY <4>1, <4>2
    <3>2. ASSUME s # {} PROVE does[<<pick[s], of[s \ {pick[s]}][s \ {pick[s]}]>>] \in V
      <4>1. pick[s] \in s /\ pick[s] \in S
        BY <3>2 DEF Picks
      <4>2. of[s \ {pick[s]}][s \ {pick[s]}] \in V
        BY <3>1, <4>1
      <4> QED
        BY <4>1, <4>2
    <3> QED
      BY <3>1, <3>2
  <2>4. ASSUME NEW r \in SUBSET s PROVE FoldAt(f, base, pick, does, r)
    <3>1. CASE r = {}
      <4>1. r # s => of[r][r] = base
        BY <2>1, <3>1 DEF IsFold, FoldAt
      <4> QED
        BY <3>1, <4>1 DEF FoldAt
    <3>2. CASE r # {}
      <4> DEFINE q == r \ {pick[r]}
      <4>1. pick[r] \in r /\ q \in SUBSET r /\ q \in SUBSET s /\ q # s
        BY <3>2 DEF Picks
      <4>2. f[q] = of[q][q]
        BY <4>1
      <4>3. CASE r # s
        <5>1. of[r][r] = does[<<pick[r], of[r][q]>>]
          BY <2>1, <3>2, <4>3 DEF IsFold, FoldAt
        <5>2. of[r][q] = of[q][q]
          BY <2>2, <4>1, <4>3
        <5> QED
          BY <3>2, <4>2, <4>3, <5>1, <5>2 DEF FoldAt
      <4>4. CASE r = s
        BY <3>2, <4>2, <4>4 DEF FoldAt
      <4> QED
        BY <4>3, <4>4
    <3> QED
      BY <3>1, <3>2
  <2>5. f \in [SUBSET s -> V]
    BY <2>3
  <2>6. IsFold(f, base, pick, does, s)
    BY <2>4 DEF IsFold
  <2> HIDE DEF f
  <2> QED
    BY <2>5, <2>6
<1>2. \A s \in SUBSET S : s \in Good
  <2> HIDE DEF Good
  <2> QED
    BY <1>1, SubsetInduction
<1>3. S \in Good
  BY <1>2
<1> QED
  BY <1>3 DEF HasFold

------------------------------------------------------------------------------
(* Sums                                                                    *)

\* g is the sum of the weights w over each subset of S.
IsSum(g, w, S) ==
    /\ g \in [SUBSET S -> Int] /\ g[{}] = 0
    /\ \A s \in SUBSET S : \A x \in s : g[s] = w[x] + g[s \ {x}]

\* A fold that adds the weights up is the sum of them, whatever it picks first.
LEMMA SumOfFold ==
    ASSUME NEW S, IsFiniteSet(S), NEW w \in [S -> Int], NEW pick, NEW does, Picks(pick, S),
           \A p \in S \X Int : does[p] = w[p[1]] + p[2],
           NEW g \in [SUBSET S -> Int], IsFold(g, 0, pick, does, S)
    PROVE  IsSum(g, w, S)
<1> DEFINE Good == {s \in SUBSET S : \A x \in s : g[s] = w[x] + g[s \ {x}]}
<1>0. \A s \in SUBSET S : g[s] \in Int
  OBVIOUS
<1>1. ASSUME NEW s \in SUBSET S, \A r \in SUBSET s : r # s => r \in Good PROVE s \in Good
  <2> SUFFICES ASSUME NEW x \in s PROVE g[s] = w[x] + g[s \ {x}]
    OBVIOUS
  <2> DEFINE p == pick[s]
  <2>1. p \in s /\ s # {}
    BY DEF Picks
  <2>2. g[s] = w[p] + g[s \ {p}]
    <3>1. g[s] = does[<<p, g[s \ {p}]>>]
      BY <2>1 DEF IsFold, FoldAt
    <3>2. <<p, g[s \ {p}]>> \in S \X Int
      BY <2>1
    <3> QED
      BY <3>1, <3>2
  <2>3. CASE x = p
    BY <2>2, <2>3
  <2>4. CASE x # p
    <3>1. s \ {p} \in SUBSET s /\ s \ {p} # s /\ x \in s \ {p}
      BY <2>1, <2>4
    <3>2. s \ {x} \in SUBSET s /\ s \ {x} # s /\ p \in s \ {x}
      BY <2>1, <2>4
    <3>3. g[s \ {p}] = w[x] + g[(s \ {p}) \ {x}]
      BY <1>1, <3>1
    <3>4. g[s \ {x}] = w[p] + g[(s \ {x}) \ {p}]
      BY <1>1, <3>2
    <3>5. (s \ {p}) \ {x} = (s \ {x}) \ {p}
      OBVIOUS
    <3>6. w[x] \in Int /\ w[p] \in Int /\ g[(s \ {x}) \ {p}] \in Int
      BY <2>1, <1>0
    <3>7. g[s] = w[p] + (w[x] + g[(s \ {x}) \ {p}]) /\ g[s \ {x}] = w[p] + g[(s \ {x}) \ {p}]
      BY <2>2, <3>3, <3>4, <3>5
    <3>8. \A k, m, n \in Int : k + (m + n) = m + (k + n)
      OBVIOUS
    <3> QED
      BY <3>6, <3>7, <3>8
  <2> QED
    BY <2>3, <2>4
<1> HIDE DEF Good
<1>2. \A s \in SUBSET S : s \in Good
  BY <1>1, SubsetInduction
<1>3. g[{}] = 0
  BY DEF IsFold, FoldAt
<1> QED
  BY <1>2, <1>3 DEF IsSum, Good

\* From each of its subsets on, a sum has grown by as many as were put in, or more.
GrowsTo(g, t) == \A s \in SUBSET t : g[s] + Cardinality(t) - Cardinality(s) <= g[t]

\* With weights of one or more a sum grows at least as fast as its set.
LEMMA SumGrows ==
    ASSUME NEW S, IsFiniteSet(S), NEW w \in [S -> Int], \A x \in S : w[x] >= 1,
           NEW g, IsSum(g, w, S)
    PROVE  \A t \in SUBSET S : GrowsTo(g, t)
<1> DEFINE Good == {t \in SUBSET S : GrowsTo(g, t)}
<1>1. ASSUME NEW t \in SUBSET S, \A r \in SUBSET t : r # t => r \in Good PROVE t \in Good
  <2> SUFFICES ASSUME NEW s \in SUBSET t PROVE g[s] + Cardinality(t) - Cardinality(s) <= g[t]
    BY DEF GrowsTo
  <2>1. IsFiniteSet(t) /\ Cardinality(t) \in Nat /\ g[t] \in Int
    BY FS_Subset, FS_CardinalityType DEF IsSum
  <2>2. IsFiniteSet(s) /\ Cardinality(s) \in Nat /\ g[s] \in Int
    BY <2>1, FS_Subset, FS_CardinalityType DEF IsSum
  <2>3. CASE s = t
    BY <2>1, <2>3
  <2>4. CASE s # t
    <3>1. PICK x \in t : x \notin s
      BY <2>4
    <3>2. t \ {x} \in SUBSET t /\ t \ {x} # t /\ s \in SUBSET (t \ {x})
      BY <3>1
    <3>3. GrowsTo(g, t \ {x})
      BY <1>1, <3>2
    <3>4. g[s] + Cardinality(t \ {x}) - Cardinality(s) <= g[t \ {x}]
      BY <3>2, <3>3 DEF GrowsTo
    <3>5. Cardinality(t \ {x}) = Cardinality(t) - 1
      BY <2>1, FS_RemoveElement
    <3>6. g[t] = w[x] + g[t \ {x}] /\ g[t \ {x}] \in Int /\ w[x] >= 1 /\ w[x] \in Int
      BY <3>2 DEF IsSum
    <3> QED
      BY <2>1, <2>2, <3>4, <3>5, <3>6
  <2> QED
    BY <2>3, <2>4
<1> HIDE DEF Good
<1>2. \A t \in SUBSET S : t \in Good
  BY <1>1, SubsetInduction
<1> QED
  BY <1>2 DEF Good

\* A sum is no less than any of its terms.
LEMMA SumHasTerm ==
    ASSUME NEW S, IsFiniteSet(S), NEW w \in [S -> Int], \A x \in S : w[x] >= 1,
           NEW g, IsSum(g, w, S), NEW t \in SUBSET S, NEW x \in t
    PROVE  g[t] \in Int /\ w[x] <= g[t]
<1>1. t \ {x} \in SUBSET S /\ {} \in SUBSET (t \ {x})
  OBVIOUS
<1>2. GrowsTo(g, t \ {x})
  BY <1>1, SumGrows
<1>3. g[{}] + Cardinality(t \ {x}) - Cardinality({}) <= g[t \ {x}]
  BY <1>1, <1>2 DEF GrowsTo
<1>4. Cardinality({}) = 0 /\ IsFiniteSet(t \ {x}) /\ Cardinality(t \ {x}) \in Nat
  BY <1>1, FS_Subset, FS_EmptySet, FS_CardinalityType
<1>5. g[t] = w[x] + g[t \ {x}] /\ g[t \ {x}] \in Int /\ g[{}] = 0 /\ g[t] \in Int /\ w[x] \in Int
  BY <1>1 DEF IsSum
<1> QED
  BY <1>3, <1>4, <1>5
================================================================================
