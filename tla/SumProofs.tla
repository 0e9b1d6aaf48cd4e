------------------------------ MODULE SumProofs ------------------------------
(***************************************************************************)
(* Facts about finite sets that several proofs need: what SumFunctionOnSet *)
(* returns, and that SetToSeq leaves nothing out.  Induction is over a set *)
(* of subsets, by the least number principle, because the library's        *)
(* induction theorems take an operator as a parameter.                     *)
(***************************************************************************)
EXTENDS Integers, SequencesExt, FiniteSetTheorems, WellFoundedInduction, TLAPS

LEMMA LeastNumber ==
  ASSUME NEW T \in SUBSET Nat, T # {}
  PROVE  \E n \in T : \A m \in T : n <= m
  <1> DEFINE R == OpToRel(<, Nat)
  <1>1. \A m, n \in Nat : m < n => <<m, n>> \in R
    BY DEF OpToRel
  <1>2. IsWellFoundedOn(R, Nat)
    BY NatLessThanWellFounded
  <1> HIDE DEF R
  <1>3. PICK n \in T : \A m \in T : ~(<<m, n>> \in R)
    BY <1>2, WFMin
  <1>4. ASSUME NEW m \in T
        PROVE  n <= m
    <2>1. ~(m < n)
      BY <1>1, <1>3
    <2> QED
      BY <2>1
  <1> QED
    BY <1>4

\* Induction on the number of elements, for a set B of subsets of S.
LEMMA SubsetInduction ==
  ASSUME NEW S, IsFiniteSet(S), NEW B,
         \A T \in SUBSET S : (\A U \in SUBSET T : U # T => U \in B) => T \in B
  PROVE  SUBSET S \subseteq B
  <1> DEFINE Sizes == {Cardinality(T) : T \in (SUBSET S) \ B}
  <1>1. \A T \in SUBSET S : IsFiniteSet(T) /\ Cardinality(T) \in Nat
    BY FS_Subset, FS_CardinalityType
  <1> SUFFICES ASSUME Sizes # {} PROVE FALSE
    OBVIOUS
  <1>2. PICK n \in Sizes : \A m \in Sizes : n <= m
    <2>1. Sizes \in SUBSET Nat
      BY <1>1
    <2> HIDE DEF Sizes
    <2> QED
      BY <2>1, LeastNumber
  <1>3. PICK T \in (SUBSET S) \ B : n = Cardinality(T)
    BY <1>2
  <1>4. ASSUME NEW U \in SUBSET T, U # T
        PROVE  U \in B
    <2>1. Cardinality(U) < Cardinality(T)
      BY <1>1, <1>4, FS_Subset
    <2>2. U \notin B => Cardinality(U) \in Sizes
      BY <1>3
    <2>3. n \in Nat /\ Cardinality(U) \in Nat
      BY <1>1, <1>3
    <2> HIDE DEF Sizes
    <2> QED
      BY <1>2, <1>3, <2>1, <2>2, <2>3
  <1> QED
    BY <1>3, <1>4
-----------------------------------------------------------------------------
\* The recursion of the fold over the subsets of S.
Pick(s) == CHOOSE x \in s : TRUE

IsFold(g, f, S) ==
  g = [s \in SUBSET S |-> IF s = {} THEN 0 ELSE f[Pick(s)] + g[s \ {Pick(s)}]]

LEMMA PickIn == \A s : s # {} => Pick(s) \in s
  BY DEF Pick

LEMMA SumIs ==
  ASSUME NEW f, NEW S
  PROVE  SumFunctionOnSet(f, S) = (CHOOSE g : IsFold(g, f, S))[S]
  BY DEF SumFunctionOnSet, FoldFunctionOnSet, MapThenFoldSet, IsFold, Pick

\* The sums over fewer than all elements determine the sum over all.
LEMMA FoldUnique ==
  ASSUME NEW S, IsFiniteSet(S), NEW f, NEW g, NEW h, IsFold(g, f, S), IsFold(h, f, S)
  PROVE  g = h
  <1> DEFINE B == {T \in SUBSET S : g[T] = h[T]}
  <1>1. ASSUME NEW T \in SUBSET S, \A U \in SUBSET T : U # T => U \in B
        PROVE  T \in B
    <2>1. T # {} => T \ {Pick(T)} \in SUBSET T /\ T \ {Pick(T)} # T
      BY PickIn
    <2> QED
      BY <1>1, <2>1 DEF IsFold
  <1>2. SUBSET S \subseteq B
    <2> HIDE DEF B
    <2> QED
      BY <1>1, SubsetInduction
  <1> QED
    BY <1>2 DEF IsFold

LEMMA FoldExists ==
  ASSUME NEW S, IsFiniteSet(S), NEW f
  PROVE  \E g : IsFold(g, f, S)
  <1> DEFINE B == {T \in SUBSET S : \E g : IsFold(g, f, T)}
  <1>1. ASSUME NEW T \in SUBSET S, \A U \in SUBSET T : U # T => U \in B
        PROVE  T \in B
    <2> DEFINE h(U) == (CHOOSE g : IsFold(g, f, U))[U]
               g == [s \in SUBSET T |-> IF s = {} THEN 0 ELSE f[Pick(s)] + h(s \ {Pick(s)})]
    <2>1. \A s \in SUBSET T : IsFiniteSet(s) /\ s \in SUBSET S
      BY FS_Subset
    <2>2. ASSUME NEW U \in SUBSET T, U # T
          PROVE  IsFold(CHOOSE k : IsFold(k, f, U), f, U)
      BY <1>1, <2>2
    <2>3. ASSUME NEW s \in SUBSET T, s # T
          PROVE  g[s] = h(s)
      <3> DEFINE k == CHOOSE r : IsFold(r, f, s)
                 p == s \ {Pick(s)}
      <3>1. IsFold(k, f, s)
        BY <2>2, <2>3
      <3>2. CASE s = {}
        BY <3>1, <3>2 DEF IsFold
      <3>3. CASE s # {}
        <4>1. p \in SUBSET s /\ p \in SUBSET T /\ p # T /\ Pick(s) \in s
          BY <2>3, <3>3, PickIn
        <4> DEFINE q == CHOOSE r : IsFold(r, f, p)
                   r == [u \in SUBSET p |-> k[u]]
        <4>2. IsFold(q, f, p)
          BY <2>2, <4>1
        <4>3. \A u \in SUBSET p : k[u] = IF u = {} THEN 0 ELSE f[Pick(u)] + k[u \ {Pick(u)}]
          BY <3>1, <4>1 DEF IsFold
        <4>4. IsFold(r, f, p)
          <5> HIDE DEF k, p
          <5> QED
            BY <4>3 DEF IsFold
        <4>5. q = r
          <5> HIDE DEF q, r, p
          <5> QED
            BY <2>1, <4>1, <4>2, <4>4, FoldUnique
        <4>6. k[s] = f[Pick(s)] + k[p]
          BY <3>1, <3>3 DEF IsFold
        <4>7. h(p) = k[p]
          BY <4>5
        <4> QED
          BY <3>3, <4>6, <4>7
      <3> QED
        BY <3>2, <3>3
    <2>4. ASSUME NEW s \in SUBSET T
          PROVE  g[s] = IF s = {} THEN 0 ELSE f[Pick(s)] + g[s \ {Pick(s)}]
      <3>1. s # {} => s \ {Pick(s)} \in SUBSET T /\ s \ {Pick(s)} # T
        BY PickIn
      <3> HIDE DEF h
      <3> QED
        BY <2>3, <3>1
    <2>5. IsFold(g, f, T)
      <3> HIDE DEF h
      <3> QED
        BY <2>4 DEF IsFold
    <2> QED
      BY <2>5
  <1>2. SUBSET S \subseteq B
    <2> HIDE DEF B
    <2> QED
      BY <1>1, SubsetInduction
  <1> QED
    BY <1>2
-----------------------------------------------------------------------------
\* What SumFunctionOnSet returns.

LEMMA SumUnfolds ==
  ASSUME NEW S, IsFiniteSet(S), NEW f
  PROVE  SumFunctionOnSet(f, S)
           = IF S = {} THEN 0 ELSE f[Pick(S)] + SumFunctionOnSet(f, S \ {Pick(S)})
  <1> DEFINE g == CHOOSE k : IsFold(k, f, S)
             T == S \ {Pick(S)}
             h == CHOOSE k : IsFold(k, f, T)
             r == [u \in SUBSET T |-> g[u]]
  <1>1. IsFold(g, f, S) /\ SumFunctionOnSet(f, S) = g[S]
    BY FoldExists, SumIs
  <1>2. IsFiniteSet(T) /\ T \in SUBSET S
    BY FS_Subset
  <1>3. IsFold(h, f, T) /\ SumFunctionOnSet(f, T) = h[T]
    BY <1>2, FoldExists, SumIs
  <1>4. IsFold(r, f, T)
    <2>1. \A u \in SUBSET T : g[u] = IF u = {} THEN 0 ELSE f[Pick(u)] + g[u \ {Pick(u)}]
      BY <1>1, <1>2 DEF IsFold
    <2> HIDE DEF g, T
    <2> QED
      BY <2>1 DEF IsFold
  <1>5. h = r
    <2> HIDE DEF h, r, T
    <2> QED
      BY <1>2, <1>3, <1>4, FoldUnique
  <1>6. g[S] = IF S = {} THEN 0 ELSE f[Pick(S)] + g[T]
    BY <1>1 DEF IsFold
  <1>7. SumFunctionOnSet(f, T) = g[T]
    BY <1>3, <1>5
  <1> HIDE DEF g, h, r
  <1> QED
    BY <1>1, <1>6, <1>7

LEMMA SumEmpty ==
  ASSUME NEW f
  PROVE  SumFunctionOnSet(f, {}) = 0
  BY FS_EmptySet, SumUnfolds

LEMMA SumInteger ==
  ASSUME NEW S, IsFiniteSet(S), NEW f, \A x \in S : f[x] \in Int
  PROVE  SumFunctionOnSet(f, S) \in Int
  <1> DEFINE B == {T \in SUBSET S : SumFunctionOnSet(f, T) \in Int}
  <1>1. ASSUME NEW T \in SUBSET S, \A U \in SUBSET T : U # T => U \in B
        PROVE  T \in B
    <2>1. IsFiniteSet(T)
      BY FS_Subset
    <2>2. T # {} => SumFunctionOnSet(f, T \ {Pick(T)}) \in Int /\ f[Pick(T)] \in Int
      BY <1>1, PickIn
    <2>3. T # {} => SumFunctionOnSet(f, T) = f[Pick(T)] + SumFunctionOnSet(f, T \ {Pick(T)})
      BY <2>1, SumUnfolds
    <2>4. T = {} => SumFunctionOnSet(f, T) = 0
      BY SumEmpty
    <2>5. SumFunctionOnSet(f, T) \in Int
      BY <2>2, <2>3, <2>4
    <2> QED
      BY <2>5
  <1> HIDE DEF B
  <1>2. SUBSET S \subseteq B
    BY <1>1, SubsetInduction
  <1> QED
    BY <1>2 DEF B

\* Any element may be taken first.
LEMMA SumRemove ==
  ASSUME NEW S, IsFiniteSet(S), NEW f, \A x \in S : f[x] \in Int, NEW a \in S
  PROVE  SumFunctionOnSet(f, S) = f[a] + SumFunctionOnSet(f, S \ {a})
  <1> DEFINE Sum(T) == SumFunctionOnSet(f, T)
             B == {T \in SUBSET S : \A x \in T : Sum(T) = f[x] + Sum(T \ {x})}
  <1>1. ASSUME NEW T \in SUBSET S, \A U \in SUBSET T : U # T => U \in B, NEW x \in T
        PROVE  Sum(T) = f[x] + Sum(T \ {x})
    <2> DEFINE p == Pick(T)
    <2>1. p \in T /\ f[p] \in Int /\ f[x] \in Int
      BY PickIn
    <2>2. \A U \in SUBSET T : IsFiniteSet(U) /\ Sum(U) \in Int
      BY FS_Subset, SumInteger
    <2>3. Sum(T) = f[p] + Sum(T \ {p})
      BY <2>1, <2>2, SumUnfolds
    <2> HIDE DEF p, Sum
    <2>4. CASE x = p
      BY <2>3, <2>4
    <2>5. CASE x # p
      <3>1. T \ {p} \in B /\ x \in T \ {p} /\ T \ {x} \in B /\ p \in T \ {x}
        BY <1>1, <2>1, <2>5
      <3>2. Sum(T \ {p}) = f[x] + Sum((T \ {p}) \ {x}) /\ Sum(T \ {x}) = f[p] + Sum((T \ {x}) \ {p})
        BY <3>1
      <3>3. (T \ {p}) \ {x} = (T \ {x}) \ {p}
        OBVIOUS
      <3> DEFINE v == Sum((T \ {x}) \ {p})
      <3>4. v \in Int
        BY <2>2
      <3>5. Sum(T) = f[p] + (f[x] + v) /\ Sum(T \ {x}) = f[p] + v
        BY <2>3, <3>2, <3>3
      <3> HIDE DEF v
      <3> QED
        BY <2>1, <3>4, <3>5
    <2> QED
      BY <2>4, <2>5
  <1>2. \A T \in SUBSET S : (\A U \in SUBSET T : U # T => U \in B) => T \in B
    BY <1>1
  <1> HIDE DEF B
  <1>3. SUBSET S \subseteq B
    BY <1>2, SubsetInduction
  <1> QED
    BY <1>3 DEF B

LEMMA SumSame ==
  ASSUME NEW S, IsFiniteSet(S), NEW f, NEW g, \A x \in S : f[x] = g[x]
  PROVE  SumFunctionOnSet(f, S) = SumFunctionOnSet(g, S)
  <1> DEFINE B == {T \in SUBSET S : SumFunctionOnSet(f, T) = SumFunctionOnSet(g, T)}
  <1>1. ASSUME NEW T \in SUBSET S, \A U \in SUBSET T : U # T => U \in B
        PROVE  T \in B
    <2>1. IsFiniteSet(T)
      BY FS_Subset
    <2>2. T # {} => T \ {Pick(T)} \in B /\ f[Pick(T)] = g[Pick(T)]
      BY <1>1, PickIn
    <2> QED
      BY <2>1, <2>2, SumUnfolds
  <1> HIDE DEF B
  <1>2. SUBSET S \subseteq B
    BY <1>1, SubsetInduction
  <1> QED
    BY <1>2 DEF B

\* Replacing one value changes the sum by the difference.
LEMMA SumUpdate ==
  ASSUME NEW S, IsFiniteSet(S), NEW f, NEW g, NEW a \in S, \A x \in S : f[x] \in Int /\ g[x] \in Int,
         \A x \in S \ {a} : f[x] = g[x]
  PROVE  SumFunctionOnSet(g, S) = SumFunctionOnSet(f, S) - f[a] + g[a]
  <1>1. IsFiniteSet(S \ {a})
    BY FS_Subset
  <1>2. SumFunctionOnSet(g, S \ {a}) = SumFunctionOnSet(f, S \ {a})
    BY <1>1, SumSame
  <1>3. SumFunctionOnSet(f, S \ {a}) \in Int
    BY <1>1, SumInteger
  <1> QED
    BY <1>2, <1>3, SumRemove

LEMMA SumZero ==
  ASSUME NEW S, IsFiniteSet(S), NEW f, \A x \in S : f[x] = 0
  PROVE  SumFunctionOnSet(f, S) = 0
  <1> DEFINE B == {T \in SUBSET S : SumFunctionOnSet(f, T) = 0}
  <1>1. ASSUME NEW T \in SUBSET S, \A U \in SUBSET T : U # T => U \in B
        PROVE  T \in B
    <2>1. IsFiniteSet(T)
      BY FS_Subset
    <2>2. T # {} => T \ {Pick(T)} \in B /\ f[Pick(T)] = 0
      BY <1>1, PickIn
    <2> QED
      BY <2>1, <2>2, SumUnfolds
  <1> HIDE DEF B
  <1>2. SUBSET S \subseteq B
    BY <1>1, SubsetInduction
  <1> QED
    BY <1>2 DEF B

\* Fewer summands, none negative: no larger sum.
LEMMA SumMonotone ==
  ASSUME NEW S, IsFiniteSet(S), NEW f, \A x \in S : f[x] \in Nat, NEW R \in SUBSET S
  PROVE  SumFunctionOnSet(f, R) \in Nat /\ SumFunctionOnSet(f, R) <= SumFunctionOnSet(f, S)
  <1> DEFINE Sum(T) == SumFunctionOnSet(f, T)
             B == {T \in SUBSET S : \A U \in SUBSET T : Sum(U) \in Nat /\ Sum(U) <= Sum(T)}
  <1>1. ASSUME NEW T \in SUBSET S, \A U \in SUBSET T : U # T => U \in B, NEW U \in SUBSET T
        PROVE  Sum(U) \in Nat /\ Sum(U) <= Sum(T)
    <2>1. IsFiniteSet(T)
      BY FS_Subset
    <2>2. CASE T = {}
      BY <2>2, SumEmpty
    <2>3. CASE T # {} /\ U = T
      <3>1. Pick(T) \in T /\ f[Pick(T)] \in Nat /\ T \ {Pick(T)} \in B
        BY <1>1, <2>3, PickIn
      <3>2. Sum(T \ {Pick(T)}) \in Nat
        BY <3>1
      <3>3. Sum(T) = f[Pick(T)] + Sum(T \ {Pick(T)})
        BY <2>1, <2>3, SumUnfolds
      <3> HIDE DEF Sum
      <3> QED
        BY <2>3, <3>1, <3>2, <3>3
    <2>4. CASE U # T
      <3>1. PICK a \in T : a \notin U
        BY <2>4
      <3>2. T \ {a} \in B /\ U \in SUBSET (T \ {a}) /\ f[a] \in Nat
        BY <1>1, <3>1
      <3>3. Sum(U) \in Nat /\ Sum(U) <= Sum(T \ {a}) /\ Sum(T \ {a}) \in Nat
        BY <3>2
      <3>4. Sum(T) = f[a] + Sum(T \ {a})
        BY <2>1, SumRemove
      <3> HIDE DEF Sum
      <3> QED
        BY <3>2, <3>3, <3>4
    <2> QED
      BY <2>2, <2>3, <2>4
  <1>2. \A T \in SUBSET S : (\A U \in SUBSET T : U # T => U \in B) => T \in B
    BY <1>1
  <1> HIDE DEF B
  <1>3. SUBSET S \subseteq B
    BY <1>2, SubsetInduction
  <1> QED
    BY <1>3 DEF B


\* The sums after an element joins, leaves or stays away.
LEMMA SumAdd ==
  ASSUME NEW S, IsFiniteSet(S), NEW a, a \notin S, NEW f, NEW g,
         \A x \in S : f[x] \in Int /\ g[x] = f[x], g[a] \in Int
  PROVE  SumFunctionOnSet(g, S \cup {a}) = SumFunctionOnSet(f, S) + g[a]
  <1>1. IsFiniteSet(S \cup {a}) /\ (S \cup {a}) \ {a} = S
    BY FS_AddElement
  <1>2. \A x \in S \cup {a} : g[x] \in Int
    OBVIOUS
  <1>3. SumFunctionOnSet(g, S \cup {a}) = g[a] + SumFunctionOnSet(g, (S \cup {a}) \ {a})
    BY <1>1, <1>2, SumRemove
  <1>4. SumFunctionOnSet(g, S) = SumFunctionOnSet(f, S)
    BY SumSame
  <1>5. SumFunctionOnSet(f, S) \in Int
    BY SumInteger
  <1>6. SumFunctionOnSet(g, (S \cup {a}) \ {a}) = SumFunctionOnSet(g, S)
    BY <1>1, Zenon
  <1> HIDE <1>1, <1>2
  <1>7. SumFunctionOnSet(g, S \cup {a}) = g[a] + SumFunctionOnSet(f, S)
    BY <1>3, <1>4, <1>6, Zenon
  <1> QED
    BY <1>5, <1>7

LEMMA SumLess ==
  ASSUME NEW S, IsFiniteSet(S), NEW R \in SUBSET S, NEW f, NEW g,
         \A x \in S : f[x] \in Nat, \A x \in R : g[x] = f[x]
  PROVE  /\ SumFunctionOnSet(g, R) \in Nat /\ SumFunctionOnSet(f, S) \in Nat
         /\ SumFunctionOnSet(g, R) <= SumFunctionOnSet(f, S)
  <1>1. SumFunctionOnSet(g, R) = SumFunctionOnSet(f, R)
    <2> IsFiniteSet(R)
      BY FS_Subset
    <2> QED
      BY SumSame
  <1>2. SumFunctionOnSet(f, R) \in Nat /\ SumFunctionOnSet(f, R) <= SumFunctionOnSet(f, S)
    BY SumMonotone
  <1>3. SumFunctionOnSet(f, S) \in Nat
    BY SumMonotone
  <1> QED
    BY <1>1, <1>2, <1>3

LEMMA SumDrop ==
  ASSUME NEW S, IsFiniteSet(S), NEW a \in S, NEW f, NEW g,
         \A x \in S : f[x] \in Nat, \A x \in S \ {a} : g[x] = f[x]
  PROVE  /\ SumFunctionOnSet(g, S \ {a}) = SumFunctionOnSet(f, S) - f[a]
         /\ SumFunctionOnSet(g, S \ {a}) \in Nat
  <1>1. SumFunctionOnSet(f, S) = f[a] + SumFunctionOnSet(f, S \ {a})
    BY SumRemove
  <1>2. SumFunctionOnSet(g, S \ {a}) = SumFunctionOnSet(f, S \ {a})
    <2> IsFiniteSet(S \ {a})
      BY FS_Subset
    <2> QED
      BY SumSame
  <1>3. SumFunctionOnSet(f, S \ {a}) \in Nat
    BY SumMonotone
  <1> QED
    BY <1>1, <1>2, <1>3

\* A sequence made of a finite set has every element.
LEMMA SetToSeqCovers ==
  ASSUME NEW S, IsFiniteSet(S)
  PROVE  /\ SetToSeq(S) \in Seq(S)
         /\ \A x \in S : \E i \in 1 .. Len(SetToSeq(S)) : SetToSeq(S)[i] = x
  <1> DEFINE n == Cardinality(S)
             f == SetToSeq(S)
  <1>1. n \in Nat /\ ExistsBijection(1 .. n, S)
    BY FS_CardinalityType
  <1>2. PICK g : g \in Bijection(1 .. n, S)
    BY <1>1 DEF ExistsBijection
  <1>3. g \in [1 .. n -> S] /\ IsInjective(g)
    BY <1>2 DEF Bijection, Injection
  <1>4. f \in [1 .. n -> S] /\ IsInjective(f)
    BY <1>3 DEF SetToSeq
  <1>5. f \in Injection(1 .. n, S)
    BY <1>4 DEF Injection
  <1>6. Cardinality(1 .. n) = n
    BY <1>1, FS_Interval
  <1> HIDE DEF f
  <1>7. f \in Surjection(1 .. n, S)
    BY <1>5, <1>6, FS_Injection
  <1>8. f \in Seq(S) /\ Len(f) = n
    BY <1>1, <1>4
  <1> QED
    BY <1>7, <1>8 DEF Surjection, f
-----------------------------------------------------------------------------
\* Steps.
==============================================================================
