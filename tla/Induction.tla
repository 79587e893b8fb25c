------------------------------ MODULE Induction ------------------------------
(***************************************************************************)
(* Induction over numbers and finite sets, as facts about sets, and what    *)
(* follows from it about the recursive functions the modules fold and sum   *)
(* with: that they exist, satisfy their equations, and what they return.    *)
(***************************************************************************)
EXTENDS Integers, FiniteSets, Functions, FiniteSetTheorems, WellFoundedInduction,
        TLAPS

(* A set of numbers that is not empty has a least one.                      *)
LEMMA LeastNatural ==
  ASSUME NEW T, T \subseteq Nat, T # {}
  PROVE  \E n \in T : \A m \in T : n <= m
<1>1. PICK n \in T : \A m \in T : ~ (<<m, n>> \in OpToRel(<, Nat))
  BY NatLessThanWellFounded, WFMin
<1>2. \A m \in T : ~ (m < n)
  BY <1>1 DEF OpToRel
<1> QED
  BY <1>2

(* A bounded one a greatest.                                                *)
LEMMA GreatestNatural ==
  ASSUME NEW N \in Nat, NEW S, S # {}, \A n \in S : n \in Nat /\ n <= N
  PROVE  \E m \in S : \A n \in S : n <= m
<1> DEFINE T == {N - n : n \in S}
<1>1. \A n \in S : N - n \in Nat /\ N - (N - n) = n
  OBVIOUS
<1>2. T \subseteq Nat /\ T # {}
  BY <1>1
<1>3. PICK m \in T : \A k \in T : m <= k
  <2> HIDE DEF T
  <2> QED
    BY <1>2, LeastNatural
<1>4. PICK k \in S : m = N - k
  BY <1>3
<1>5. ASSUME NEW n \in S PROVE n <= k
  <2>1. N - k <= N - n
    BY <1>3, <1>4
  <2>2. n \in Nat /\ k \in Nat
    OBVIOUS
  <2> HIDE DEF T
  <2> QED
    BY <2>1, <2>2
<1> QED
  BY <1>5

(* Induction from 0 to N.                                                   *)
LEMMA UpTo ==
  ASSUME NEW N \in Nat, NEW G, 0 \in G,
         \A n \in 0..(N - 1) : n \in G => n + 1 \in G
  PROVE  \A n \in 0..N : n \in G
<1> DEFINE Bad == (0..N) \ G
<1> SUFFICES ASSUME Bad # {} PROVE FALSE
  OBVIOUS
<1>1. Bad \subseteq Nat
  OBVIOUS
<1>2. PICK n \in Bad : \A m \in Bad : n <= m
  BY <1>1, LeastNatural
<1>3. n # 0 /\ n - 1 \in 0..(N - 1) /\ n - 1 \notin Bad
  BY <1>2
<1> QED
  BY <1>2, <1>3

(* Induction over the subsets of a finite set.                              *)
LEMMA SubsetInduction ==
  ASSUME NEW S, IsFiniteSet(S), NEW G,
         \A T \in SUBSET S : (\A U \in SUBSET T : U # T => U \in G) => T \in G
  PROVE  \A T \in SUBSET S : T \in G
<1> DEFINE Bad == (SUBSET S) \ G
<1> SUFFICES ASSUME Bad # {} PROVE FALSE
  OBVIOUS
<1>1. Bad \subseteq FiniteSubsetsOf(S)
  BY FS_FiniteSubsetsOfFinite
<1>2. \E T \in Bad : \A U \in Bad : ~ (<<U, T>> \in StrictSubsetOrdering(S))
  <2> HIDE DEF Bad
  <2> QED
    BY <1>1, FS_StrictSubsetOrderingWellFounded, WFMin
<1>3. PICK T \in Bad : \A U \in Bad : ~ (<<U, T>> \in StrictSubsetOrdering(S))
  BY <1>2
<1>4. PICK U \in SUBSET T : U # T /\ U \in Bad
  BY <1>3
<1>5. <<U, T>> \in StrictSubsetOrdering(S)
  BY <1>3, <1>4 DEF StrictSubsetOrdering
<1> QED
  BY <1>3, <1>4, <1>5

(***************************************************************************)
(* Sums over finite sets.                                                   *)
(***************************************************************************)
Pick(s) == CHOOSE x \in s : TRUE

(* What the recursion of a sum asks of a function on the sets in D.         *)
Summing(g, W, D) ==
  g = [s \in D |-> IF s = {} THEN 0 ELSE W[Pick(s)] + g[s \ {Pick(s)}]]

LEMMA PickIn == \A s : s # {} => Pick(s) \in s
BY DEF Pick

(* There is such a function, built up by the size of the sets.              *)
LEMMA SummingExists ==
  ASSUME NEW W, NEW S, IsFiniteSet(S)
  PROVE  \E g : Summing(g, W, SUBSET S)
<1> DEFINE Small(n) == {s \in SUBSET S : Cardinality(s) <= n}
           G == {n \in Nat : \E g : Summing(g, W, Small(n))}
           N == Cardinality(S)
<1>1. N \in Nat /\ \A s \in SUBSET S : /\ IsFiniteSet(s) /\ Cardinality(s) \in 0..N
                                       /\ Cardinality(s) = 0 <=> s = {}
  BY FS_CardinalityType, FS_Subset, FS_EmptySet
<1>2. 0 \in G
  <2> DEFINE g == [s \in Small(0) |-> 0]
  <2>1. \A s \in Small(0) : s = {}
    BY <1>1
  <2>2. Summing(g, W, Small(0))
    BY <2>1 DEF Summing
  <2> QED
    BY <2>2
<1>3. ASSUME NEW n \in 0..(N - 1), n \in G
      PROVE  n + 1 \in G
  <2>1. PICK g : Summing(g, W, Small(n))
    BY <1>3
  <2> DEFINE h == [s \in Small(n + 1) |->
                     IF s = {} THEN 0 ELSE W[Pick(s)] + g[s \ {Pick(s)}]]
  <2>2. ASSUME NEW s \in Small(n + 1), s # {}
        PROVE  s \ {Pick(s)} \in Small(n)
    <3>1. s \in SUBSET S /\ IsFiniteSet(s) /\ Cardinality(s) <= n + 1 /\ Pick(s) \in s
      BY <2>2, <1>1, PickIn
    <3>2. Cardinality(s \ {Pick(s)}) = Cardinality(s) - 1
      BY <3>1, FS_RemoveElement
    <3> QED
      BY <3>1, <3>2, <1>1
  <2>3. \A s \in Small(n) : s \in Small(n + 1)
    BY <1>1
  <2>4. \A s \in Small(n) : g[s] = h[s]
    BY <2>1, <2>3 DEF Summing
  <2>5. \A s \in Small(n + 1) : h[s] = IF s = {} THEN 0 ELSE W[Pick(s)] + h[s \ {Pick(s)}]
    <3> HIDE DEF Small
    <3> QED BY <2>2, <2>4
  <2>6. Summing(h, W, Small(n + 1))
    <3> HIDE DEF Small
    <3> QED BY <2>5 DEF Summing
  <2> HIDE DEF Small, h
  <2> QED
    BY <2>6
<1>4. N \in G
  <2> HIDE DEF G
  <2> QED BY <1>1, <1>2, <1>3, UpTo
<1>5. Small(N) = SUBSET S
  BY <1>1
<1> QED
  BY <1>4, <1>5

LEMMA SumUnfolds ==
  ASSUME NEW W, NEW S, IsFiniteSet(S)
  PROVE  \E g : Summing(g, W, SUBSET S) /\ SumFunctionOnSet(W, S) = g[S]
<1> DEFINE iter[s \in SUBSET S] ==
      IF s = {} THEN 0
      ELSE W[CHOOSE x \in s : TRUE] + iter[s \ {CHOOSE x \in s : TRUE}]
<1>1. SumFunctionOnSet(W, S) = iter[S]
  BY DEF SumFunctionOnSet, FoldFunctionOnSet, MapThenFoldSet
<1>2. \E g : Summing(g, W, SUBSET S)
  BY SummingExists
<1>3. PICK g : g = [s \in SUBSET S |->
                      IF s = {} THEN 0
                      ELSE W[CHOOSE x \in s : TRUE] + g[s \ {CHOOSE x \in s : TRUE}]]
  BY <1>2 DEF Summing, Pick
<1>4. iter = [s \in SUBSET S |->
                IF s = {} THEN 0
                ELSE W[CHOOSE x \in s : TRUE] + iter[s \ {CHOOSE x \in s : TRUE}]]
  BY <1>3
<1>5. Summing(iter, W, SUBSET S)
  BY <1>4 DEF Summing, Pick
<1> QED
  BY <1>1, <1>5

(* The recursion determines its function on every subset.                   *)
LEMMA SummingUnique ==
  ASSUME NEW W, NEW S, IsFiniteSet(S), NEW T \in SUBSET S, NEW g, NEW h,
         Summing(g, W, SUBSET S), Summing(h, W, SUBSET T)
  PROVE  \A s \in SUBSET T : g[s] = h[s]
<1> DEFINE G == {s \in SUBSET T : g[s] = h[s]}
<1>1. ASSUME NEW s \in SUBSET T, \A U \in SUBSET s : U # s => U \in G
      PROVE  s \in G
  <2>1. s # {} => s \ {Pick(s)} \in G
    BY <1>1, PickIn
  <2> QED
    BY <2>1 DEF Summing
<1>2. IsFiniteSet(T)
  BY FS_Subset
<1>3. \A s \in SUBSET T : s \in G
  <2> HIDE DEF G
  <2> QED BY <1>1, <1>2, SubsetInduction
<1> QED
  BY <1>3

LEMMA SumEmpty == \A W : SumFunctionOnSet(W, {}) = 0
<1> TAKE W
<1>1. PICK g : Summing(g, W, SUBSET {}) /\ SumFunctionOnSet(W, {}) = g[{}]
  BY SumUnfolds, FS_EmptySet
<1> QED
  BY <1>1 DEF Summing

LEMMA SumPicked ==
  ASSUME NEW W, NEW S, IsFiniteSet(S), S # {}
  PROVE  SumFunctionOnSet(W, S) = W[Pick(S)] + SumFunctionOnSet(W, S \ {Pick(S)})
<1>1. PICK g : Summing(g, W, SUBSET S) /\ SumFunctionOnSet(W, S) = g[S]
  BY SumUnfolds
<1> DEFINE T == S \ {Pick(S)}
<1>2. IsFiniteSet(T) /\ T \in SUBSET S /\ T \in SUBSET T
  BY FS_Subset
<1>3. PICK h : Summing(h, W, SUBSET T) /\ SumFunctionOnSet(W, T) = h[T]
  BY <1>2, SumUnfolds
<1>4. g[T] = h[T]
  <2> HIDE DEF T
  <2>1. \A s \in SUBSET T : g[s] = h[s]
    BY <1>1, <1>2, <1>3, SummingUnique, SMTT(60)
  <2> QED
    BY <1>2, <2>1
<1>5. g[S] = W[Pick(S)] + g[T]
  BY <1>1 DEF Summing
<1> HIDE DEF T
<1> QED
  BY <1>1, <1>3, <1>4, <1>5 DEF T

(* Whichever element is taken out first, the sum is that element and the    *)
(* rest, and an integer.                                                    *)
LEMMA SumTakesOut ==
  ASSUME NEW W, NEW S, IsFiniteSet(S), \A s \in S : W[s] \in Int
  PROVE  /\ SumFunctionOnSet(W, S) \in Int
         /\ \A x \in S : SumFunctionOnSet(W, S) = W[x] + SumFunctionOnSet(W, S \ {x})
<1> DEFINE Sum(T) == SumFunctionOnSet(W, T)
           G == {T \in SUBSET S : Sum(T) \in Int /\ \A x \in T : Sum(T) = W[x] + Sum(T \ {x})}
<1>1. ASSUME NEW T \in SUBSET S, \A U \in SUBSET T : U # T => U \in G
      PROVE  T \in G
  <2>1. CASE T = {}
    BY <2>1, SumEmpty
  <2>2. CASE T # {}
    <3> DEFINE p == Pick(T)
    <3>1. p \in T /\ IsFiniteSet(T)
      BY <2>2, PickIn, FS_Subset
    <3>2. Sum(T) = W[p] + Sum(T \ {p})
      BY <2>2, <3>1, SumPicked
    <3>3. T \ {p} \in G
      BY <1>1, <3>1
    <3>4. Sum(T) \in Int
      BY <3>1, <3>2, <3>3
    <3>5. ASSUME NEW x \in T, x # p
          PROVE  Sum(T) = W[x] + Sum(T \ {x})
      <4>1. T \ {x} \in G /\ x \in T \ {p} /\ p \in T \ {x}
        BY <1>1, <3>1, <3>5
      <4>2. (T \ {p}) \ {x} = (T \ {x}) \ {p}
        OBVIOUS
      <4>3. Sum(T \ {p}) = W[x] + Sum((T \ {p}) \ {x})
        BY <3>3, <4>1
      <4>4. Sum(T \ {x}) = W[p] + Sum((T \ {x}) \ {p}) /\ Sum(T \ {x}) \in Int
        BY <4>1
      <4>5. Sum((T \ {x}) \ {p}) \in Int /\ W[x] \in Int /\ W[p] \in Int
        BY <1>1, <3>1
      <4> HIDE DEF Sum, p
      <4>6. Sum(T) = W[p] + (W[x] + Sum((T \ {x}) \ {p}))
        BY <3>2, <4>2, <4>3
      <4> QED
        BY <4>4, <4>5, <4>6
    <3> QED
      BY <3>2, <3>4, <3>5
  <2> QED
    BY <2>1, <2>2
<1>2. \A T \in SUBSET S : T \in G
  <2> HIDE DEF G
  <2> QED BY <1>1, SubsetInduction
<1> QED
  BY <1>2

(* The sum depends on what the function is on the set.                      *)
LEMMA SumSame ==
  ASSUME NEW V, NEW W, NEW S, IsFiniteSet(S),
         \A s \in S : W[s] \in Int, \A s \in S : V[s] = W[s]
  PROVE  SumFunctionOnSet(V, S) = SumFunctionOnSet(W, S)
<1> DEFINE G == {T \in SUBSET S : SumFunctionOnSet(V, T) = SumFunctionOnSet(W, T)}
<1>1. ASSUME NEW T \in SUBSET S, \A U \in SUBSET T : U # T => U \in G
      PROVE  T \in G
  <2>1. CASE T = {}
    BY <2>1, SumEmpty
  <2>2. CASE T # {}
    <3>1. Pick(T) \in T /\ IsFiniteSet(T)
      BY <2>2, PickIn, FS_Subset
    <3>2. /\ SumFunctionOnSet(V, T) = V[Pick(T)] + SumFunctionOnSet(V, T \ {Pick(T)})
          /\ SumFunctionOnSet(W, T) = W[Pick(T)] + SumFunctionOnSet(W, T \ {Pick(T)})
      BY <2>2, <3>1, SumPicked
    <3>3. T \ {Pick(T)} \in G
      BY <1>1, <3>1
    <3> QED
      BY <3>1, <3>2, <3>3
  <2> QED
    BY <2>1, <2>2
<1>2. \A T \in SUBSET S : T \in G
  <2> HIDE DEF G
  <2> QED BY <1>1, SubsetInduction
<1> QED
  BY <1>2

LEMMA SumOneMore ==
  ASSUME NEW W, NEW S, IsFiniteSet(S), NEW x, x \notin S,
         \A s \in S \cup {x} : W[s] \in Int
  PROVE  SumFunctionOnSet(W, S \cup {x}) = SumFunctionOnSet(W, S) + W[x]
<1>1. IsFiniteSet(S \cup {x}) /\ (S \cup {x}) \ {x} = S
  BY FS_AddElement
<1>2. SumFunctionOnSet(W, S \cup {x}) = W[x] + SumFunctionOnSet(W, (S \cup {x}) \ {x})
  BY <1>1, SumTakesOut
<1>3. SumFunctionOnSet(W, S) \in Int
  BY SumTakesOut
<1>4. W[x] \in Int
  OBVIOUS
<1>5. SumFunctionOnSet(W, S \cup {x}) = W[x] + SumFunctionOnSet(W, S)
  BY <1>1, <1>2
<1> QED
  BY <1>3, <1>4, <1>5

(* Leaving out what is not negative never adds.                             *)
LEMMA SumOfFewer ==
  ASSUME NEW W, NEW S, IsFiniteSet(S), NEW U \in SUBSET S,
         \A s \in S : W[s] \in Nat
  PROVE  /\ SumFunctionOnSet(W, U) <= SumFunctionOnSet(W, S)
         /\ SumFunctionOnSet(W, S) \in Nat
<1> DEFINE Sum(T) == SumFunctionOnSet(W, T)
           G == {T \in SUBSET S : Sum(T) \in Nat /\ \A A \in SUBSET T : Sum(A) <= Sum(T)}
<1>1. ASSUME NEW T \in SUBSET S, \A A \in SUBSET T : A # T => A \in G
      PROVE  T \in G
  <2>1. CASE T = {}
    BY <2>1, SumEmpty
  <2>2. CASE T # {}
    <3>1. IsFiniteSet(T) /\ \A x \in T : W[x] \in Nat
      BY FS_Subset
    <3>2. Sum(T) \in Int /\ \A x \in T : Sum(T) = W[x] + Sum(T \ {x})
      BY <3>1, SumTakesOut
    <3>3. \A x \in T : T \ {x} \in G
      BY <1>1
    <3>4. Sum(T) \in Nat
      <4>1. PICK x \in T : TRUE
        BY <2>2
      <4>2. Sum(T \ {x}) \in Nat /\ W[x] \in Nat /\ Sum(T) = W[x] + Sum(T \ {x})
        BY <3>1, <3>2, <3>3
      <4> HIDE DEF Sum
      <4> QED
        BY <4>2
    <3>5. ASSUME NEW A \in SUBSET T, A # T
          PROVE  Sum(A) <= Sum(T)
      <4>1. PICK x \in T : A \in SUBSET (T \ {x})
        BY <3>5
      <4>2. Sum(A) <= Sum(T \ {x}) /\ Sum(A) \in Nat /\ Sum(T \ {x}) \in Nat
        BY <3>3, <4>1, <1>1, <3>5
      <4> HIDE DEF Sum
      <4> QED
        BY <3>1, <3>2, <4>2, SMTT(30)
    <3> QED
      BY <3>4, <3>5
  <2> QED
    BY <2>1, <2>2
<1>2. \A T \in SUBSET S : T \in G
  <2> HIDE DEF G
  <2> QED BY <1>1, SubsetInduction
<1> QED
  BY <1>2
=============================================================================
