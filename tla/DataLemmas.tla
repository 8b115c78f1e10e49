----------------------------- MODULE DataLemmas -----------------------------
(***************************************************************************)
(* Facts about data that the proofs share: induction over the naturals,    *)
(* folds over sequences, and sums over finite sets.  The library's         *)
(* principle of induction takes a predicate as a parameter, which no       *)
(* prover instantiates; its least-element theorem takes a set, and all     *)
(* that follows rests on that.  A module that folds an operator            *)
(* instantiates this one with it.                                          *)
(***************************************************************************)
EXTENDS Integers, Sequences, SequencesExt, FiniteSetsExt, Functions, FiniteSetTheorems,
        SequenceTheorems, WellFoundedInduction, TLAPS

CONSTANT Op(_, _, _)  \* what is folded: a value, an element, and what else it depends on

-----------------------------------------------------------------------------
(* A set of naturals that is not empty has a least element.                *)
LEMMA LeastNatural ==
  ASSUME NEW T, T \subseteq Nat, T # {}
  PROVE  \E n \in T : \A m \in T : n <= m
<1>1. PICK n \in T : \A m \in T : ~ (<<m, n>> \in OpToRel(<, Nat))
  BY WFMin, NatLessThanWellFounded
<1>2. \A m \in T : n <= m
  <2> TAKE m \in T
  <2>1. m \in Nat /\ n \in Nat
    OBVIOUS
  <2>2. ~ (m < n)
    BY <1>1, <2>1 DEF OpToRel
  <2> QED BY <2>1, <2>2
<1> QED BY <1>2

(* Induction over the naturals, for a set instead of a predicate.          *)
LEMMA SetInduction ==
  ASSUME NEW T, 0 \in T, \A n \in Nat : n \in T => n + 1 \in T
  PROVE  Nat \subseteq T
<1> SUFFICES ASSUME Nat \ T # {} PROVE FALSE
  OBVIOUS
<1>1. PICK n \in Nat \ T : \A m \in Nat \ T : n <= m
  <2>1. Nat \ T \subseteq Nat
    OBVIOUS
  <2> QED BY <2>1, LeastNatural
<1>2. n # 0
  OBVIOUS
<1>3. n - 1 \in Nat /\ n - 1 \in T
  BY <1>1, <1>2
<1> QED BY <1>3

(* A largest element is the Max, a least one the Min.                      *)
LEMMA MaxIs ==
  ASSUME NEW S \in SUBSET Int, NEW m \in S, \A y \in S : y <= m
  PROVE  Max(S) = m
<1>1. m \in Int /\ \A y \in S : m >= y
  OBVIOUS
<1>2. \A x \in S : x \in Int
  OBVIOUS
<1>3. Max(S) \in S /\ \A y \in S : Max(S) >= y
  BY <1>1 DEF Max
<1>4. Max(S) \in Int /\ m <= Max(S) /\ Max(S) <= m
  BY <1>1, <1>3
<1> QED BY <1>1, <1>4

LEMMA MinIs ==
  ASSUME NEW S \in SUBSET Int, NEW m \in S, \A y \in S : m <= y
  PROVE  Min(S) = m
<1>1. m \in Int /\ \A y \in S : m =< y
  OBVIOUS
<1>2. \A x \in S : x \in Int
  OBVIOUS
<1>3. Min(S) \in S /\ \A y \in S : Min(S) =< y
  BY <1>1 DEF Min
<1>4. Min(S) \in Int /\ m <= Min(S) /\ Min(S) <= m
  BY <1>1, <1>3
<1> QED BY <1>1, <1>4

(* Indices up to n of which there are any have a largest one.              *)
LEMMA MaxOfIndices ==
  ASSUME NEW n \in Nat, NEW S \in SUBSET (0 .. n), S # {}
  PROVE  Max(S) \in S /\ \A y \in S : y <= Max(S)
<1> DEFINE T == {k \in Nat : n - k \in S}
<1>1. T \subseteq Nat /\ T # {}
  <2>1. PICK x \in S : TRUE
    OBVIOUS
  <2>2. n - x \in Nat /\ n - (n - x) = x
    OBVIOUS
  <2>3. n - x \in T
    BY <2>2
  <2> QED BY <2>3
<1>2. PICK k \in T : \A m \in T : k <= m
  BY <1>1, LeastNatural
<1>3. n - k \in S /\ k \in Nat
  BY <1>2
<1>4. \A y \in S : y <= n - k
  <2> TAKE y \in S
  <2>1. n - y \in Nat /\ n - (n - y) = y /\ y \in Int
    OBVIOUS
  <2>2. n - y \in T
    BY <2>1
  <2> HIDE DEF T
  <2>3. k <= n - y
    BY <1>2, <2>2
  <2> QED BY <1>3, <2>1, <2>3
<1>5. S \subseteq Int
  OBVIOUS
<1>6. Max(S) = n - k
  BY <1>3, <1>4, <1>5, MaxIs
<1> QED BY <1>3, <1>4, <1>6

LEMMA MinOfIndices ==
  ASSUME NEW S \in SUBSET Nat, S # {}
  PROVE  Min(S) \in S /\ \A y \in S : Min(S) <= y
<1>1. PICK k \in S : \A m \in S : k <= m
  BY LeastNatural
<1>2. S \subseteq Int
  OBVIOUS
<1>3. Min(S) = k
  BY <1>1, <1>2, MinIs
<1> QED BY <1>1, <1>3

-----------------------------------------------------------------------------
(* A fold from the left goes through the sequence element by element.      *)
Folded(b, s, at) == FoldLeft(LAMBDA t, p : Op(t, p, at), b, s)

Stages(b, s, at) ==
  CHOOSE h : /\ DOMAIN h = 0 .. Len(s) /\ h[0] = b
             /\ \A k \in 1 .. Len(s) : h[k] = Op(h[k - 1], s[k], at)
             /\ Folded(b, s, at) = h[Len(s)]

LEMMA FoldSteps ==
  ASSUME NEW A, NEW s \in Seq(A), NEW b, NEW at
  PROVE  LET h == Stages(b, s, at)
         IN  /\ DOMAIN h = 0 .. Len(s) /\ h[0] = b
             /\ \A k \in 1 .. Len(s) : h[k] = Op(h[k - 1], s[k], at)
             /\ Folded(b, s, at) = h[Len(s)]
<1> DEFINE n == Len(s)
<1>a. n \in Nat /\ DOMAIN s = 1 .. n
  OBVIOUS
<1> HIDE DEF n
<1> DEFINE Eq(g, m) == g = [x \in SUBSET (1 .. m) |->
                              IF x = {} THEN b ELSE Op(g[x \ {Max(x)}], s[Max(x)], at)]
           T == {m \in Nat : \E g : Eq(g, m)}
<1> USE <1>a
<1>1. 0 \in T
  <2> DEFINE g == [x \in SUBSET (1 .. 0) |-> b]
  <2>1. \A x \in SUBSET (1 .. 0) : x = {}
    OBVIOUS
  <2>2. Eq(g, 0)
    BY <2>1
  <2> QED BY <2>2
<1>2. ASSUME NEW m \in Nat, m \in T PROVE m + 1 \in T
  <2>1. PICK g : Eq(g, m)
    BY <1>2
  <2> DEFINE f == [x \in SUBSET (1 .. m + 1) |->
                     IF m + 1 \in x THEN Op(g[x \ {m + 1}], s[m + 1], at) ELSE g[x]]
  <2>2. ASSUME NEW x \in SUBSET (1 .. m + 1)
        PROVE  f[x] = IF x = {} THEN b ELSE Op(f[x \ {Max(x)}], s[Max(x)], at)
    <3>1. CASE m + 1 \in x
      <4>1. Max(x) = m + 1
        <5>1. x \in SUBSET Int /\ \A y \in x : y <= m + 1
          OBVIOUS
        <5> QED BY <3>1, <5>1, MaxIs
      <4>2. x \ {m + 1} \in SUBSET (1 .. m + 1) /\ m + 1 \notin x \ {m + 1}
        OBVIOUS
      <4>3. f[x \ {m + 1}] = g[x \ {m + 1}]
        BY <4>2
      <4>4. f[x] = Op(g[x \ {m + 1}], s[m + 1], at)
        BY <3>1
      <4> HIDE DEF f
      <4> QED BY <3>1, <4>1, <4>3, <4>4
    <3>2. CASE m + 1 \notin x
      <4>1. x \in SUBSET (1 .. m)
        BY <3>2
      <4>2. CASE x = {}
        <5>1. f[x] = g[x]
          BY <3>2
        <5> HIDE DEF f
        <5> QED BY <4>1, <4>2, <5>1, <2>1
      <4>3. CASE x # {}
        <5>1. f[x] = g[x]
          BY <3>2
        <5>2. g[x] = Op(g[x \ {Max(x)}], s[Max(x)], at)
          BY <4>1, <4>3, <2>1
        <5>3. f[x \ {Max(x)}] = g[x \ {Max(x)}]
          BY <3>2
        <5> HIDE DEF f
        <5> QED BY <4>3, <5>1, <5>2, <5>3
      <4> QED BY <4>2, <4>3
    <3> QED BY <3>1, <3>2
  <2>3. Eq(f, m + 1)
    BY <2>2
  <2>4. m + 1 \in Nat
    OBVIOUS
  <2> HIDE DEF f, Eq
  <2> QED BY <2>3, <2>4
<1>3. n \in T
  <2> HIDE DEF T
  <2> QED BY <1>1, <1>2, SetInduction
<1>4. \E f : f = [x \in SUBSET (1 .. n) |->
                     IF x = {} THEN b ELSE Op(f[x \ {Max(x)}], s[Max(x)], at)]
  BY <1>3
<1> DEFINE iter == CHOOSE f : f = [x \in SUBSET (DOMAIN s) |->
                     IF x = {} THEN b ELSE Op(f[x \ {Max(x)}], s[Max(x)], at)]
<1>5. iter = [x \in SUBSET (DOMAIN s) |->
                IF x = {} THEN b ELSE Op(iter[x \ {Max(x)}], s[Max(x)], at)]
  BY <1>4
<1> DEFINE fold == Folded(b, s, at)
<1>6. fold = iter[DOMAIN s]
  BY DEF Folded, FoldLeft, MapThenFoldSet
<1> HIDE DEF iter, fold
<1> DEFINE h == [k \in 0 .. n |-> iter[1 .. k]]
<1>7. h[0] = b
  BY <1>5
<1>8. ASSUME NEW k \in 1 .. n PROVE h[k] = Op(h[k - 1], s[k], at)
  <2>1. 1 .. k \in SUBSET DOMAIN s /\ 1 .. k # {} /\ 1 .. k \in SUBSET Int
        /\ k \in 1 .. k /\ \A y \in 1 .. k : y <= k
    OBVIOUS
  <2>2. Max(1 .. k) = k
    BY <2>1, MaxIs
  <2>3. (1 .. k) \ {k} = 1 .. k - 1
    OBVIOUS
  <2>4. iter[1 .. k] = Op(iter[1 .. k - 1], s[k], at)
    BY <1>5, <2>1, <2>2, <2>3
  <2> QED BY <2>4
<1>9. fold = h[n]
  BY <1>6
<1>10. DOMAIN h = 0 .. n
  OBVIOUS
<1>11. \E g : /\ DOMAIN g = 0 .. n /\ g[0] = b
              /\ \A k \in 1 .. n : g[k] = Op(g[k - 1], s[k], at)
              /\ Folded(b, s, at) = g[n]
  <2> HIDE DEF h
  <2>1. \A k \in 1 .. n : h[k] = Op(h[k - 1], s[k], at)
    BY <1>8
  <2>2. Folded(b, s, at) = h[n]
    BY <1>9 DEF fold
  <2> QED BY <1>7, <1>10, <2>1, <2>2, Zenon
<1> QED BY <1>11, Zenon DEF Stages, n

-----------------------------------------------------------------------------
(* Sums over a finite set, of values that are integers.                    *)
Pick(s) == CHOOSE x \in s : TRUE
SumEq(g, f, S) == g = [s \in SUBSET S |-> IF s = {} THEN 0 ELSE f[Pick(s)] + g[s \ {Pick(s)}]]

LEMMA SumUnfolds ==
  ASSUME NEW S, IsFiniteSet(S), NEW f
  PROVE  \E g : SumEq(g, f, S) /\ SumFunctionOnSet(f, S) = g[S]
<1> DEFINE Small(k) == {s \in SUBSET S : Cardinality(s) <= k}
           Rhs(g, s) == IF s = {} THEN 0 ELSE f[Pick(s)] + g[s \ {Pick(s)}]
           T == {k \in Nat : \E g : g = [s \in Small(k) |-> Rhs(g, s)]}
<1>0. \A s \in SUBSET S : IsFiniteSet(s) /\ Cardinality(s) \in Nat /\ Cardinality(s) <= Cardinality(S)
                          /\ (Cardinality(s) = 0 <=> s = {})
  BY FS_Subset, FS_CardinalityType, FS_EmptySet
<1>00. Cardinality(S) \in Nat
  BY FS_CardinalityType
<1>1. 0 \in T
  <2> DEFINE g == [s \in Small(0) |-> 0]
  <2>1. \A s \in Small(0) : s = {}
    BY <1>0
  <2>2. g = [s \in Small(0) |-> Rhs(g, s)]
    BY <2>1
  <2> QED BY <2>2
<1>2. ASSUME NEW k \in Nat, k \in T PROVE k + 1 \in T
  <2>1. PICK g : g = [s \in Small(k) |-> Rhs(g, s)]
    BY <1>2
  <2> DEFINE h == [s \in Small(k + 1) |-> Rhs(g, s)]
  <2>2. ASSUME NEW s \in Small(k + 1), s # {} PROVE s \ {Pick(s)} \in Small(k)
    <3>1. Pick(s) \in s
      BY <2>2 DEF Pick
    <3>2. Cardinality(s \ {Pick(s)}) = Cardinality(s) - 1
      BY <1>0, <3>1, FS_RemoveElement
    <3>3. s \ {Pick(s)} \in SUBSET S
      OBVIOUS
    <3>4. Cardinality(s) \in Nat /\ Cardinality(s) <= k + 1
      BY <1>0
    <3> QED BY <3>2, <3>3, <3>4
  <2>3. ASSUME NEW s \in Small(k) PROVE s \in Small(k + 1) /\ h[s] = g[s]
    <3>1. Cardinality(s) \in Nat /\ Cardinality(s) <= k
      BY <1>0
    <3>2. s \in Small(k + 1)
      BY <3>1
    <3>3. h[s] = Rhs(g, s)
      BY <3>2
    <3>4. g[s] = Rhs(g, s)
      BY <2>1
    <3> QED BY <3>2, <3>3, <3>4
  <2>4. ASSUME NEW s \in Small(k + 1) PROVE Rhs(g, s) = Rhs(h, s)
    <3>1. CASE s = {}
      BY <3>1
    <3>2. CASE s # {}
      <4>1. h[s \ {Pick(s)}] = g[s \ {Pick(s)}]
        BY <2>2, <2>3, <3>2
      <4> HIDE DEF h
      <4> QED BY <3>2, <4>1
    <3> QED BY <3>1, <3>2
  <2>5. h = [s \in Small(k + 1) |-> Rhs(h, s)]
    <3> HIDE DEF Rhs, Small
    <3> QED BY <2>4
  <2>6. k + 1 \in Nat
    OBVIOUS
  <2> HIDE DEF h, Rhs, Small
  <2> QED BY <2>5, <2>6
<1>3. Cardinality(S) \in T
  <2> HIDE DEF T
  <2> QED BY <1>00, <1>1, <1>2, SetInduction
<1>4. Small(Cardinality(S)) = SUBSET S
  BY <1>0
<1>5. \E g : SumEq(g, f, S)
  <2>1. PICK g : g = [s \in Small(Cardinality(S)) |-> Rhs(g, s)]
    BY <1>3
  <2> HIDE DEF Small
  <2> QED BY <1>4, <2>1 DEF SumEq
<1> DEFINE iter == CHOOSE g : SumEq(g, f, S)
<1>6. SumEq(iter, f, S)
  BY <1>5
<1>7. SumFunctionOnSet(f, S) = iter[S]
  BY DEF SumFunctionOnSet, FoldFunctionOnSet, MapThenFoldSet, Pick, SumEq
<1> HIDE DEF iter
<1> QED BY <1>6, <1>7

LEMMA OneLess ==
  ASSUME NEW s, IsFiniteSet(s), NEW a \in s, NEW k \in Nat, Cardinality(s) = k + 1
  PROVE  Cardinality(s \ {a}) = k
<1>1. Cardinality(s \ {a}) = Cardinality(s) - 1
  BY FS_RemoveElement
<1> QED BY <1>1

(* Sums of the same values are the same, whatever set they are part of.    *)
LEMMA SumsAgree ==
  ASSUME NEW S, IsFiniteSet(S), NEW R \in SUBSET S, NEW f, NEW e, \A x \in R : e[x] = f[x],
         NEW g, SumEq(g, f, S), NEW h, SumEq(h, e, R)
  PROVE  \A s \in SUBSET R : h[s] = g[s]
<1> DEFINE T == {k \in Nat : \A s \in SUBSET R : Cardinality(s) = k => h[s] = g[s]}
<1>0. \A s \in SUBSET R : IsFiniteSet(s) /\ Cardinality(s) \in Nat /\ (Cardinality(s) = 0 <=> s = {})
                          /\ s \in SUBSET S
  BY FS_Subset, FS_CardinalityType, FS_EmptySet
<1>1. 0 \in T
  BY <1>0 DEF SumEq
<1>2. ASSUME NEW k \in Nat, k \in T PROVE k + 1 \in T
  <2>1. ASSUME NEW s \in SUBSET R, Cardinality(s) = k + 1 PROVE h[s] = g[s]
    <3>1. s # {} /\ s \in SUBSET S /\ IsFiniteSet(s)
      BY <1>0, <2>1
    <3>2. Pick(s) \in s
      BY <3>1 DEF Pick
    <3>3. s \ {Pick(s)} \in SUBSET R
      OBVIOUS
    <3>4. Cardinality(s \ {Pick(s)}) = k
      BY <2>1, <3>1, <3>2, OneLess
    <3>5. h[s \ {Pick(s)}] = g[s \ {Pick(s)}]
      BY <1>2, <3>3, <3>4
    <3>6. e[Pick(s)] = f[Pick(s)]
      BY <3>2
    <3>7. h[s] = e[Pick(s)] + h[s \ {Pick(s)}]
      BY <3>1 DEF SumEq
    <3>8. g[s] = f[Pick(s)] + g[s \ {Pick(s)}]
      BY <3>1 DEF SumEq
    <3> QED BY <3>5, <3>6, <3>7, <3>8
  <2> QED BY <2>1
<1>3. Nat \subseteq T
  <2> HIDE DEF T
  <2> QED BY <1>1, <1>2, SetInduction
<1> QED BY <1>0, <1>3

LEMMA SumIsInt ==
  ASSUME NEW S, IsFiniteSet(S), NEW f, \A x \in S : f[x] \in Int, NEW g, SumEq(g, f, S)
  PROVE  \A s \in SUBSET S : g[s] \in Int
<1> DEFINE T == {k \in Nat : \A s \in SUBSET S : Cardinality(s) = k => g[s] \in Int}
<1>0. \A s \in SUBSET S : IsFiniteSet(s) /\ Cardinality(s) \in Nat /\ (Cardinality(s) = 0 <=> s = {})
  BY FS_Subset, FS_CardinalityType, FS_EmptySet
<1>1. 0 \in T
  BY <1>0 DEF SumEq
<1>2. ASSUME NEW k \in Nat, k \in T PROVE k + 1 \in T
  <2>1. ASSUME NEW s \in SUBSET S, Cardinality(s) = k + 1 PROVE g[s] \in Int
    <3>1. s # {} /\ IsFiniteSet(s)
      BY <1>0, <2>1
    <3>2. Pick(s) \in s
      BY <3>1 DEF Pick
    <3>3. Cardinality(s \ {Pick(s)}) = k /\ s \ {Pick(s)} \in SUBSET S
      BY <2>1, <3>1, <3>2, OneLess
    <3>4. g[s] = f[Pick(s)] + g[s \ {Pick(s)}]
      BY <3>1 DEF SumEq
    <3>5. f[Pick(s)] \in Int /\ g[s \ {Pick(s)}] \in Int
      BY <1>2, <3>2, <3>3
    <3> QED BY <3>4, <3>5
  <2> QED BY <2>1
<1>3. Nat \subseteq T
  <2> HIDE DEF T
  <2> QED BY <1>1, <1>2, SetInduction
<1> QED BY <1>0, <1>3

LEMMA Swap == \A x, y, z \in Int : x + (y + z) = y + (x + z)
OBVIOUS

(* In whatever order the elements are added.                               *)
LEMMA SumInAnyOrder ==
  ASSUME NEW S, IsFiniteSet(S), NEW f, \A x \in S : f[x] \in Int, NEW g, SumEq(g, f, S)
  PROVE  \A s \in SUBSET S : \A a \in s : g[s] = f[a] + g[s \ {a}]
<1> DEFINE T == {k \in Nat : \A s \in SUBSET S : Cardinality(s) = k =>
                               \A a \in s : g[s] = f[a] + g[s \ {a}]}
<1>0. \A s \in SUBSET S : IsFiniteSet(s) /\ Cardinality(s) \in Nat /\ (Cardinality(s) = 0 <=> s = {})
  BY FS_Subset, FS_CardinalityType, FS_EmptySet
<1>1. 0 \in T
  BY <1>0 DEF SumEq
<1>2. ASSUME NEW k \in Nat, k \in T PROVE k + 1 \in T
  <2>1. ASSUME NEW s \in SUBSET S, Cardinality(s) = k + 1, NEW a \in s
        PROVE  g[s] = f[a] + g[s \ {a}]
    <3> DEFINE c == Pick(s)
    <3>1. s # {} /\ IsFiniteSet(s)
      BY <1>0, <2>1
    <3>2. c \in s
      BY <3>1 DEF Pick
    <3>3. g[s] = f[c] + g[s \ {c}]
      BY <3>1 DEF SumEq
    <3> HIDE DEF c
    <3>4. CASE a # c
      <4>1. Cardinality(s \ {a}) = k /\ Cardinality(s \ {c}) = k
        BY <2>1, <3>1, <3>2, OneLess
      <4>2. s \ {a} \in SUBSET S /\ s \ {c} \in SUBSET S /\ c \in s \ {a} /\ a \in s \ {c}
        BY <3>2, <3>4
      <4>3. g[s \ {a}] = f[c] + g[(s \ {a}) \ {c}]
        BY <1>2, <4>1, <4>2
      <4>4. g[s \ {c}] = f[a] + g[(s \ {c}) \ {a}]
        BY <1>2, <4>1, <4>2
      <4>5. (s \ {a}) \ {c} = (s \ {c}) \ {a} /\ (s \ {a}) \ {c} \in SUBSET S
        OBVIOUS
      <4>6. f[a] \in Int /\ f[c] \in Int /\ g[(s \ {a}) \ {c}] \in Int
        BY <3>2, <4>5, SumIsInt
      <4>7. g[s] = f[c] + (f[a] + g[(s \ {a}) \ {c}])
        BY <3>3, <4>4, <4>5
      <4>8. f[c] + (f[a] + g[(s \ {a}) \ {c}]) = f[a] + (f[c] + g[(s \ {a}) \ {c}])
        BY <4>6, Swap
      <4> QED BY <4>3, <4>7, <4>8
    <3> QED BY <3>3, <3>4
  <2> QED BY <2>1
<1>3. Nat \subseteq T
  <2> HIDE DEF T
  <2> QED BY <1>1, <1>2, SetInduction
<1> QED BY <1>0, <1>3

-----------------------------------------------------------------------------
(* What the other modules use: the sum over nothing, over a set with one   *)
(* element more, of the same values, and after one value has changed.      *)
LEMMA SumOfNothing == ASSUME NEW f PROVE SumFunctionOnSet(f, {}) = 0
BY SumUnfolds, FS_EmptySet DEF SumEq

LEMMA SumRemove ==
  ASSUME NEW S, IsFiniteSet(S), NEW f, \A x \in S : f[x] \in Int, NEW a \in S
  PROVE  /\ SumFunctionOnSet(f, S) = f[a] + SumFunctionOnSet(f, S \ {a})
         /\ SumFunctionOnSet(f, S) \in Int /\ SumFunctionOnSet(f, S \ {a}) \in Int
<1>1. PICK g : SumEq(g, f, S) /\ SumFunctionOnSet(f, S) = g[S]
  BY SumUnfolds
<1>2. IsFiniteSet(S \ {a}) /\ S \ {a} \in SUBSET S
  BY FS_Subset
<1>3. PICK h : SumEq(h, f, S \ {a}) /\ SumFunctionOnSet(f, S \ {a}) = h[S \ {a}]
  BY <1>2, SumUnfolds
<1>4. h[S \ {a}] = g[S \ {a}]
  BY <1>1, <1>2, <1>3, SumsAgree
<1>5. S \in SUBSET S
  OBVIOUS
<1>6. g[S] = f[a] + g[S \ {a}]
  BY <1>1, <1>5, SumInAnyOrder
<1>7. g[S] \in Int /\ g[S \ {a}] \in Int
  BY <1>1, <1>2, <1>5, SumIsInt
<1> QED BY <1>1, <1>3, <1>4, <1>6, <1>7

LEMMA SumAdd ==
  ASSUME NEW S, IsFiniteSet(S), NEW a, a \notin S, NEW f, \A x \in S \cup {a} : f[x] \in Int
  PROVE  SumFunctionOnSet(f, S \cup {a}) = f[a] + SumFunctionOnSet(f, S)
<1>1. IsFiniteSet(S \cup {a}) /\ a \in S \cup {a} /\ (S \cup {a}) \ {a} = S
  BY FS_AddElement
<1>2. SumFunctionOnSet(f, S \cup {a}) = f[a] + SumFunctionOnSet(f, (S \cup {a}) \ {a})
  BY <1>1, SumRemove
<1> QED BY <1>1, <1>2

LEMMA SumSame ==
  ASSUME NEW S, IsFiniteSet(S), NEW f, NEW e, \A x \in S : e[x] = f[x]
  PROVE  SumFunctionOnSet(e, S) = SumFunctionOnSet(f, S)
<1>1. PICK g : SumEq(g, f, S) /\ SumFunctionOnSet(f, S) = g[S]
  BY SumUnfolds
<1>2. PICK h : SumEq(h, e, S) /\ SumFunctionOnSet(e, S) = h[S]
  BY SumUnfolds
<1>3. S \in SUBSET S
  OBVIOUS
<1>4. \A s \in SUBSET S : h[s] = g[s]
  BY <1>1, <1>2, <1>3, SumsAgree
<1>5. h[S] = g[S]
  BY <1>3, <1>4
<1> QED BY <1>1, <1>2, <1>5

LEMMA SumChange ==
  ASSUME NEW S, IsFiniteSet(S), NEW f, NEW e, NEW a \in S, \A x \in S : f[x] \in Int,
         \A x \in S \ {a} : e[x] = f[x], e[a] \in Int
  PROVE  SumFunctionOnSet(e, S) = SumFunctionOnSet(f, S) + (e[a] - f[a])
<1>1. \A x \in S : e[x] \in Int
  OBVIOUS
<1>2. SumFunctionOnSet(e, S) = e[a] + SumFunctionOnSet(e, S \ {a})
  BY <1>1, SumRemove
<1>3. SumFunctionOnSet(f, S) = f[a] + SumFunctionOnSet(f, S \ {a})
      /\ SumFunctionOnSet(f, S \ {a}) \in Int
  BY SumRemove
<1>4. SumFunctionOnSet(e, S \ {a}) = SumFunctionOnSet(f, S \ {a})
  BY FS_RemoveElement, SumSame
<1>5. f[a] \in Int /\ e[a] \in Int
  OBVIOUS
<1> QED BY <1>2, <1>3, <1>4, <1>5

(* Induction over the subsets of a finite set, one element at a time.      *)
LEMMA FiniteInduction ==
  ASSUME NEW S, IsFiniteSet(S), NEW P, {} \in P,
         \A s \in SUBSET S : s \in P => \A a \in S \ s : s \cup {a} \in P
  PROVE  \A s \in SUBSET S : s \in P
<1> DEFINE T == {k \in Nat : \A s \in SUBSET S : Cardinality(s) = k => s \in P}
<1>0. \A s \in SUBSET S : IsFiniteSet(s) /\ Cardinality(s) \in Nat /\ (Cardinality(s) = 0 <=> s = {})
  BY FS_Subset, FS_CardinalityType, FS_EmptySet
<1>1. 0 \in T
  BY <1>0
<1>2. ASSUME NEW k \in Nat, k \in T PROVE k + 1 \in T
  <2>1. ASSUME NEW s \in SUBSET S, Cardinality(s) = k + 1 PROVE s \in P
    <3>1. s # {}
      BY <1>0, <2>1
    <3>2. PICK a \in s : TRUE
      BY <3>1
    <3>3. Cardinality(s \ {a}) = k
      BY <1>0, <2>1, OneLess
    <3>4. s \ {a} \in SUBSET S /\ a \in S \ (s \ {a}) /\ (s \ {a}) \cup {a} = s
      BY <3>2
    <3>5. s \ {a} \in P
      BY <1>2, <3>3, <3>4
    <3> QED BY <3>4, <3>5
  <2> QED BY <2>1
<1>3. Nat \subseteq T
  <2> HIDE DEF T
  <2> QED BY <1>1, <1>2, SetInduction
<1> QED BY <1>0, <1>3

(* A sum of nothing but zeros.                                             *)
LEMMA SumZeros ==
  ASSUME NEW S, IsFiniteSet(S), NEW f, \A x \in S : f[x] = 0
  PROVE  SumFunctionOnSet(f, S) = 0
<1> DEFINE P == {s \in SUBSET S : SumFunctionOnSet(f, s) = 0}
<1>1. {} \in P
  BY SumOfNothing
<1>2. ASSUME NEW s \in SUBSET S, s \in P, NEW a \in S \ s PROVE s \cup {a} \in P
  <2>1. IsFiniteSet(s) /\ a \notin s /\ \A x \in s \cup {a} : f[x] \in Int
    BY FS_Subset
  <2>2. SumFunctionOnSet(f, s \cup {a}) = f[a] + SumFunctionOnSet(f, s)
    BY <2>1, SumAdd
  <2> QED BY <1>2, <2>2
<1>3. \A s \in SUBSET S : s \in P
  <2> HIDE DEF P
  <2> QED BY <1>1, <1>2, FiniteInduction
<1> QED BY <1>3

(* A sum of naturals is a natural, and no less than each of them.          *)
LEMMA SumIsNat ==
  ASSUME NEW S, IsFiniteSet(S), NEW f, \A x \in S : f[x] \in Nat
  PROVE  SumFunctionOnSet(f, S) \in Nat /\ \A x \in S : f[x] <= SumFunctionOnSet(f, S)
<1> DEFINE Q(s) == SumFunctionOnSet(f, s)
           P == {s \in SUBSET S : Q(s) \in Nat}
<1>1. {} \in P
  BY SumOfNothing
<1>2. ASSUME NEW s \in SUBSET S, s \in P, NEW a \in S \ s PROVE s \cup {a} \in P
  <2>1. IsFiniteSet(s) /\ a \notin s /\ \A x \in s \cup {a} : f[x] \in Int
    BY FS_Subset
  <2>2. Q(s \cup {a}) = f[a] + Q(s)
    BY <2>1, SumAdd
  <2>3. f[a] \in Nat /\ Q(s) \in Nat
    BY <1>2
  <2>4. s \cup {a} \in SUBSET S
    OBVIOUS
  <2> HIDE DEF Q
  <2> QED BY <2>2, <2>3, <2>4
<1>3. \A s \in SUBSET S : s \in P
  <2> HIDE DEF P
  <2> QED BY <1>1, <1>2, FiniteInduction
<1>4. ASSUME NEW x \in S PROVE f[x] <= Q(S)
  <2>1. Q(S) = f[x] + Q(S \ {x})
    <3>1. \A y \in S : f[y] \in Int
      OBVIOUS
    <3> QED BY <3>1, SumRemove
  <2>2. Q(S \ {x}) \in Nat /\ f[x] \in Nat
    BY <1>3
  <2> HIDE DEF Q
  <2> QED BY <2>1, <2>2
<1> QED BY <1>3, <1>4

(* What is zero may be left out.                                           *)
LEMMA SumOfPart ==
  ASSUME NEW S, IsFiniteSet(S), NEW R \in SUBSET S, NEW f, \A x \in S : f[x] \in Int,
         \A x \in S \ R : f[x] = 0
  PROVE  SumFunctionOnSet(f, S) = SumFunctionOnSet(f, R)
<1> DEFINE Q(s) == SumFunctionOnSet(f, s)
           P == {s \in SUBSET (S \ R) : Q(R \cup s) = Q(R)}
<1>0. IsFiniteSet(R) /\ IsFiniteSet(S \ R)
  BY FS_Subset
<1>1. {} \in P
  OBVIOUS
<1>2. ASSUME NEW s \in SUBSET (S \ R), s \in P, NEW a \in (S \ R) \ s PROVE s \cup {a} \in P
  <2>1. IsFiniteSet(R \cup s)
    BY FS_Subset
  <2>2. a \notin R \cup s /\ \A x \in (R \cup s) \cup {a} : f[x] \in Int
    OBVIOUS
  <2>3. Q((R \cup s) \cup {a}) = f[a] + Q(R \cup s)
    BY <2>1, <2>2, SumAdd
  <2>4. R \cup (s \cup {a}) = (R \cup s) \cup {a} /\ s \cup {a} \in SUBSET (S \ R)
    OBVIOUS
  <2>5. Q(R) \in Int /\ Q(R \cup s) = Q(R) /\ f[a] = 0
    <3>1. Q(R) \in Int
      <4>1. CASE R = {}
        BY <4>1, SumOfNothing
      <4>2. CASE R # {}
        <5>1. PICK b \in R : TRUE
          BY <4>2
        <5>2. \A x \in R : f[x] \in Int
          OBVIOUS
        <5> QED BY <1>0, <5>1, <5>2, SumRemove
      <4> QED BY <4>1, <4>2
    <3> QED BY <1>2, <3>1
  <2>6. Q(R \cup (s \cup {a})) = Q(R)
    <3>1. Q(R \cup (s \cup {a})) = Q((R \cup s) \cup {a})
      BY <2>4, Zenon
    <3> HIDE DEF Q
    <3> QED BY <2>3, <2>5, <3>1
  <2> HIDE DEF Q
  <2> QED BY <2>4, <2>6
<1>3. \A s \in SUBSET (S \ R) : s \in P
  <2> HIDE DEF P
  <2> QED BY <1>0, <1>1, <1>2, FiniteInduction
<1>4. R \cup (S \ R) = S
  OBVIOUS
<1>5. Q(R \cup (S \ R)) = Q(R)
  <2> HIDE DEF Q
  <2> QED BY <1>3
<1> QED BY <1>4, <1>5

(* The same values under other names.                                      *)
LEMMA SumRenamed ==
  ASSUME NEW S, IsFiniteSet(S), NEW f, NEW g,
         \A x, y \in S : g[x] = g[y] => x = y, \A x \in S : f[g[x]] \in Int
  PROVE  SumFunctionOnSet([x \in S |-> f[g[x]]], S) = SumFunctionOnSet(f, {g[x] : x \in S})
<1> DEFINE e == [x \in S |-> f[g[x]]]
           Im(s) == {g[x] : x \in s}
           P == {s \in SUBSET S : IsFiniteSet(Im(s)) /\ SumFunctionOnSet(e, s) = SumFunctionOnSet(f, Im(s))}
<1>1. {} \in P
  <2>1. Im({}) = {}
    OBVIOUS
  <2> HIDE DEF Im
  <2> QED BY <2>1, SumOfNothing, FS_EmptySet
<1>2. ASSUME NEW s \in SUBSET S, s \in P, NEW a \in S \ s PROVE s \cup {a} \in P
  <2>1. IsFiniteSet(s) /\ a \notin s /\ \A x \in s \cup {a} : e[x] \in Int
    BY FS_Subset
  <2>2. SumFunctionOnSet(e, s \cup {a}) = e[a] + SumFunctionOnSet(e, s)
    <3> HIDE DEF e
    <3> QED BY <2>1, SumAdd
  <2>3. Im(s \cup {a}) = Im(s) \cup {g[a]} /\ g[a] \notin Im(s)
    OBVIOUS
  <2>4. IsFiniteSet(Im(s)) /\ \A y \in Im(s) \cup {g[a]} : f[y] \in Int
    BY <1>2
  <2>5. SumFunctionOnSet(f, Im(s) \cup {g[a]}) = f[g[a]] + SumFunctionOnSet(f, Im(s))
    <3> HIDE DEF Im
    <3> QED BY <2>3, <2>4, SumAdd
  <2>6. IsFiniteSet(Im(s) \cup {g[a]})
    BY <2>4, FS_AddElement
  <2>7. e[a] = f[g[a]] /\ s \cup {a} \in SUBSET S
    OBVIOUS
  <2>8. SumFunctionOnSet(e, s) = SumFunctionOnSet(f, Im(s))
    BY <1>2
  <2> HIDE DEF Im, e
  <2> QED BY <2>2, <2>3, <2>5, <2>6, <2>7, <2>8
<1>3. \A s \in SUBSET S : s \in P
  <2> HIDE DEF P
  <2> QED BY <1>1, <1>2, FiniteInduction
<1> QED BY <1>3

(* Values put together in groups, and the groups added up.                 *)
LEMMA SumInGroups ==
  ASSUME NEW S, IsFiniteSet(S), NEW B, IsFiniteSet(B), NEW f, \A x \in S : f[x] \in Int,
         NEW g, \A x \in S : g[x] \in B
  PROVE  SumFunctionOnSet([b \in B |-> SumFunctionOnSet(f, {x \in S : g[x] = b})], B)
           = SumFunctionOnSet(f, S)
<1> DEFINE Q(s) == SumFunctionOnSet(f, s)
           G(s, b) == {x \in s : g[x] = b}
           e(s) == [b \in B |-> Q(G(s, b))]
           P == {s \in SUBSET S : (\A b \in B : Q(G(s, b)) \in Int) /\ SumFunctionOnSet(e(s), B) = Q(s)}
<1>1. {} \in P
  <2>1. \A b \in B : G({}, b) = {}
    OBVIOUS
  <2>2. \A b \in B : Q(G({}, b)) = 0
    BY <2>1, SumOfNothing
  <2>3. \A b \in B : e({})[b] = 0
    BY <2>2
  <2>4. SumFunctionOnSet(e({}), B) = 0
    <3> HIDE DEF e
    <3> QED BY <2>3, SumZeros
  <2>5. Q({}) = 0
    BY SumOfNothing
  <2> QED BY <2>2, <2>4, <2>5
<1>2. ASSUME NEW s \in SUBSET S, s \in P, NEW a \in S \ s PROVE s \cup {a} \in P
  <2> DEFINE t == s \cup {a}
             c == g[a]
  <2>1. IsFiniteSet(s) /\ a \notin s /\ \A x \in s \cup {a} : f[x] \in Int
    BY FS_Subset
  <2>2. Q(t) = f[a] + Q(s)
    BY <2>1, SumAdd
  <2>3. c \in B /\ G(t, c) = G(s, c) \cup {a} /\ a \notin G(s, c)
    OBVIOUS
  <2>4. \A b \in B \ {c} : G(t, b) = G(s, b)
    OBVIOUS
  <2>5. IsFiniteSet(G(s, c)) /\ \A x \in G(s, c) \cup {a} : f[x] \in Int
    BY <2>1, FS_Subset
  <2>6. Q(G(s, c) \cup {a}) = f[a] + Q(G(s, c))
    <3> HIDE DEF G, c
    <3> QED BY <2>3, <2>5, SumAdd
  <2>7. \A b \in B : Q(G(s, b)) \in Int
    BY <1>2
  <2>8. f[a] \in Int /\ t \in SUBSET S
    OBVIOUS
  <2> HIDE DEF Q, G, t, c
  <2>9. \A b \in B : e(s)[b] \in Int
    BY <2>7
  <2>10. \A b \in B \ {c} : e(t)[b] = e(s)[b]
    BY <2>4
  <2>11. Q(G(t, c)) = f[a] + Q(G(s, c)) /\ Q(G(t, c)) \in Int
    BY <2>3, <2>6, <2>7, <2>8
  <2>12. e(t)[c] = f[a] + e(s)[c] /\ e(t)[c] \in Int
    BY <2>3, <2>11
  <2>13. SumFunctionOnSet(e(t), B) = SumFunctionOnSet(e(s), B) + (e(t)[c] - e(s)[c])
    <3> DEFINE u == e(s)
               v == e(t)
    <3>1. (\A b \in B : u[b] \in Int) /\ (\A b \in B \ {c} : v[b] = u[b]) /\ v[c] \in Int /\ c \in B
      BY <2>3, <2>9, <2>10, <2>12
    <3> HIDE DEF u, v
    <3>2. SumFunctionOnSet(v, B) = SumFunctionOnSet(u, B) + (v[c] - u[c])
      BY <3>1, SumChange
    <3> QED BY <3>2 DEF u, v
  <2>14. \A b \in B : Q(G(t, b)) \in Int
    BY <2>4, <2>7, <2>11
  <2>15. SumFunctionOnSet(e(s), B) = Q(s)
    BY <1>2
  <2>16. Q(s) \in Int
    <3>1. CASE s = {}
      BY <3>1, SumOfNothing DEF Q
    <3>2. CASE s # {}
      <4>1. PICK b \in s : TRUE
        BY <3>2
      <4> QED BY <2>1, <4>1, SumRemove DEF Q
    <3> QED BY <3>1, <3>2
  <2>17. e(s)[c] \in Int
    BY <2>3, <2>9
  <2>18. SumFunctionOnSet(e(t), B) = Q(t)
    <3> HIDE DEF e
    <3> QED BY <2>2, <2>8, <2>12, <2>13, <2>15, <2>16, <2>17
  <2> QED BY <2>8, <2>14, <2>18 DEF t
<1>3. \A s \in SUBSET S : s \in P
  <2> HIDE DEF P
  <2> QED BY <1>1, <1>2, FiniteInduction
<1>4. SumFunctionOnSet(e(S), B) = Q(S)
  BY <1>3
<1> QED BY <1>4

(* Induction up to a bound.                                                *)
LEMMA UpTo ==
  ASSUME NEW n \in Nat, NEW Q, 0 \in Q, \A m \in 0 .. n - 1 : m \in Q => m + 1 \in Q
  PROVE  \A k \in 0 .. n : k \in Q
<1> DEFINE T == {m \in Nat : m <= n => m \in Q}
<1>1. 0 \in T
  OBVIOUS
<1>2. ASSUME NEW m \in Nat, m \in T PROVE m + 1 \in T
  <2>1. CASE m + 1 <= n
    <3>1. m \in 0 .. n - 1 /\ m <= n
      BY <2>1
    <3> QED BY <1>2, <3>1
  <2>2. CASE ~(m + 1 <= n)
    BY <2>2
  <2> QED BY <2>1, <2>2
<1>3. Nat \subseteq T
  <2> HIDE DEF T
  <2> QED BY <1>1, <1>2, SetInduction
<1> QED BY <1>3

-----------------------------------------------------------------------------
(* A walk over s that keeps the elements at the places of K: h[k] is what  *)
(* it has kept of the first k.                                             *)
Sifts(h, s, K) ==
  /\ h[0] = << >>
  /\ \A k \in 0 .. Len(s) - 1 : /\ k + 1 \in K => h[k + 1] = Append(h[k], s[k + 1])
                                /\ k + 1 \notin K => h[k + 1] = h[k]

PartOf(t, s, K, k, A) ==
  /\ t \in Seq(A) /\ Len(t) <= k
  /\ \A i \in 1 .. Len(t) : \E j \in 1 .. k : j \in K /\ t[i] = s[j]

LEMMA SiftedIsPart ==
  ASSUME NEW A, NEW s \in Seq(A), NEW K, NEW h, Sifts(h, s, K)
  PROVE  \A k \in 0 .. Len(s) : PartOf(h[k], s, K, k, A)
<1> DEFINE Q == {k \in Nat : PartOf(h[k], s, K, k, A)}
<1>0. Len(s) \in Nat
  OBVIOUS
<1>1. 0 \in Q
  <2>1. h[0] = << >> /\ << >> \in Seq(A) /\ Len(<< >>) = 0
    BY DEF Sifts
  <2>2. \A i \in 1 .. Len(h[0]) : FALSE
    BY <2>1
  <2>3. PartOf(h[0], s, K, 0, A)
    BY <2>1, <2>2 DEF PartOf
  <2> QED BY <2>3
<1>2. ASSUME NEW m \in 0 .. Len(s) - 1, m \in Q PROVE m + 1 \in Q
  <2>1. PartOf(h[m], s, K, m, A)
    BY <1>2
  <2>2. m + 1 \in 1 .. Len(s) /\ s[m + 1] \in A
    BY <1>0, ElementOfSeq
  <2>3. CASE m + 1 \in K
    <3> DEFINE t == h[m]
               u == h[m + 1]
    <3>1. u = Append(t, s[m + 1])
      BY <2>3 DEF Sifts
    <3>2. t \in Seq(A) /\ Len(t) <= m
      BY <2>1 DEF PartOf
    <3>3. u \in Seq(A) /\ Len(u) = Len(t) + 1 /\ u[Len(t) + 1] = s[m + 1]
          /\ \A i \in 1 .. Len(t) : u[i] = t[i]
      <4> HIDE DEF t, u
      <4> QED BY <2>2, <3>1, <3>2, AppendProperties
    <3>4. \A i \in 1 .. Len(t) : \E j \in 1 .. m : j \in K /\ t[i] = s[j]
      BY <2>1 DEF PartOf
    <3> HIDE DEF t, u
    <3>5. ASSUME NEW i \in 1 .. Len(u) PROVE \E j \in 1 .. m + 1 : j \in K /\ u[i] = s[j]
      <4>1. CASE i = Len(t) + 1
        <5>1. u[i] = s[m + 1]
          BY <3>3, <4>1
        <5> QED BY <2>3, <5>1
      <4>2. CASE i # Len(t) + 1
        <5>1. i \in 1 .. Len(t) /\ u[i] = t[i]
          BY <3>2, <3>3, <4>2
        <5>2. PICK j \in 1 .. m : j \in K /\ t[i] = s[j]
          BY <3>4, <5>1
        <5> QED BY <5>1, <5>2
      <4> QED BY <4>1, <4>2
    <3>6. Len(u) <= m + 1
      BY <3>2, <3>3
    <3> QED BY <3>3, <3>5, <3>6 DEF PartOf, u
  <2>4. CASE m + 1 \notin K
    <3>1. h[m + 1] = h[m]
      BY <2>4 DEF Sifts
    <3> QED BY <2>1, <3>1 DEF PartOf
  <2> QED BY <2>3, <2>4
<1>3. \A k \in 0 .. Len(s) : k \in Q
  <2> HIDE DEF Q
  <2> QED BY <1>0, <1>1, <1>2, UpTo
<1> QED BY <1>3

(* The order of the elements stays.                                        *)
InOrder(t, R) == \A i, j \in 1 .. Len(t) : i < j => <<t[i], t[j]>> \in R
LEMMA SiftedInOrder ==
  ASSUME NEW A, NEW s \in Seq(A), NEW K, NEW h, Sifts(h, s, K), NEW R, InOrder(s, R)
  PROVE  \A k \in 0 .. Len(s) : InOrder(h[k], R)
<1> DEFINE Q == {k \in Nat : InOrder(h[k], R)}
<1>0. Len(s) \in Nat
  OBVIOUS
<1>1. 0 \in Q
  <2>1. h[0] = << >> /\ Len(<< >>) = 0
    BY DEF Sifts
  <2> QED BY <2>1 DEF InOrder
<1>2. ASSUME NEW m \in 0 .. Len(s) - 1, m \in Q PROVE m + 1 \in Q
  <2>1. InOrder(h[m], R) /\ m + 1 \in Nat
    BY <1>2
  <2>2. m + 1 \in 1 .. Len(s) /\ s[m + 1] \in A
    BY <1>0, ElementOfSeq
  <2>3. CASE m + 1 \in K
    <3> DEFINE t == h[m]
               u == h[m + 1]
    <3>1. u = Append(t, s[m + 1])
      BY <2>3 DEF Sifts
    <3>2. t \in Seq(A) /\ \A i \in 1 .. Len(t) : \E j \in 1 .. m : t[i] = s[j]
      BY SiftedIsPart DEF PartOf
    <3>3. u \in Seq(A) /\ Len(u) = Len(t) + 1 /\ u[Len(t) + 1] = s[m + 1]
          /\ \A i \in 1 .. Len(t) : u[i] = t[i]
      <4> HIDE DEF t, u
      <4> QED BY <2>2, <3>1, <3>2, AppendProperties
    <3> HIDE DEF t, u
    <3>4. ASSUME NEW i \in 1 .. Len(u), NEW j \in 1 .. Len(u), i < j PROVE <<u[i], u[j]>> \in R
      <4>0. i \in 1 .. Len(t) /\ u[i] = t[i]
        BY <3>2, <3>3, <3>4
      <4>1. CASE j = Len(t) + 1
        <5>1. u[j] = s[m + 1]
          BY <3>3, <4>1
        <5>2. PICK l \in 1 .. m : t[i] = s[l]
          BY <3>2, <4>0
        <5>3. l \in 1 .. Len(s) /\ l < m + 1
          BY <2>2, <5>2
        <5>4. <<s[l], s[m + 1]>> \in R
          BY <2>2, <5>3 DEF InOrder
        <5> QED BY <4>0, <5>1, <5>2, <5>4
      <4>2. CASE j # Len(t) + 1
        <5>1. j \in 1 .. Len(t) /\ u[j] = t[j]
          BY <3>2, <3>3, <4>2
        <5> QED BY <2>1, <3>4, <4>0, <5>1 DEF InOrder, t
      <4> QED BY <4>1, <4>2
    <3> QED BY <2>1, <3>4 DEF InOrder, u
  <2>4. CASE m + 1 \notin K
    <3>1. h[m + 1] = h[m]
      BY <2>4 DEF Sifts
    <3> QED BY <2>1, <3>1
  <2> QED BY <2>3, <2>4
<1>3. \A k \in 0 .. Len(s) : k \in Q
  <2> HIDE DEF Q
  <2> QED BY <1>0, <1>1, <1>2, UpTo
<1> QED BY <1>3

-----------------------------------------------------------------------------
Turned(t, s, A) ==
  t \in Seq(A) /\ Len(t) = Len(s) /\ \A i \in 1 .. Len(s) : t[i] = s[(Len(s) - i) + 1]

LEMMA ReverseIs == ASSUME NEW A, NEW s \in Seq(A) PROVE Turned(Reverse(s), s, A)
<1>1. Reverse(s) = [i \in 1 .. Len(s) |-> s[(Len(s) - i) + 1]]
  BY DEF Reverse
<1>2. \A i \in 1 .. Len(s) : (Len(s) - i) + 1 \in 1 .. Len(s)
  OBVIOUS
<1> QED BY <1>1, <1>2 DEF Turned

LEMMA TurnedIsReverse ==
  ASSUME NEW A, NEW s \in Seq(A), NEW t, Turned(t, s, A)
  PROVE  t = Reverse(s)
<1>1. Turned(Reverse(s), s, A)
  BY ReverseIs
<1> DEFINE u == Reverse(s)
<1>2. u \in Seq(A) /\ t \in Seq(A) /\ Len(u) = Len(t) /\ \A i \in 1 .. Len(u) : u[i] = t[i]
  BY <1>1 DEF Turned
<1> HIDE DEF u
<1>3. u = t
  BY <1>2, SeqEqual
<1> QED BY <1>3 DEF u

LEMMA ReverseTwice == ASSUME NEW A, NEW s \in Seq(A) PROVE Reverse(Reverse(s)) = s
<1> DEFINE t == Reverse(s)
<1>1. Turned(t, s, A)
  BY ReverseIs
<1> HIDE DEF t
<1>2. \A i \in 1 .. Len(s) : (Len(s) - i) + 1 \in 1 .. Len(s) /\ (Len(s) - ((Len(s) - i) + 1)) + 1 = i
  OBVIOUS
<1>3. Turned(s, t, A)
  BY <1>1, <1>2 DEF Turned
<1>4. s = Reverse(t)
  BY <1>1, <1>3, TurnedIsReverse DEF Turned
<1> QED BY <1>4 DEF t

LEMMA ReverseOfAppend ==
  ASSUME NEW A, NEW s \in Seq(A), NEW e \in A
  PROVE  Reverse(Append(s, e)) = <<e>> \o Reverse(s)
<1> DEFINE t == Append(s, e)
           r == Reverse(s)
           u == <<e>> \o r
<1>1. t \in Seq(A) /\ Len(t) = Len(s) + 1 /\ t[Len(s) + 1] = e /\ \A i \in 1 .. Len(s) : t[i] = s[i]
  BY AppendProperties
<1>2. Turned(r, s, A)
  BY ReverseIs
<1> HIDE DEF t, r
<1>3. u \in Seq(A) /\ Len(u) = Len(s) + 1 /\ u[1] = e /\ \A i \in 2 .. Len(s) + 1 : u[i] = r[i - 1]
  BY <1>2, ConcatProperties DEF Turned
<1> HIDE DEF u
<1>5. ASSUME NEW i \in 1 .. Len(s) + 1 PROVE u[i] = t[((Len(s) + 1) - i) + 1]
  <2>2. CASE i = 1
    BY <1>1, <1>3, <2>2
  <2>3. CASE i # 1
    <3>1. ((Len(s) + 1) - i) + 1 \in 1 .. Len(s) /\ i - 1 \in 1 .. Len(s) /\ i \in 2 .. Len(s) + 1
          /\ (Len(s) - (i - 1)) + 1 = ((Len(s) + 1) - i) + 1
      BY <2>3
    <3>2. u[i] = r[i - 1]
      BY <1>3, <3>1
    <3>3. r[i - 1] = s[(Len(s) - (i - 1)) + 1]
      BY <1>2, <3>1 DEF Turned
    <3> QED BY <1>1, <3>1, <3>2, <3>3
  <2> QED BY <2>2, <2>3
<1>6. Turned(u, t, A)
  BY <1>1, <1>3, <1>5 DEF Turned
<1>7. u = Reverse(t)
  BY <1>1, <1>6, TurnedIsReverse
<1> QED BY <1>7 DEF t, r, u

LEMMA AppendThenConcat ==
  ASSUME NEW A, NEW x \in Seq(A), NEW y \in Seq(A), NEW e \in A
  PROVE  Append(x, e) \o y = x \o (<<e>> \o y)
<1>1. Append(x, e) = x \o <<e>> /\ <<e>> \in Seq(A)
  OBVIOUS
<1> QED BY <1>1, ConcatAssociative

(* What is kept of a list walked backwards is what is kept, backwards.     *)
LEMMA SiftedBackwards ==
  ASSUME NEW A, NEW r \in Seq(A), NEW K, NEW J,
         \A k \in 1 .. Len(r) : k \in J <=> (Len(r) - k) + 1 \in K,
         NEW g, Sifts(g, r, K), NEW h, Sifts(h, Reverse(r), J)
  PROVE  h[Len(r)] = Reverse(g[Len(r)])
<1> DEFINE s == Reverse(r)
           n == Len(r)
           Joined(m) == g[n] = g[n - m] \o Reverse(h[m])
           Q == {m \in Nat : Joined(m)}
<1>0. n \in Nat /\ Turned(s, r, A) /\ Sifts(h, s, J)
  BY ReverseIs
<1> HIDE DEF s
<1>a. Len(s) = n /\ s \in Seq(A) /\ \A i \in 1 .. n : s[i] = r[(n - i) + 1]
  BY <1>0 DEF Turned
<1>b. \A k \in 0 .. n : g[k] \in Seq(A) /\ h[k] \in Seq(A)
  <2>1. \A k \in 0 .. n : PartOf(g[k], r, K, k, A)
    BY SiftedIsPart
  <2>2. \A k \in 0 .. n : PartOf(h[k], s, J, k, A)
    BY <1>0, <1>a, SiftedIsPart
  <2> QED BY <2>1, <2>2 DEF PartOf
<1>c. \A k \in 1 .. n : k \in J <=> (n - k) + 1 \in K
  OBVIOUS
<1>d. r \in Seq(A) /\ Sifts(g, r, K) /\ Len(r) = n
  OBVIOUS
<1> HIDE DEF n
<1>1. 0 \in Q
  <2>1. h[0] = << >> /\ Reverse(<< >>) = << >>
    BY <1>0 DEF Sifts, Reverse
  <2>2. g[n] \in Seq(A) /\ n - 0 = n
    BY <1>0, <1>b
  <2>3. g[n] \o << >> = g[n]
    BY <2>2, ConcatEmptySeq
  <2> QED BY <2>1, <2>2, <2>3
<1>2. ASSUME NEW m \in 0 .. n - 1, m \in Q PROVE m + 1 \in Q
  <2> DEFINE l == (n - m) - 1
  <2>1. g[n] = g[n - m] \o Reverse(h[m])
    BY <1>2
  <2>2. /\ m + 1 \in 1 .. n /\ l \in 0 .. n - 1 /\ l + 1 \in 1 .. n /\ l + 1 = n - m /\ n - (m + 1) = l
        /\ (n - (m + 1)) + 1 = l + 1 /\ m \in 0 .. n
    BY <1>0
  <2> HIDE DEF l
  <2>3. s[m + 1] = r[l + 1] /\ (m + 1 \in J <=> l + 1 \in K)
    BY <1>a, <1>c, <2>2
  <2>4. g[l] \in Seq(A) /\ h[m] \in Seq(A) /\ r[l + 1] \in A
    <3>1. l \in 0 .. n
      BY <1>0, <2>2
    <3> QED BY <1>b, <1>d, <2>2, <3>1, ElementOfSeq
  <2>5. Reverse(h[m]) \in Seq(A)
    BY <2>4, ReverseIs DEF Turned
  <2>6. CASE l + 1 \in K
    <3>1. g[l + 1] = Append(g[l], r[l + 1])
      BY <1>d, <2>2, <2>6 DEF Sifts
    <3>2. h[m + 1] = Append(h[m], r[l + 1])
      BY <1>0, <1>a, <2>2, <2>3, <2>6 DEF Sifts
    <3>3. Reverse(h[m + 1]) = <<r[l + 1]>> \o Reverse(h[m])
      BY <2>4, <3>2, ReverseOfAppend
    <3>4. Append(g[l], r[l + 1]) \o Reverse(h[m]) = g[l] \o (<<r[l + 1]>> \o Reverse(h[m]))
      BY <2>4, <2>5, AppendThenConcat
    <3>5. Joined(m + 1)
      BY <2>1, <2>2, <3>1, <3>3, <3>4
    <3> HIDE DEF Joined
    <3> QED BY <2>2, <3>5
  <2>7. CASE l + 1 \notin K
    <3>1. g[l + 1] = g[l]
      BY <1>d, <2>2, <2>7 DEF Sifts
    <3>2. h[m + 1] = h[m]
      BY <1>0, <1>a, <2>2, <2>3, <2>7 DEF Sifts
    <3>5. Joined(m + 1)
      BY <2>1, <2>2, <3>1, <3>2
    <3> HIDE DEF Joined
    <3> QED BY <2>2, <3>5
  <2> QED BY <2>6, <2>7
<1>3. \A k \in 0 .. n : k \in Q
  <2> HIDE DEF Q
  <2> QED BY <1>0, <1>1, <1>2, UpTo
<1>4. g[n] = g[0] \o Reverse(h[n]) /\ g[0] = << >>
  <2>1. n \in Q
    <3> HIDE DEF Q
    <3> QED BY <1>0, <1>3
  <2>2. Joined(n)
    <3> HIDE DEF Joined
    <3> QED BY <2>1
  <2>3. n - n = 0
    BY <1>0
  <2> QED BY <1>d, <2>2, <2>3 DEF Sifts
<1>5. h[n] \in Seq(A)
  BY <1>0, <1>b
<1>6. Reverse(h[n]) \in Seq(A)
  BY <1>5, ReverseIs DEF Turned
<1>7. g[n] = Reverse(h[n])
  BY <1>4, <1>6, ConcatEmptySeq
<1>8. Reverse(g[n]) = h[n]
  BY <1>5, <1>7, ReverseTwice
<1> QED BY <1>8 DEF n

-----------------------------------------------------------------------------
(* The first p elements, and the others.                                   *)
LEMMA SiftedFirst ==
  ASSUME NEW A, NEW s \in Seq(A), NEW K, NEW h, Sifts(h, s, K), NEW p \in 0 .. Len(s),
         \A k \in 1 .. Len(s) : k \in K <=> k <= p
  PROVE  h[Len(s)] = SubSeq(s, 1, p)
<1> DEFINE To(m) == IF m <= p THEN m ELSE p
           Q == {m \in Nat : h[m] = SubSeq(s, 1, To(m))}
<1>0. Len(s) \in Nat /\ p \in Nat
  OBVIOUS
<1>1. 0 \in Q
  <2>1. h[0] = << >> /\ To(0) = 0
    BY <1>0 DEF Sifts
  <2>2. SubSeq(s, 1, 0) = << >>
    BY SubSeqEmpty
  <2> QED BY <2>1, <2>2
<1>2. ASSUME NEW m \in 0 .. Len(s) - 1, m \in Q PROVE m + 1 \in Q
  <2>1. h[m] = SubSeq(s, 1, To(m)) /\ m + 1 \in 1 .. Len(s)
    BY <1>2
  <2>2. CASE m + 1 <= p
    <3>1. m + 1 \in K /\ To(m) = m /\ To(m + 1) = m + 1
      BY <1>0, <2>1, <2>2
    <3>2. h[m + 1] = Append(h[m], s[m + 1])
      BY <3>1 DEF Sifts
    <3>3. SubSeq(s, 1, m + 1) = SubSeq(s, 1, m) \o <<s[m + 1]>>
      <4>1. 1 \in 1 .. Len(s) /\ m + 1 \in 1 .. Len(s) /\ (m + 1) - 1 = m
        BY <1>0, <2>1
      <4> QED BY <4>1, SubSeqRecursiveSecond
    <3>4. SubSeq(s, 1, m) \in Seq(A) /\ s[m + 1] \in A
      BY <2>1, <1>0, ElementOfSeq
    <3>5. Append(SubSeq(s, 1, m), s[m + 1]) = SubSeq(s, 1, m) \o <<s[m + 1]>>
      BY <3>4
    <3>6. h[m + 1] = SubSeq(s, 1, To(m + 1))
      BY <2>1, <3>1, <3>2, <3>3, <3>5
    <3> QED BY <3>6
  <2>3. CASE ~(m + 1 <= p)
    <3>1. m + 1 \notin K /\ To(m) = p /\ To(m + 1) = p
      BY <1>0, <2>1, <2>3
    <3>2. h[m + 1] = h[m]
      BY <3>1 DEF Sifts
    <3>6. h[m + 1] = SubSeq(s, 1, To(m + 1))
      BY <2>1, <3>1, <3>2
    <3> QED BY <3>6
  <2> QED BY <2>2, <2>3
<1>3. \A k \in 0 .. Len(s) : k \in Q
  <2> HIDE DEF Q
  <2> QED BY <1>0, <1>1, <1>2, UpTo
<1>4. h[Len(s)] = SubSeq(s, 1, To(Len(s))) /\ To(Len(s)) = p
  BY <1>0, <1>3
<1> HIDE DEF To
<1> QED BY <1>4

LEMMA SiftedLast ==
  ASSUME NEW A, NEW s \in Seq(A), NEW K, NEW h, Sifts(h, s, K), NEW p \in 0 .. Len(s),
         \A k \in 1 .. Len(s) : k \in K <=> k > p
  PROVE  h[Len(s)] = SubSeq(s, p + 1, Len(s))
<1> DEFINE Q == {m \in Nat : h[m] = SubSeq(s, p + 1, m)}
<1>0. Len(s) \in Nat /\ p \in Nat
  OBVIOUS
<1>1. 0 \in Q
  <2>1. h[0] = << >>
    BY DEF Sifts
  <2>2. SubSeq(s, p + 1, 0) = << >>
    BY <1>0, SubSeqEmpty
  <2> QED BY <2>1, <2>2
<1>2. ASSUME NEW m \in 0 .. Len(s) - 1, m \in Q PROVE m + 1 \in Q
  <2>1. h[m] = SubSeq(s, p + 1, m) /\ m + 1 \in 1 .. Len(s)
    BY <1>2
  <2>2. CASE m + 1 > p
    <3>1. m + 1 \in K
      BY <1>0, <2>1, <2>2
    <3>2. h[m + 1] = Append(h[m], s[m + 1])
      BY <3>1 DEF Sifts
    <3>3. SubSeq(s, p + 1, m + 1) = SubSeq(s, p + 1, m) \o <<s[m + 1]>>
      <4>1. p + 1 \in 1 .. Len(s) /\ m + 1 \in p + 1 .. Len(s) /\ (m + 1) - 1 = m
        BY <1>0, <2>1, <2>2
      <4> QED BY <4>1, SubSeqRecursiveSecond
    <3>4. SubSeq(s, p + 1, m) \in Seq(A) /\ s[m + 1] \in A
      BY <2>1, <1>0, ElementOfSeq
    <3>5. Append(SubSeq(s, p + 1, m), s[m + 1]) = SubSeq(s, p + 1, m) \o <<s[m + 1]>>
      BY <3>4
    <3>6. h[m + 1] = SubSeq(s, p + 1, m + 1)
      BY <2>1, <3>2, <3>3, <3>5
    <3> QED BY <3>6
  <2>3. CASE ~(m + 1 > p)
    <3>1. m + 1 \notin K
      BY <1>0, <2>1, <2>3
    <3>2. h[m + 1] = h[m]
      BY <3>1 DEF Sifts
    <3>3. SubSeq(s, p + 1, m) = << >> /\ SubSeq(s, p + 1, m + 1) = << >>
      BY <1>0, <2>1, <2>3, SubSeqEmpty
    <3>6. h[m + 1] = SubSeq(s, p + 1, m + 1)
      BY <2>1, <3>2, <3>3
    <3> QED BY <3>6
  <2> QED BY <2>2, <2>3
<1>3. \A k \in 0 .. Len(s) : k \in Q
  <2> HIDE DEF Q
  <2> QED BY <1>0, <1>1, <1>2, UpTo
<1>4. Len(s) \in Q
  <2> HIDE DEF Q
  <2> QED BY <1>0, <1>3
<1> QED BY <1>4

(* The sequences of ss put end to end: g[k] is the first k of them.        *)
Flats(g, ss, n) == g[0] = << >> /\ \A k \in 0 .. n - 1 : g[k + 1] = g[k] \o ss[k + 1]

LEMMA FlatsType ==
  ASSUME NEW A, NEW ss \in Seq(Seq(A)), NEW g, Flats(g, ss, Len(ss))
  PROVE  \A k \in 0 .. Len(ss) : g[k] \in Seq(A)
<1> DEFINE Q == {k \in Nat : g[k] \in Seq(A)}
<1>0. Len(ss) \in Nat
  OBVIOUS
<1>1. 0 \in Q
  <2>1. << >> \in Seq(A)
    OBVIOUS
  <2> QED BY <2>1 DEF Flats
<1>2. ASSUME NEW m \in 0 .. Len(ss) - 1, m \in Q PROVE m + 1 \in Q
  <2>1. g[m] \in Seq(A) /\ g[m + 1] = g[m] \o ss[m + 1]
    BY <1>2 DEF Flats
  <2>2. ss[m + 1] \in Seq(A)
    BY <1>0, ElementOfSeq
  <2>3. g[m] \o ss[m + 1] \in Seq(A)
    BY <2>1, <2>2, ConcatProperties
  <2>4. g[m + 1] \in Seq(A)
    BY <2>1, <2>3, Zenon
  <2>5. m + 1 \in Nat
    OBVIOUS
  <2> QED BY <2>4, <2>5
<1>3. \A k \in 0 .. Len(ss) : k \in Q
  <2> HIDE DEF Q
  <2> QED BY <1>0, <1>1, <1>2, UpTo
<1> QED BY <1>3

LEMMA FlatsAgree ==
  ASSUME NEW n \in Nat, NEW ss, NEW g, Flats(g, ss, n), NEW h, Flats(h, ss, n)
  PROVE  g[n] = h[n]
<1> DEFINE Q == {k \in Nat : g[k] = h[k]}
<1>1. 0 \in Q
  BY DEF Flats
<1>2. ASSUME NEW m \in 0 .. n - 1, m \in Q PROVE m + 1 \in Q
  <2>1. g[m] = h[m] /\ g[m + 1] = g[m] \o ss[m + 1] /\ h[m + 1] = h[m] \o ss[m + 1]
    BY <1>2 DEF Flats
  <2>2. g[m + 1] = h[m + 1]
    BY <2>1
  <2> QED BY <2>2
<1>3. \A k \in 0 .. n : k \in Q
  <2> HIDE DEF Q
  <2> QED BY <1>1, <1>2, UpTo
<1> QED BY <1>3

LEMMA FlattenSteps ==
  ASSUME NEW A, NEW ss \in Seq(Seq(A))
  PROVE  \E g : Flats(g, ss, Len(ss)) /\ FlattenSeq(ss) = g[Len(ss)]
<1>0. Len(ss) \in Nat /\ \A i \in 1 .. Len(ss) : ss[i] \in Seq(A)
  BY ElementOfSeq
<1>1. CASE Len(ss) = 0
  <2> DEFINE g == [k \in 0 .. 0 |-> << >>]
  <2>1. FlattenSeq(ss) = ss /\ ss = << >>
    BY <1>1 DEF FlattenSeq
  <2>2. Flats(g, ss, 0)
    BY DEF Flats
  <2>3. g[0] = << >>
    OBVIOUS
  <2> QED BY <1>1, <2>1, <2>2, <2>3
<1>2. CASE Len(ss) # 0
  <2> DEFINE Rhs(f, i) == IF i = 1 THEN ss[i] ELSE f[i - 1] \o ss[i]
             Made(f, m) == DOMAIN f = 1 .. m + 1 /\ f = [i \in 1 .. m + 1 |-> Rhs(f, i)]
             Q == {m \in Nat : \E f : Made(f, m)}
             l == Len(ss) - 1
  <2>0. l \in Nat /\ l + 1 = Len(ss)
    BY <1>0, <1>2
  <2>1. 0 \in Q
    <3> DEFINE f == [i \in 1 .. 0 + 1 |-> ss[i]]
    <3>1. \A i \in 1 .. 0 + 1 : f[i] = Rhs(f, i)
      OBVIOUS
    <3>2. f = [i \in 1 .. 0 + 1 |-> f[i]] /\ DOMAIN f = 1 .. 0 + 1
      OBVIOUS
    <3> HIDE DEF f
    <3>3. Made(f, 0)
      BY <3>1, <3>2
    <3> HIDE DEF Made
    <3> QED BY <3>3
  <2>2. ASSUME NEW m \in 0 .. l - 1, m \in Q PROVE m + 1 \in Q
    <3>1. PICK f : Made(f, m)
      BY <2>2
    <3> DEFINE e == [i \in 1 .. (m + 1) + 1 |-> IF i = (m + 1) + 1 THEN f[m + 1] \o ss[i] ELSE f[i]]
    <3>2. \A i \in 1 .. m + 1 : f[i] = Rhs(f, i)
      BY <3>1
    <3>3. m \in Nat
      BY <2>0
    <3>4. ASSUME NEW i \in 1 .. (m + 1) + 1 PROVE e[i] = Rhs(e, i)
      <4>1. CASE i = (m + 1) + 1
        <5>1. i # 1 /\ i - 1 = m + 1 /\ i - 1 \in 1 .. (m + 1) + 1 /\ i - 1 # (m + 1) + 1
          BY <3>3, <4>1
        <5>2. e[i] = f[m + 1] \o ss[i] /\ e[i - 1] = f[i - 1]
          BY <4>1, <5>1
        <5> HIDE DEF e
        <5> QED BY <5>1, <5>2
      <4>2. CASE i # (m + 1) + 1
        <5>1. i \in 1 .. m + 1 /\ e[i] = f[i]
          BY <3>3, <4>2
        <5>2. f[i] = Rhs(f, i)
          BY <3>2, <5>1
        <5>3. i # 1 => i - 1 \in 1 .. (m + 1) + 1 /\ i - 1 # (m + 1) + 1
          BY <3>3, <5>1
        <5>4. i # 1 => e[i - 1] = f[i - 1]
          BY <5>3
        <5> HIDE DEF e
        <5> QED BY <5>1, <5>2, <5>4
      <4> QED BY <4>1, <4>2
    <3>5. e = [i \in 1 .. (m + 1) + 1 |-> e[i]] /\ DOMAIN e = 1 .. (m + 1) + 1
      OBVIOUS
    <3> HIDE DEF e
    <3>6. Made(e, m + 1)
      BY <3>4, <3>5
    <3> HIDE DEF Made
    <3> QED BY <3>3, <3>6
  <2>3. \A k \in 0 .. l : k \in Q
    <3> HIDE DEF Q, l
    <3> QED BY <2>0, <2>1, <2>2, UpTo
  <2>4. \E f : f = [i \in 1 .. Len(ss) |-> IF i = 1 THEN ss[i] ELSE f[i - 1] \o ss[i]]
    <3>1. l \in Q
      <4> HIDE DEF Q
      <4> QED BY <2>0, <2>3
    <3>2. PICK f : Made(f, l)
      BY <3>1
    <3> HIDE DEF l
    <3>3. f = [i \in 1 .. Len(ss) |-> Rhs(f, i)]
      BY <2>0, <3>2
    <3> QED BY <3>3
  <2> DEFINE flatten == CHOOSE f : f = [i \in 1 .. Len(ss) |-> IF i = 1 THEN ss[i] ELSE f[i - 1] \o ss[i]]
  <2>5. flatten = [i \in 1 .. Len(ss) |-> IF i = 1 THEN ss[i] ELSE flatten[i - 1] \o ss[i]]
    BY <2>4
  <2>6. FlattenSeq(ss) = flatten[Len(ss)]
    BY <1>2 DEF FlattenSeq
  <2> HIDE DEF flatten
  <2> DEFINE g == [k \in 0 .. Len(ss) |-> IF k = 0 THEN << >> ELSE flatten[k]]
  <2>7. ASSUME NEW k \in 0 .. Len(ss) - 1 PROVE g[k + 1] = g[k] \o ss[k + 1]
    <3>0. k + 1 \in 1 .. Len(ss) /\ (k + 1) - 1 = k /\ k \in 0 .. Len(ss) /\ k + 1 # 0 /\ k + 1 \in 0 .. Len(ss)
      BY <1>0
    <3>1. g[k + 1] = flatten[k + 1]
      BY <3>0
    <3>2. CASE k = 0
      <4>1. flatten[k + 1] = ss[k + 1] /\ g[k] = << >>
        BY <2>5, <3>0, <3>2
      <4>2. ss[k + 1] \in Seq(A)
        BY <1>0, <3>0
      <4> HIDE DEF g
      <4> QED BY <3>1, <4>1, <4>2, ConcatEmptySeq
    <3>3. CASE k # 0
      <4>1. flatten[k + 1] = flatten[k] \o ss[k + 1] /\ g[k] = flatten[k]
        <5>1. k + 1 # 1
          BY <3>3
        <5>2. flatten[k + 1] = flatten[(k + 1) - 1] \o ss[k + 1]
          BY <2>5, <3>0, <5>1
        <5> QED BY <3>0, <3>3, <5>2
      <4> HIDE DEF g
      <4> QED BY <3>1, <4>1
    <3> QED BY <3>2, <3>3
  <2>8. g[0] = << >> /\ g[Len(ss)] = flatten[Len(ss)]
    BY <1>0, <1>2
  <2> HIDE DEF g
  <2>9. Flats(g, ss, Len(ss))
    BY <2>7, <2>8 DEF Flats
  <2> QED BY <2>6, <2>8, <2>9
<1> QED BY <1>1, <1>2

LEMMA FlattenIs ==
  ASSUME NEW A, NEW ss \in Seq(Seq(A)), NEW g, Flats(g, ss, Len(ss))
  PROVE  FlattenSeq(ss) = g[Len(ss)] /\ FlattenSeq(ss) \in Seq(A)
<1>1. PICK h : Flats(h, ss, Len(ss)) /\ FlattenSeq(ss) = h[Len(ss)]
  BY FlattenSteps
<1>2. Len(ss) \in Nat /\ Len(ss) \in 0 .. Len(ss)
  OBVIOUS
<1>3. g[Len(ss)] = h[Len(ss)]
  BY <1>1, <1>2, FlatsAgree
<1>4. g[Len(ss)] \in Seq(A)
  BY <1>2, FlatsType
<1> QED BY <1>1, <1>3, <1>4

LEMMA FlattenType == ASSUME NEW A, NEW ss \in Seq(Seq(A)) PROVE FlattenSeq(ss) \in Seq(A)
BY FlattenSteps, FlattenIs

LEMMA FlattenOfConcat ==
  ASSUME NEW A, NEW ss \in Seq(Seq(A)), NEW tt \in Seq(Seq(A))
  PROVE  FlattenSeq(ss \o tt) = FlattenSeq(ss) \o FlattenSeq(tt)
<1> DEFINE uu == ss \o tt
           n == Len(ss)
           m == Len(tt)
<1>1. PICK g : Flats(g, ss, n) /\ FlattenSeq(ss) = g[n]
  BY FlattenSteps
<1>2. PICK h : Flats(h, tt, m) /\ FlattenSeq(tt) = h[m]
  BY FlattenSteps
<1>3. /\ uu \in Seq(Seq(A)) /\ Len(uu) = n + m
      /\ \A i \in 1 .. n + m : uu[i] = IF i <= n THEN ss[i] ELSE tt[i - n]
  BY ConcatProperties
<1>4. (\A k \in 0 .. n : g[k] \in Seq(A)) /\ (\A k \in 0 .. m : h[k] \in Seq(A))
  BY <1>1, <1>2, FlatsType
<1>5. n \in Nat /\ m \in Nat /\ \A i \in 1 .. m : tt[i] \in Seq(A)
  BY ElementOfSeq
<1> HIDE DEF uu, n, m
<1> DEFINE Rest(j) == g[n] \o h[j]
           f == [k \in 0 .. n + m |-> IF k <= n THEN g[k] ELSE Rest(k - n)]
<1>6. ASSUME NEW k \in 0 .. (n + m) - 1 PROVE f[k + 1] = f[k] \o uu[k + 1]
  <2>0. k \in 0 .. n + m /\ k + 1 \in 0 .. n + m /\ k + 1 \in 1 .. n + m
    BY <1>5
  <2>1. CASE k + 1 <= n
    <3>1. f[k + 1] = g[k + 1] /\ f[k] = g[k] /\ uu[k + 1] = ss[k + 1]
      BY <1>3, <1>5, <2>0, <2>1
    <3>2. k \in 0 .. n - 1
      BY <1>5, <2>1
    <3>3. g[k + 1] = g[k] \o ss[k + 1]
      BY <1>1, <3>2 DEF Flats
    <3> HIDE DEF f
    <3> QED BY <3>1, <3>3
  <2>2. CASE k + 1 > n
    <3> DEFINE j == k - n
    <3>1. j \in 0 .. m - 1 /\ (k + 1) - n = j + 1 /\ j + 1 \in 1 .. m /\ j \in 0 .. m
      BY <1>5, <2>2
    <3>2. f[k + 1] = Rest(j + 1) /\ uu[k + 1] = tt[j + 1]
      <4>1. ~(k + 1 <= n)
        BY <1>5, <2>2
      <4>2. f[k + 1] = Rest((k + 1) - n) /\ uu[k + 1] = tt[(k + 1) - n]
        <5> HIDE DEF Rest
        <5> QED BY <1>3, <2>0, <4>1
      <4> QED BY <3>1, <4>2
    <3>3. h[j + 1] = h[j] \o tt[j + 1] /\ h[0] = << >>
      BY <1>2, <3>1 DEF Flats
    <3>4. f[k] = g[n] \o h[j]
      <4>1. CASE k = n
        <5>1. j = 0 /\ f[k] = g[n]
          BY <1>5, <2>0, <4>1
        <5>2. g[n] \in Seq(A)
          BY <1>4, <1>5
        <5> HIDE DEF f, j
        <5> QED BY <3>3, <5>1, <5>2, ConcatEmptySeq
      <4>2. CASE k # n
        <5>1. ~(k <= n)
          BY <1>5, <2>2, <4>2
        <5>2. f[k] = Rest(k - n)
          <6> HIDE DEF Rest
          <6> QED BY <2>0, <5>1
        <5> QED BY <5>2
      <4> QED BY <4>1, <4>2
    <3>5. g[n] \in Seq(A) /\ h[j] \in Seq(A) /\ tt[j + 1] \in Seq(A)
      BY <1>4, <1>5, <3>1
    <3> HIDE DEF f, j
    <3>6. (g[n] \o h[j]) \o tt[j + 1] = g[n] \o (h[j] \o tt[j + 1])
      <4> DEFINE x == g[n]
                 y == h[j]
                 z == tt[j + 1]
      <4>1. x \in Seq(A) /\ y \in Seq(A) /\ z \in Seq(A)
        BY <3>5
      <4> HIDE DEF x, y, z
      <4>2. (x \o y) \o z = x \o (y \o z)
        BY <4>1, ConcatAssociative
      <4> QED BY <4>2 DEF x, y, z
    <3> QED BY <3>2, <3>3, <3>4, <3>6, Zenon
  <2>3. k + 1 <= n \/ k + 1 > n
    BY <1>5
  <2> QED BY <2>1, <2>2, <2>3
<1>7. f[0] = << >> /\ f[n + m] = g[n] \o h[m]
  <2>1. f[0] = g[0] /\ g[0] = << >>
    BY <1>1, <1>5 DEF Flats
  <2>2. CASE m = 0
    <3>1. f[n + m] = g[n] /\ h[m] = << >> /\ g[n] \in Seq(A)
      BY <1>2, <1>4, <1>5, <2>2 DEF Flats
    <3> HIDE DEF f
    <3> QED BY <2>1, <3>1, ConcatEmptySeq
  <2>3. CASE m # 0
    <3>1. ~(n + m <= n) /\ (n + m) - n = m /\ n + m \in 0 .. n + m
      BY <1>5, <2>3
    <3>2. f[n + m] = Rest((n + m) - n)
      <4> HIDE DEF Rest
      <4> QED BY <3>1
    <3> QED BY <2>1, <3>1, <3>2
  <2> QED BY <2>2, <2>3
<1> HIDE DEF f
<1>8. Flats(f, uu, Len(uu))
  BY <1>3, <1>6, <1>7 DEF Flats
<1>9. FlattenSeq(uu) = f[Len(uu)]
  BY <1>3, <1>8, FlattenIs
<1> QED BY <1>1, <1>2, <1>3, <1>7, <1>9 DEF uu

LEMMA FlattenOfOne == ASSUME NEW A, NEW x \in Seq(A) PROVE FlattenSeq(<<x>>) = x
<1> DEFINE ss == <<x>>
           g == [k \in 0 .. 1 |-> IF k = 0 THEN << >> ELSE x]
<1>1. ss \in Seq(Seq(A)) /\ Len(ss) = 1 /\ ss[1] = x
  OBVIOUS
<1>2. g[0] = << >> /\ g[1] = x
  OBVIOUS
<1> HIDE DEF ss, g
<1>3. << >> \o x = x
  BY ConcatEmptySeq
<1>4. \A k \in 0 .. 1 - 1 : k = 0 /\ k + 1 = 1
  OBVIOUS
<1>5. Flats(g, ss, Len(ss))
  BY <1>1, <1>2, <1>3, <1>4 DEF Flats
<1>6. FlattenSeq(ss) = g[Len(ss)]
  BY <1>1, <1>5, FlattenIs
<1> QED BY <1>1, <1>2, <1>6 DEF ss

LEMMA FlattenOfNone == FlattenSeq(<< >>) = << >>
BY DEF FlattenSeq

LEMMA FlattenOfAppend ==
  ASSUME NEW A, NEW ss \in Seq(Seq(A)), NEW x \in Seq(A)
  PROVE  FlattenSeq(Append(ss, x)) = FlattenSeq(ss) \o x
<1>1. Append(ss, x) = ss \o <<x>> /\ <<x>> \in Seq(Seq(A))
  OBVIOUS
<1>2. FlattenSeq(ss \o <<x>>) = FlattenSeq(ss) \o FlattenSeq(<<x>>)
  BY <1>1, FlattenOfConcat
<1> QED BY <1>1, <1>2, FlattenOfOne
=============================================================================
