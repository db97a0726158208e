------------------------------ MODULE SumProofs ------------------------------
(***************************************************************************)
(* What a sum is, for any finite number of amounts: the provers know no    *)
(* induction over an operator, but the least number of a set is a fact     *)
(* they can use (WFMin), and a set of counterexamples has none.            *)
(***************************************************************************)
EXTENDS Sums, Integers, FiniteSetTheorems, WellFoundedInduction, TLAPS

-----------------------------------------------------------------------------
(***************************************************************************)
(* Induction in a form the provers can instantiate: over a set, by its     *)
(* least counterexample.                                                   *)
(***************************************************************************)
LEMMA LeastIn ==
  ASSUME NEW T \in SUBSET Nat, T # {}
  PROVE  \E x \in T : \A y \in T : x <= y
<1>1. PICK x \in T : \A y \in T : <<y, x>> \notin OpToRel(<, Nat)
  BY NatLessThanWellFounded, WFMin
<1>2. ASSUME NEW y \in T PROVE x <= y
  <2>1. <<y, x>> \notin {ss \in Nat \X Nat : ss[1] < ss[2]}
    BY <1>1, Zenon DEF OpToRel
  <2> QED
    BY <2>1
<1> QED
  BY <1>1, <1>2

\* Induction, in the form the provers can instantiate: over a set of naturals.
LEMMA NatSetInduction ==
  ASSUME NEW S, 0 \in S, \A n \in Nat : n \in S => n + 1 \in S
  PROVE  Nat \subseteq S
<1> DEFINE T == {n \in Nat : n \notin S}
<1>1. SUFFICES ASSUME T # {} PROVE FALSE
  OBVIOUS
<1>2. PICK x \in T : \A y \in T : x <= y
  <2>1. T \in SUBSET Nat
    OBVIOUS
  <2> HIDE DEF T
  <2> QED
    BY <1>1, <2>1, LeastIn
<1>3. x \in Nat /\ x # 0 /\ x - 1 \in Nat /\ x - 1 \in S
  BY <1>2
<1> QED
  BY <1>2, <1>3

Chosen(s) == CHOOSE x \in s : TRUE

LEMMA ChosenIsIn == ASSUME NEW s, s # {} PROVE Chosen(s) \in s
  BY DEF Chosen

\* Any set that holds {} and, with a set without its chosen element, the set itself,
\* holds every subset of a finite set.
LEMMA SubsetInduction ==
  ASSUME NEW D, IsFiniteSet(D), NEW P, {} \in P,
         \A s \in SUBSET D : s # {} /\ s \ {Chosen(s)} \in P => s \in P
  PROVE  SUBSET D \subseteq P
<1> DEFINE N == {n \in Nat : \A s \in SUBSET D : Cardinality(s) = n => s \in P}
<1>1. \A s \in SUBSET D : IsFiniteSet(s) /\ Cardinality(s) \in Nat
  BY FS_Subset, FS_CardinalityType
<1>2. 0 \in N
  BY <1>1, FS_EmptySet
<1>3. ASSUME NEW n \in Nat, n \in N PROVE n + 1 \in N
  <2> SUFFICES ASSUME NEW s \in SUBSET D, Cardinality(s) = n + 1 PROVE s \in P
    BY <1>3
  <2>1. s # {}
    BY FS_EmptySet
  <2>2. Chosen(s) \in s
    BY <2>1, ChosenIsIn
  <2>3. Cardinality(s \ {Chosen(s)}) = n
    BY <1>1, <2>2, FS_RemoveElement
  <2>4. s \ {Chosen(s)} \in P
    BY <1>3, <2>3
  <2> QED
    BY <2>1, <2>4
<1>4. Nat \subseteq N
  <2> HIDE DEF N
  <2> QED
    BY <1>2, <1>3, NatSetInduction
<1> QED
  BY <1>1, <1>4

-----------------------------------------------------------------------------
(***************************************************************************)
(* What a sum is: a function on the subsets of its domain, an element at a *)
(* time.                                                                   *)
(***************************************************************************)

SumFrom(g, f, s) == IF s = {} THEN 0 ELSE f[Chosen(s)] + g[s \ {Chosen(s)}]
Partial(g, f, D) == g = [s \in SUBSET D |-> SumFrom(g, f, s)]

LEMMA SumIs == ASSUME NEW f PROVE SumOf(f) = (CHOOSE g : Partial(g, f, DOMAIN f))[DOMAIN f]
  BY DEF SumOf, Sets!MapThenSumSet, Sets!MapThenFoldSet, Partial, SumFrom, Chosen

LEMMA PartialExists ==
  ASSUME NEW D, IsFiniteSet(D), NEW f \in [D -> Nat]
  PROVE  \E g : Partial(g, f, D)
<1> DEFINE Level(n) == {s \in SUBSET D : Cardinality(s) <= n}
           Upto(g, n) == g = [s \in Level(n) |-> SumFrom(g, f, s)]
           N == {n \in Nat : \E g : Upto(g, n)}
<1>1. \A s \in SUBSET D : IsFiniteSet(s) /\ Cardinality(s) \in Nat /\ Cardinality(s) <= Cardinality(D)
  BY FS_Subset, FS_CardinalityType
<1>2. \A s \in SUBSET D : s # {} => Cardinality(s \ {Chosen(s)}) = Cardinality(s) - 1
  BY <1>1, ChosenIsIn, FS_RemoveElement
<1>3. 0 \in N
  <2> DEFINE g == [s \in Level(0) |-> 0]
  <2>1. \A s \in Level(0) : s = {}
    BY <1>1, FS_EmptySet
  <2>2. Upto(g, 0)
    BY <2>1 DEF SumFrom
  <2> QED
    BY <2>2
<1>4. ASSUME NEW n \in Nat, n \in N PROVE n + 1 \in N
  <2>1. PICK g : Upto(g, n)
    BY <1>4
  <2> DEFINE h == [s \in Level(n + 1) |-> SumFrom(g, f, s)]
  <2>2. \A s \in Level(n) : h[s] = g[s]
    BY <1>1, <2>1
  <2>3. ASSUME NEW s \in Level(n + 1) PROVE SumFrom(g, f, s) = SumFrom(h, f, s)
    <3>1. CASE s = {}
      BY <3>1 DEF SumFrom
    <3>2. CASE s # {}
      <4>1. s \ {Chosen(s)} \in Level(n)
        BY <1>1, <1>2, <3>2
      <4>2. h[s \ {Chosen(s)}] = g[s \ {Chosen(s)}]
        BY <2>2, <4>1
      <4> HIDE DEF h
      <4> QED
        BY <3>2, <4>2, Zenon DEF SumFrom
    <3> QED
      BY <3>1, <3>2
  <2>4. Upto(h, n + 1)
    BY <2>3
  <2> HIDE DEF h, Upto, Level
  <2> QED
    BY <2>4
<1>5. Nat \subseteq N
  <2> HIDE DEF N
  <2> QED
    BY <1>3, <1>4, NatSetInduction
<1>6. Level(Cardinality(D)) = SUBSET D
  BY <1>1
<1>7. PICK g : Upto(g, Cardinality(D))
  BY <1>5, FS_CardinalityType
<1> QED
  BY <1>6, <1>7 DEF Partial

AddsUp(g, f, D) ==
    /\ g \in [SUBSET D -> Nat] /\ SumOf(f) = g[D] /\ g[{}] = 0
    /\ \A s \in SUBSET D : s # {} => g[s] = f[Chosen(s)] + g[s \ {Chosen(s)}]

LEMMA SumSteps ==
  ASSUME NEW D, IsFiniteSet(D), NEW f \in [D -> Nat]
  PROVE  \E g : AddsUp(g, f, D)
<1> DEFINE g == CHOOSE h : Partial(h, f, D)
           P == {s \in SUBSET D : g[s] \in Nat}
<1>1. Partial(g, f, D)
  BY PartialExists
<1>2. SumOf(f) = g[D]
  BY SumIs
<1> HIDE DEF g
<1>3. g[{}] = 0 /\ \A s \in SUBSET D : s # {} => g[s] = f[Chosen(s)] + g[s \ {Chosen(s)}]
  BY <1>1 DEF Partial, SumFrom
<1>4. {} \in P
  BY <1>3
<1>5. ASSUME NEW s \in SUBSET D, s # {}, s \ {Chosen(s)} \in P PROVE s \in P
  <2>1. f[Chosen(s)] \in Nat
    BY <1>5, ChosenIsIn
  <2> QED
    BY <1>3, <1>5, <2>1
<1>6. SUBSET D \subseteq P
  <2> HIDE DEF P
  <2> QED
    BY <1>4, <1>5, SubsetInduction
<1>7. g \in [SUBSET D -> Nat]
  BY <1>1, <1>6 DEF Partial
<1> QED
  BY <1>2, <1>3, <1>7 DEF AddsUp

-----------------------------------------------------------------------------
\* A sum of finitely many naturals is a natural: the total of any cart is a number
\* of cents, and the checksum of any card number is a number.
THEOREM SumIsNatural ==
  ASSUME NEW D, IsFiniteSet(D), NEW f \in [D -> Nat]
  PROVE  SumOf(f) \in Nat
<1>1. PICK g : AddsUp(g, f, D)
  BY SumSteps
<1> QED
  BY <1>1 DEF AddsUp

\* Two sums whose terms differ in one place differ by as much.
THEOREM SumDiffers ==
  ASSUME NEW D, IsFiniteSet(D), NEW f \in [D -> Nat], NEW h \in [D -> Nat], NEW i \in D,
         \A j \in D \ {i} : f[j] = h[j]
  PROVE  SumOf(h) + f[i] = SumOf(f) + h[i]
<1>1. PICK a : AddsUp(a, f, D)
  BY SumSteps
<1>2. PICK b : AddsUp(b, h, D)
  BY SumSteps
<1> DEFINE P == {s \in SUBSET D : IF i \in s THEN b[s] + f[i] = a[s] + h[i] ELSE b[s] = a[s]}
<1>3. {} \in P
  BY <1>1, <1>2 DEF AddsUp
<1>4. ASSUME NEW s \in SUBSET D, s # {}, s \ {Chosen(s)} \in P PROVE s \in P
  <2> DEFINE c == Chosen(s)
             t == s \ {c}
  <2>1. c \in s /\ t \in SUBSET D /\ c \notin t
    BY <1>4, ChosenIsIn
  <2>2. a[s] = f[c] + a[t] /\ b[s] = h[c] + b[t]
    BY <1>1, <1>2, <1>4 DEF AddsUp
  <2>3. /\ a[t] \in Nat /\ b[t] \in Nat /\ f[c] \in Nat /\ h[c] \in Nat /\ f[i] \in Nat /\ h[i] \in Nat
        /\ a[s] \in Nat /\ b[s] \in Nat
    BY <1>1, <1>2, <2>1 DEF AddsUp
  <2>4. IF i \in t THEN b[t] + f[i] = a[t] + h[i] ELSE b[t] = a[t]
    BY <1>4
  <2>5. c # i => f[c] = h[c]
    BY <2>1
  <2>6. (i \in s) <=> (i = c \/ i \in t)
    BY <2>1
  <2> HIDE DEF c, t
  <2>7. IF i \in s THEN b[s] + f[i] = a[s] + h[i] ELSE b[s] = a[s]
    BY <2>1, <2>2, <2>3, <2>4, <2>5, <2>6
  <2> QED
    BY <2>7
<1>5. SUBSET D \subseteq P
  <2> HIDE DEF P
  <2> QED
    BY <1>3, <1>4, SubsetInduction
<1>6. D \in P
  BY <1>5
<1> QED
  BY <1>1, <1>2, <1>6 DEF AddsUp
=============================================================================
