----------------------------- MODULE SumTheorems -----------------------------
(***************************************************************************)
(* Facts about SumFunctionOnSet(v, S), the sum of v[x] for the x of a      *)
(* finite set S, that the proofs about durations, the disk pool and the    *)
(* time played rest on.  The community module defines it by a recursion    *)
(* over the subsets of S that takes out a CHOOSEn element first; here it   *)
(* is shown that such a recursion exists, and then that any element may be *)
(* taken out.  Each induction is over a set of naturals.                   *)
(***************************************************************************)
EXTENDS Integers, FiniteSets, Functions, FiniteSetTheorems, TLAPS

\* A set of naturals with 0 and the successor of each member has all of them.
LEMMA NaturalsByInduction ==
    ASSUME NEW T, 0 \in T, \A n \in Nat : n \in T => n + 1 \in T
    PROVE  Nat \subseteq T
<1> DEFINE Left == Nat \ T
<1>1. SUFFICES ASSUME Left # {} PROVE FALSE
    OBVIOUS
<1>2. IsWellFoundedOn(OpToRel(<, Nat), Nat)
    BY NatLessThanWellFounded
<1>3. PICK n \in Left : \A m \in Left : ~(<<m, n>> \in OpToRel(<, Nat))
    <2> HIDE DEF Left
    <2>1. Left \subseteq Nat
        BY DEF Left
    <2> QED
        BY <1>1, <1>2, <2>1, WFMin
<1>4. n \in Nat /\ n # 0 /\ n - 1 \in Nat
    OBVIOUS
<1>5. n - 1 \in Left
    BY <1>4
<1>6. <<n - 1, n>> \in OpToRel(<, Nat)
    BY <1>4 DEF OpToRel
<1> QED
    BY <1>3, <1>5, <1>6

\* A set of naturals with a member has a least one.
LEMMA LeastNatural ==
    ASSUME NEW S \in SUBSET Nat, S # {}
    PROVE  \E n \in S : \A m \in S : n <= m
<1>1. IsWellFoundedOn(OpToRel(<, Nat), Nat)
    BY NatLessThanWellFounded
<1>2. PICK n \in S : \A m \in S : ~(<<m, n>> \in OpToRel(<, Nat))
    BY <1>1, WFMin
<1>3. \A m \in S : ~(m < n)
    BY <1>2 DEF OpToRel
<1> QED
    BY <1>3

\* The element the recursion takes out of a set.
Picked(s) == CHOOSE x \in s : TRUE

LEMMA PickedIsIn == ASSUME NEW s, s # {} PROVE Picked(s) \in s
    BY DEF Picked

\* What it computes for s from what g says of the smaller sets.
SumStep(g, v, s) == IF s = {} THEN 0 ELSE v[Picked(s)] + g[s \ {Picked(s)}]

\* g is the recursion for the sum of v over every subset of S.
Sums(g, v, S) == g = [s \in SUBSET S |-> SumStep(g, v, s)]

LEMMA SumIsChosen ==
    ASSUME NEW v, NEW S
    PROVE  SumFunctionOnSet(v, S) = (CHOOSE g : Sums(g, v, S))[S]
    BY DEF SumFunctionOnSet, FoldFunctionOnSet, MapThenFoldSet, Sums, SumStep, Picked

\* Taking the picked element out of a subset leaves a smaller one.
LEMMA PickedShrinks ==
    ASSUME NEW S, IsFiniteSet(S), NEW s \in SUBSET S, s # {}
    PROVE  /\ Picked(s) \in S
           /\ s \ {Picked(s)} \in SUBSET S
           /\ IsFiniteSet(s) /\ IsFiniteSet(s \ {Picked(s)})
           /\ Cardinality(s) \in Nat /\ Cardinality(s) > 0
           /\ Cardinality(s \ {Picked(s)}) = Cardinality(s) - 1
<1>1. IsFiniteSet(s)
    BY FS_Subset
<1>2. Picked(s) \in s
    BY PickedIsIn
<1>3. Cardinality(s) \in Nat /\ Cardinality(s) # 0
    BY <1>1, FS_CardinalityType, FS_EmptySet
<1>4. /\ IsFiniteSet(s \ {Picked(s)})
      /\ Cardinality(s \ {Picked(s)}) = Cardinality(s) - 1
    BY <1>1, <1>2, FS_RemoveElement
<1> QED
    BY <1>1, <1>2, <1>3, <1>4

LEMMA SubsetSize ==
    ASSUME NEW S, IsFiniteSet(S), NEW s \in SUBSET S
    PROVE  /\ IsFiniteSet(s) /\ Cardinality(s) \in Nat
           /\ Cardinality(s) <= 0 => s = {}
<1>1. IsFiniteSet(s)
    BY FS_Subset
<1>2. Cardinality(s) \in Nat
    BY <1>1, FS_CardinalityType
<1>3. Cardinality(s) = 0 => s = {}
    BY <1>1, FS_EmptySet
<1> QED
    BY <1>1, <1>2, <1>3

\* Such a recursion exists: it is built up by the size of the subsets.
LEMMA SumsExist ==
    ASSUME NEW S, IsFiniteSet(S), NEW v, \A x \in S : v[x] \in Int
    PROVE  \E g \in [SUBSET S -> Int] : Sums(g, v, S)
<1> DEFINE UpTo(g, n) == \A s \in SUBSET S : Cardinality(s) <= n => g[s] = SumStep(g, v, s)
           T == {n \in Nat : \E g \in [SUBSET S -> Int] : UpTo(g, n)}
<1>1. 0 \in T
    <2> DEFINE g == [s \in SUBSET S |-> 0]
    <2>1. g \in [SUBSET S -> Int]
        OBVIOUS
    <2>2. ASSUME NEW s \in SUBSET S, Cardinality(s) <= 0 PROVE s = {}
        BY <2>2, SubsetSize
    <2>3. UpTo(g, 0)
        BY <2>2 DEF SumStep
    <2> QED
        BY <2>1, <2>3
<1>2. ASSUME NEW n \in Nat, n \in T PROVE n + 1 \in T
    <2>1. PICK g \in [SUBSET S -> Int] : UpTo(g, n)
        BY <1>2
    <2> DEFINE h == [s \in SUBSET S |-> SumStep(g, v, s)]
    <2>2. ASSUME NEW s \in SUBSET S PROVE SumStep(g, v, s) \in Int
        BY PickedShrinks DEF SumStep
    <2>3. h \in [SUBSET S -> Int]
        BY <2>2
    <2>4. ASSUME NEW s \in SUBSET S, Cardinality(s) <= n + 1
          PROVE  h[s] = SumStep(h, v, s)
        <3>1. CASE s = {}
            BY <3>1 DEF SumStep
        <3>2. CASE s # {}
            <4> DEFINE r == s \ {Picked(s)}
            <4>0. Cardinality(s) \in Nat /\ Cardinality(r) = Cardinality(s) - 1
                BY <3>2, PickedShrinks
            <4>1. r \in SUBSET S /\ Cardinality(r) <= n
                <5> HIDE DEF r
                <5>1. Cardinality(r) <= n
                    BY <2>4, <4>0
                <5> QED
                    BY <5>1 DEF r
            <4>2. g[r] = h[r]
                BY <2>1, <4>1
            <4> QED
                BY <3>2, <4>2 DEF SumStep
        <3> QED
            BY <3>1, <3>2
    <2>5. UpTo(h, n + 1)
        BY <2>4
    <2> HIDE DEF h
    <2>6. \E f \in [SUBSET S -> Int] : UpTo(f, n + 1)
        BY <2>3, <2>5
    <2> QED
        BY <2>6
<1>3. Cardinality(S) \in T
    <2> HIDE DEF T
    <2> QED
        BY <1>1, <1>2, NaturalsByInduction, FS_CardinalityType
<1>4. PICK g \in [SUBSET S -> Int] : UpTo(g, Cardinality(S))
    BY <1>3
<1>5. \A s \in SUBSET S : Cardinality(s) <= Cardinality(S)
    BY FS_Subset
<1>6. Sums(g, v, S)
    BY <1>4, <1>5 DEF Sums
<1> QED
    BY <1>6

\* Two recursions agree on what both compute.
LEMMA SumsAgree ==
    ASSUME NEW S, IsFiniteSet(S), NEW v, NEW w, NEW R \in SUBSET S,
           \A x \in R : v[x] = w[x],
           NEW g, Sums(g, v, S), NEW h, Sums(h, w, R)
    PROVE  \A s \in SUBSET R : g[s] = h[s]
<1> DEFINE T == {n \in Nat : \A s \in SUBSET R : Cardinality(s) = n => g[s] = h[s]}
<1>0. /\ IsFiniteSet(R) /\ SUBSET R \subseteq SUBSET S
      /\ \A s \in SUBSET S : g[s] = SumStep(g, v, s)
      /\ \A s \in SUBSET R : h[s] = SumStep(h, w, s)
    BY FS_Subset DEF Sums
<1>1. 0 \in T
    <2>1. ASSUME NEW s \in SUBSET R, Cardinality(s) = 0 PROVE s = {}
        BY <1>0, <2>1, SubsetSize
    <2> QED
        BY <1>0, <2>1 DEF SumStep
<1>2. ASSUME NEW n \in Nat, n \in T PROVE n + 1 \in T
    <2>1. ASSUME NEW s \in SUBSET R, Cardinality(s) = n + 1 PROVE g[s] = h[s]
        <3> DEFINE r == s \ {Picked(s)}
        <3>1. s # {}
            BY <2>1, FS_EmptySet
        <3>2. r \in SUBSET R /\ Cardinality(r) = n /\ Picked(s) \in R
            <4>1. /\ Cardinality(r) = Cardinality(s) - 1
                  /\ r \in SUBSET R /\ Picked(s) \in R
                BY <1>0, <3>1, PickedShrinks
            <4> HIDE DEF r
            <4> QED
                BY <2>1, <4>1
        <3>3. g[r] = h[r] /\ v[Picked(s)] = w[Picked(s)]
            BY <1>2, <3>2
        <3> QED
            BY <1>0, <3>1, <3>3 DEF SumStep
    <2> QED
        BY <2>1
<1>3. Nat \subseteq T
    <2> HIDE DEF T
    <2> QED
        BY <1>1, <1>2, NaturalsByInduction
<1> QED
    BY <1>0, <1>3, FS_Subset, FS_CardinalityType

-----------------------------------------------------------------------------
(* What is cited elsewhere.                                                *)

LEMMA SumOfSubset ==
    ASSUME NEW S, IsFiniteSet(S), NEW v, \A x \in S : v[x] \in Int,
           NEW g, Sums(g, v, S), NEW R \in SUBSET S
    PROVE  g[R] = SumFunctionOnSet(v, R)
<1> DEFINE h == CHOOSE f : Sums(f, v, R)
<1>1. IsFiniteSet(R) /\ \A x \in R : v[x] \in Int
    BY FS_Subset
<1>2. Sums(h, v, R)
    BY <1>1, SumsExist
<1>3. g[R] = h[R]
    <2> HIDE DEF h
    <2> QED
        BY <1>2, SumsAgree
<1> QED
    BY <1>3, SumIsChosen

\* The sum over the empty set, and the recursion on any other.
LEMMA SumRecursion ==
    ASSUME NEW S, IsFiniteSet(S), NEW v, \A x \in S : v[x] \in Int
    PROVE  /\ SumFunctionOnSet(v, S) \in Int
           /\ SumFunctionOnSet(v, S) =
                 IF S = {} THEN 0
                 ELSE v[Picked(S)] + SumFunctionOnSet(v, S \ {Picked(S)})
<1>1. PICK g \in [SUBSET S -> Int] : Sums(g, v, S)
    BY SumsExist
<1>2. g[S] = SumStep(g, v, S) /\ g[S] \in Int
    BY <1>1 DEF Sums
<1>3. \A R \in SUBSET S : g[R] = SumFunctionOnSet(v, R)
    BY <1>1, SumOfSubset
<1> QED
    BY <1>2, <1>3 DEF SumStep

LEMMA SumEmpty == ASSUME NEW v PROVE SumFunctionOnSet(v, {}) = 0
    BY SumRecursion, FS_EmptySet

LEMMA SumType ==
    ASSUME NEW S, IsFiniteSet(S), NEW v, \A x \in S : v[x] \in Int
    PROVE  SumFunctionOnSet(v, S) \in Int
    BY SumRecursion

\* Any element may be taken out first.
LEMMA SumRemove ==
    ASSUME NEW S, IsFiniteSet(S), NEW v, \A x \in S : v[x] \in Int, NEW y \in S
    PROVE  SumFunctionOnSet(v, S) = v[y] + SumFunctionOnSet(v, S \ {y})
<1> DEFINE Sum(s) == SumFunctionOnSet(v, s)
           Free(s) == \A x \in s : Sum(s) = v[x] + Sum(s \ {x})
           T == {n \in Nat : \A s \in SUBSET S : Cardinality(s) = n => Free(s)}
<1>0. ASSUME NEW s \in SUBSET S
      PROVE  /\ IsFiniteSet(s) /\ Cardinality(s) \in Nat
             /\ Sum(s) \in Int
             /\ s # {} => Sum(s) = v[Picked(s)] + Sum(s \ {Picked(s)})
    <2>1. IsFiniteSet(s) /\ \A x \in s : v[x] \in Int
        BY FS_Subset
    <2> QED
        BY <2>1, SumRecursion, FS_CardinalityType
<1> HIDE DEF Sum
<1>1. 0 \in T
    BY <1>0, FS_EmptySet
<1>2. ASSUME NEW n \in Nat, n \in T PROVE n + 1 \in T
    <2>1. ASSUME NEW s \in SUBSET S, Cardinality(s) = n + 1, NEW x \in s
          PROVE  Sum(s) = v[x] + Sum(s \ {x})
        <3> DEFINE c == Picked(s)
                   a == s \ {c}
                   b == s \ {x}
        <3>1. c \in s
            BY PickedIsIn
        <3>2. CASE x = c
            BY <1>0, <3>2
        <3>3. CASE x # c
            <4>1. a \in SUBSET S /\ b \in SUBSET S /\ x \in a /\ c \in b
                BY <3>1, <3>3
            <4>2. Cardinality(a) = n /\ Cardinality(b) = n
                <5>1. IsFiniteSet(s)
                    BY <1>0
                <5>2. /\ Cardinality(s \ {c}) = Cardinality(s) - 1
                      /\ Cardinality(s \ {x}) = Cardinality(s) - 1
                    BY <3>1, <5>1, FS_RemoveElement
                <5> QED
                    BY <2>1, <5>2
            <4>3. Sum(a) = v[x] + Sum(a \ {x}) /\ Sum(b) = v[c] + Sum(b \ {c})
                BY <1>2, <4>1, <4>2
            <4>4. a \ {x} = b \ {c}
                OBVIOUS
            <4>5. Sum(s) = v[c] + Sum(a)
                BY <1>0
            <4>6. v[x] \in Int /\ v[c] \in Int /\ Sum(a \ {x}) \in Int
                <5>1. a \ {x} \in SUBSET S
                    OBVIOUS
                <5> QED
                    BY <1>0, <3>1, <5>1
            <4>61. Sum(a) = v[x] + Sum(a \ {x}) /\ Sum(b) = v[c] + Sum(a \ {x})
                BY <4>3, <4>4
            <4> HIDE DEF c, a, b
            <4>7. Sum(s) = v[x] + Sum(b)
                BY <4>5, <4>6, <4>61
            <4> QED
                BY <4>7 DEF b
        <3> QED
            BY <3>2, <3>3
    <2> QED
        BY <2>1
<1>3. Nat \subseteq T
    <2> HIDE DEF T
    <2> QED
        BY <1>1, <1>2, NaturalsByInduction
<1>4. Free(S)
    BY <1>0, <1>3
<1> QED
    BY <1>4 DEF Sum

LEMMA SumAdd ==
    ASSUME NEW S, IsFiniteSet(S), NEW v, \A x \in S : v[x] \in Int,
           NEW y, y \notin S, v[y] \in Int
    PROVE  SumFunctionOnSet(v, S \cup {y}) = v[y] + SumFunctionOnSet(v, S)
<1>1. IsFiniteSet(S \cup {y}) /\ \A x \in S \cup {y} : v[x] \in Int
    BY FS_AddElement
<1>2. (S \cup {y}) \ {y} = S
    OBVIOUS
<1> QED
    BY <1>1, <1>2, SumRemove

\* The sum only depends on the values at the members of the set.
LEMMA SumSame ==
    ASSUME NEW S, IsFiniteSet(S), NEW v, NEW w,
           \A x \in S : v[x] \in Int /\ w[x] = v[x]
    PROVE  SumFunctionOnSet(w, S) = SumFunctionOnSet(v, S)
<1> DEFINE g == CHOOSE f : Sums(f, v, S)
           h == CHOOSE f : Sums(f, w, S)
<1>1. Sums(g, v, S) /\ Sums(h, w, S)
    BY SumsExist
<1>2. g[S] = h[S]
    <2>1. S \in SUBSET S /\ \A x \in S : v[x] = w[x]
        OBVIOUS
    <2> HIDE DEF g, h
    <2>2. \A s \in SUBSET S : g[s] = h[s]
        BY <1>1, <2>1, SumsAgree
    <2> QED
        BY <2>1, <2>2
<1> QED
    BY <1>2, SumIsChosen

\* A change of one value changes the sum by as much.
LEMMA SumChange ==
    ASSUME NEW S, IsFiniteSet(S), NEW v, NEW w, NEW y \in S,
           \A x \in S : v[x] \in Int /\ w[x] \in Int,
           \A x \in S \ {y} : w[x] = v[x]
    PROVE  SumFunctionOnSet(w, S) = SumFunctionOnSet(v, S) + w[y] - v[y]
<1> DEFINE R == S \ {y}
<1>1. IsFiniteSet(R)
    BY FS_RemoveElement
<1>2. SumFunctionOnSet(w, R) = SumFunctionOnSet(v, R)
    BY <1>1, SumSame
<1>3. SumFunctionOnSet(v, R) \in Int
    BY <1>1, SumType
<1>4. /\ SumFunctionOnSet(w, S) = w[y] + SumFunctionOnSet(w, R)
      /\ SumFunctionOnSet(v, S) = v[y] + SumFunctionOnSet(v, R)
    BY SumRemove
<1> HIDE DEF R
<1> QED
    BY <1>2, <1>3, <1>4

LEMMA SumZero ==
    ASSUME NEW S, IsFiniteSet(S), NEW v, \A x \in S : v[x] = 0
    PROVE  SumFunctionOnSet(v, S) = 0
<1> DEFINE g == [s \in SUBSET S |-> 0]
<1>1. ASSUME NEW s \in SUBSET S PROVE SumStep(g, v, s) = 0
    <2>1. CASE s # {}
        <3>1. Picked(s) \in S /\ s \ {Picked(s)} \in SUBSET S
            BY <2>1, PickedShrinks
        <3> QED
            BY <2>1, <3>1 DEF SumStep
    <2> QED
        BY <2>1 DEF SumStep
<1>2. Sums(g, v, S)
    BY <1>1 DEF Sums
<1>3. g[S] = SumFunctionOnSet(v, S)
    <2> HIDE DEF g
    <2> QED
        BY <1>2, SumOfSubset
<1> QED
    BY <1>3

\* Greater values have a greater sum.
LEMMA SumMonotone ==
    ASSUME NEW S, IsFiniteSet(S), NEW v, NEW w,
           \A x \in S : v[x] \in Int /\ w[x] \in Int /\ v[x] <= w[x]
    PROVE  SumFunctionOnSet(v, S) <= SumFunctionOnSet(w, S)
<1> DEFINE V(s) == SumFunctionOnSet(v, s)
           W(s) == SumFunctionOnSet(w, s)
           T == {n \in Nat : \A s \in SUBSET S : Cardinality(s) = n => V(s) <= W(s)}
<1>0. ASSUME NEW s \in SUBSET S
      PROVE  /\ V(s) \in Int /\ W(s) \in Int
             /\ s = {} => V(s) = 0 /\ W(s) = 0
             /\ s # {} => /\ V(s) = v[Picked(s)] + V(s \ {Picked(s)})
                          /\ W(s) = w[Picked(s)] + W(s \ {Picked(s)})
    <2>1. IsFiniteSet(s) /\ \A x \in s : v[x] \in Int /\ w[x] \in Int
        BY FS_Subset
    <2> QED
        BY <2>1, SumRecursion
<1> HIDE DEF V, W
<1>1. 0 \in T
    <2>1. ASSUME NEW s \in SUBSET S, Cardinality(s) = 0 PROVE V(s) <= W(s)
        <3>1. s = {}
            BY <2>1, SubsetSize
        <3>2. V(s) = 0 /\ W(s) = 0
            BY <1>0, <3>1
        <3> QED
            BY <3>2
    <2> QED
        BY <2>1
<1>2. ASSUME NEW n \in Nat, n \in T PROVE n + 1 \in T
    <2>1. ASSUME NEW s \in SUBSET S, Cardinality(s) = n + 1 PROVE V(s) <= W(s)
        <3> DEFINE r == s \ {Picked(s)}
        <3>1. s # {}
            BY <2>1, FS_EmptySet
        <3>2. r \in SUBSET S /\ Cardinality(r) = n /\ Picked(s) \in S
            <4>1. /\ Cardinality(r) = Cardinality(s) - 1
                  /\ r \in SUBSET S /\ Picked(s) \in S
                BY <3>1, PickedShrinks
            <4> HIDE DEF r
            <4> QED
                BY <2>1, <4>1
        <3>3. V(r) <= W(r) /\ V(r) \in Int /\ W(r) \in Int
            BY <1>0, <1>2, <3>2
        <3>4. V(s) = v[Picked(s)] + V(r) /\ W(s) = w[Picked(s)] + W(r)
            BY <1>0, <3>1
        <3> HIDE DEF r
        <3> QED
            BY <3>2, <3>3, <3>4
    <2> QED
        BY <2>1
<1>3. Nat \subseteq T
    <2> HIDE DEF T
    <2> QED
        BY <1>1, <1>2, NaturalsByInduction
<1>4. V(S) <= W(S)
    BY <1>3, FS_CardinalityType
<1> QED
    BY <1>4 DEF V, W

LEMMA SumNat ==
    ASSUME NEW S, IsFiniteSet(S), NEW v, \A x \in S : v[x] \in Nat
    PROVE  SumFunctionOnSet(v, S) \in Nat
<1> DEFINE z == [x \in S |-> 0]
<1>1. SumFunctionOnSet(z, S) = 0
    BY SumZero
<1>2. SumFunctionOnSet(z, S) <= SumFunctionOnSet(v, S)
    BY SumMonotone
<1>3. SumFunctionOnSet(v, S) \in Int
    BY SumType
<1> QED
    BY <1>1, <1>2, <1>3

\* Taking a subset out takes away no more than its size times the largest value.
LEMMA SumWithout ==
    ASSUME NEW S, IsFiniteSet(S), NEW v, NEW M \in Nat,
           \A x \in S : v[x] \in Nat /\ v[x] <= M, NEW R \in SUBSET S
    PROVE  /\ SumFunctionOnSet(v, S \ R) <= SumFunctionOnSet(v, S)
           /\ SumFunctionOnSet(v, S) <= SumFunctionOnSet(v, S \ R) + M * Cardinality(R)
<1> DEFINE Sum(s) == SumFunctionOnSet(v, s)
           Close(r) == Sum(S \ r) <= Sum(S) /\ Sum(S) <= Sum(S \ r) + M * Cardinality(r)
           T == {n \in Nat : \A r \in SUBSET S : Cardinality(r) = n => Close(r)}
<1>0. ASSUME NEW s \in SUBSET S
      PROVE  /\ Sum(s) \in Int
             /\ \A y \in s : Sum(s) = v[y] + Sum(s \ {y})
    <2>1. IsFiniteSet(s) /\ \A x \in s : v[x] \in Int
        BY FS_Subset
    <2> QED
        BY <2>1, SumType, SumRemove
<1> HIDE DEF Sum
<1>1. 0 \in T
    <2>1. ASSUME NEW r \in SUBSET S, Cardinality(r) = 0 PROVE Close(r)
        <3>1. r = {}
            BY <2>1, SubsetSize
        <3>2. S \ r = S
            BY <3>1
        <3>3. Sum(S \ r) = Sum(S)
            BY <3>2
        <3>4. M * Cardinality(r) = 0 /\ Sum(S) \in Int
            BY <1>0, <2>1
        <3> QED
            BY <3>3, <3>4
    <2> QED
        BY <2>1
<1>2. ASSUME NEW n \in Nat, n \in T PROVE n + 1 \in T
    <2>1. ASSUME NEW r \in SUBSET S, Cardinality(r) = n + 1 PROVE Close(r)
        <3>1. r # {}
            BY <2>1, FS_EmptySet
        <3>2. PICK y \in r : TRUE
            BY <3>1
        <3> DEFINE q == r \ {y}
        <3>3. q \in SUBSET S /\ y \in S \ q /\ (S \ q) \ {y} = S \ r
            BY <3>2
        <3>4. Cardinality(q) = n
            <4>1. IsFiniteSet(r)
                BY FS_Subset
            <4>2. Cardinality(r \ {y}) = Cardinality(r) - 1
                BY <3>2, <4>1, FS_RemoveElement
            <4> QED
                BY <2>1, <4>2
        <3> HIDE DEF q
        <3>5. Sum(S \ q) <= Sum(S) /\ Sum(S) <= Sum(S \ q) + M * n
            BY <1>2, <3>3, <3>4
        <3>6. Sum(S \ q) = v[y] + Sum(S \ r)
            BY <1>0, <3>3
        <3>7. v[y] \in Nat /\ v[y] <= M /\ Sum(S \ r) \in Int /\ Sum(S) \in Int
            BY <1>0, <3>3
        <3>8. M * Cardinality(r) = M * n + M /\ M * n \in Int
            BY <2>1
        <3> QED
            BY <3>5, <3>6, <3>7, <3>8
    <2> QED
        BY <2>1
<1>3. Nat \subseteq T
    <2> HIDE DEF T
    <2> QED
        BY <1>1, <1>2, NaturalsByInduction
<1>4. Close(R)
    <2>1. Cardinality(R) \in Nat
        BY SubsetSize
    <2> QED
        BY <1>3, <2>1
<1> QED
    BY <1>4 DEF Sum

==============================================================================
