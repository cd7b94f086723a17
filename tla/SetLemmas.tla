----------------------------- MODULE SetLemmas -----------------------------
(***************************************************************************)
(* Least and greatest elements, finite sets put in a row, and sums over    *)
(* finite sets: what Min, Max, SetToSeq and SumFunctionOnSet of the        *)
(* community modules compute.                                              *)
(***************************************************************************)
EXTENDS SequencesExt, Integers, FiniteSetTheorems, WellFoundedInduction, TLAPS

------------------------------------------------------------------------------
(* The least, the greatest, the smallest set.                               *)

LEMMA MinInSet ==
    ASSUME NEW S \in SUBSET Nat, S # {}
    PROVE  Min(S) \in S /\ \A y \in S : Min(S) <= y
<1> DEFINE R == {ss \in Nat \X Nat : ss[1] < ss[2]}
<1>1. IsWellFoundedOn(R, Nat)
  BY NatLessThanWellFounded DEF OpToRel
<1> HIDE DEF R
<1>2. PICK x \in S : \A y \in S : <<y, x>> \notin R
  BY <1>1, WFMin
<1>3. ASSUME NEW y \in S PROVE x <= y
  <2>1. x \in Nat /\ y \in Nat /\ <<y, x>> \notin R
    BY <1>2
  <2> QED
    BY <2>1 DEF R
<1> QED
  BY <1>3 DEF Min

\* Among sets of subsets of a finite set there is a smallest.
LEMMA SmallestSubset ==
    ASSUME NEW S, IsFiniteSet(S), NEW bad \in SUBSET (SUBSET S), bad # {}
    PROVE  \E s \in bad : \A r \in bad : r \subseteq s => r = s
<1>1. FiniteSubsetsOf(S) = SUBSET S
  BY FS_FiniteSubsetsOfFinite
<1>2. IsWellFoundedOn(StrictSubsetOrdering(S), SUBSET S)
  BY <1>1, FS_StrictSubsetOrderingWellFounded
<1>3. PICK s \in bad : \A r \in bad : <<r, s>> \notin StrictSubsetOrdering(S)
  BY <1>2, WFMin
<1> QED
  BY <1>3 DEF StrictSubsetOrdering

LEMMA MaxInSet ==
    ASSUME NEW S \in SUBSET Int, IsFiniteSet(S), S # {}
    PROVE  Max(S) \in S /\ \A y \in S : y <= Max(S)
<1> DEFINE above(x) == {y \in S : y > x}
<1>1. PICK bad : bad = {s \in SUBSET S : \E x \in S : s = above(x)}
  OBVIOUS
<1>2. bad \in SUBSET (SUBSET S)
  BY <1>1
<1>3. \A x \in S : above(x) \in bad
  BY <1>1
<1>4. bad # {}
  BY <1>3
<1>5. \E s \in bad : \A r \in bad : r \subseteq s => r = s
  <2>1. PICK A : A = S
    OBVIOUS
  <2>2. IsFiniteSet(A) /\ bad \in SUBSET (SUBSET A)
    BY <1>2, <2>1
  <2> QED
    BY <1>4, <2>2, SmallestSubset
<1>6. PICK x \in S : \A r \in bad : r \subseteq above(x) => r = above(x)
  BY <1>1, <1>5
<1>7. ASSUME NEW y \in S, y > x PROVE FALSE
  <2>1. \A z \in above(y) : z \in above(x)
    BY <1>7
  <2>2. above(y) = above(x)
    BY <1>3, <1>6, <2>1
  <2>3. y \in above(x) /\ y \notin above(y)
    BY <1>7
  <2> QED
    BY <2>2, <2>3
<1>8. \A y \in S : x >= y
  BY <1>7
<1> QED
  BY <1>8 DEF Max

LEMMA ImageIsFinite ==
    ASSUME NEW S, IsFiniteSet(S), NEW f
    PROVE  IsFiniteSet({f[x] : x \in S})
<1> DEFINE g == [x \in S |-> f[x]]
<1>1. g \in Surjection(S, {f[x] : x \in S})
  BY DEF Surjection
<1> QED
  BY <1>1, FS_Surjection

LEMMA GreaterOfTwo ==
    ASSUME NEW x \in Int, NEW y \in Int
    PROVE  Max({x, y}) = IF x >= y THEN x ELSE y
<1>1. IsFiniteSet({x} \cup {y})
  BY FS_Singleton, FS_Union
<1>2. {x, y} = {x} \cup {y}
  OBVIOUS
<1>3. PICK S : S = {x, y}
  OBVIOUS
<1>4. Max(S) \in S /\ \A z \in S : z <= Max(S)
  <2>1. S \in SUBSET Int /\ IsFiniteSet(S) /\ S # {}
    BY <1>1, <1>2, <1>3
  <2> QED
    BY <2>1, MaxInSet
<1> QED
  BY <1>3, <1>4

------------------------------------------------------------------------------
(* A set in a row.                                                          *)

\* A finite set can be put in a row, each element once.
LEMMA SetInARow ==
    ASSUME NEW S, IsFiniteSet(S)
    PROVE  /\ Cardinality(S) \in Nat
           /\ SetToSeq(S) \in [1..Cardinality(S) -> S]
           /\ \A i, j \in 1..Cardinality(S) : SetToSeq(S)[i] = SetToSeq(S)[j] => i = j
           /\ \A x \in S : \E i \in 1..Cardinality(S) : SetToSeq(S)[i] = x
           /\ Len(SetToSeq(S)) = Cardinality(S)
<1> DEFINE n == Cardinality(S)
           f == SetToSeq(S)
<1>1. n \in Nat /\ ExistsBijection(1..n, S)
  BY FS_CardinalityType
<1>2. PICK b : b \in Bijection(1..n, S)
  BY <1>1 DEF ExistsBijection
<1>3. b \in [1..n -> S] /\ IsInjective(b)
  BY <1>2 DEF Bijection, Injection, IsInjective
<1>4. f \in [1..n -> S] /\ IsInjective(f)
  BY <1>3 DEF SetToSeq
<1> HIDE DEF f
<1>5. f \in Injection(1..n, S)
  BY <1>4 DEF Injection, IsInjective
<1>6. Cardinality(1..n) = n
  BY <1>1, FS_Interval
<1>7. f \in Surjection(1..n, S)
  BY <1>5, <1>6, FS_Injection
<1>8. \A x \in S : \E i \in 1..n : f[i] = x
  BY <1>7 DEF Surjection
<1>9. \A i, j \in 1..n : f[i] = f[j] => i = j
  BY <1>4 DEF IsInjective
<1>10. Len(f) = n
  BY <1>1, <1>4
<1> QED
  BY <1>1, <1>4, <1>8, <1>9, <1>10 DEF f

------------------------------------------------------------------------------
(***************************************************************************)
(* Sums.  The fold is a recursive function on the subsets; that there is   *)
(* such a function, and only one, is shown first (SumsExist, SumsAgree),   *)
(* each with a smallest set for which it would not be so.                  *)
(***************************************************************************)
Pick(s) == CHOOSE x \in s : TRUE

SumStep(f, g, s) == IF s = {} THEN 0 ELSE f[Pick(s)] + g[s \ {Pick(s)}]

\* g holds the sum of f over every subset of S.
SumsUp(f, S, g) == g = [s \in SUBSET S |-> SumStep(f, g, s)]

SumsOf(f, S) == CHOOSE g : SumsUp(f, S, g)

LEMMA SumIsTheFold ==
    ASSUME NEW f, NEW S
    PROVE  SumFunctionOnSet(f, S) = SumsOf(f, S)[S]
BY DEF SumFunctionOnSet, FoldFunctionOnSet, MapThenFoldSet, SumsOf, SumsUp, SumStep, Pick

LEMMA PickInSet ==
    ASSUME NEW s, s # {}
    PROVE  Pick(s) \in s
BY DEF Pick

\* Two functions that agree have the same sums.
LEMMA SumsAgree ==
    ASSUME NEW S, IsFiniteSet(S), NEW f, NEW e, \A x \in S : f[x] = e[x],
           NEW g, SumsUp(f, S, g), NEW h, SumsUp(e, S, h)
    PROVE  g = h
<1> DEFINE bad == {s \in SUBSET S : g[s] # h[s]}
<1>1. /\ g = [s \in SUBSET S |-> g[s]] /\ \A s \in SUBSET S : g[s] = SumStep(f, g, s)
      /\ h = [s \in SUBSET S |-> h[s]] /\ \A s \in SUBSET S : h[s] = SumStep(e, h, s)
  BY DEF SumsUp
<1>2. bad = {}
  <2> SUFFICES ASSUME bad # {} PROVE FALSE
    OBVIOUS
  <2>0. bad \in SUBSET (SUBSET S)
    OBVIOUS
  <2>1. PICK s \in bad : \A r \in bad : r \subseteq s => r = s
    <3> HIDE DEF bad
    <3> QED
      BY <2>0, SmallestSubset
  <2>2. s # {}
    BY <1>1, <2>1 DEF SumStep
  <2>3. Pick(s) \in s /\ Pick(s) \in S
    BY <2>1, <2>2, PickInSet
  <2>4. s \ {Pick(s)} \in SUBSET S /\ s \ {Pick(s)} # s
    BY <2>1, <2>3
  <2>5. g[s \ {Pick(s)}] = h[s \ {Pick(s)}]
    BY <2>1, <2>4
  <2>6. g[s] = f[Pick(s)] + g[s \ {Pick(s)}] /\ h[s] = e[Pick(s)] + h[s \ {Pick(s)}]
    BY <1>1, <2>1, <2>2 DEF SumStep
  <2> QED
    BY <2>1, <2>3, <2>5, <2>6
<1>3. \A s \in SUBSET S : g[s] = h[s]
  BY <1>2
<1> QED
  BY <1>1, <1>3

\* The sums over the subsets of S hold for the subsets of a part of S.
LEMMA SumsOfAPart ==
    ASSUME NEW S, NEW R \in SUBSET S, NEW f, NEW g, SumsUp(f, S, g)
    PROVE  SumsUp(f, R, [s \in SUBSET R |-> g[s]])
<1> DEFINE h == [s \in SUBSET R |-> g[s]]
<1>1. \A s \in SUBSET S : g[s] = SumStep(f, g, s)
  BY DEF SumsUp
<1>2. ASSUME NEW s \in SUBSET R PROVE h[s] = SumStep(f, h, s)
  <2>1. h[s] = SumStep(f, g, s)
    BY <1>1
  <2>2. s \ {Pick(s)} \in SUBSET R
    OBVIOUS
  <2>3. h[s \ {Pick(s)}] = g[s \ {Pick(s)}]
    BY <2>2
  <2> QED
    BY <2>1, <2>3 DEF SumStep
<1> HIDE DEF h
<1>3. h = [s \in SUBSET R |-> h[s]]
  BY DEF h
<1>4. [s \in SUBSET R |-> h[s]] = [s \in SUBSET R |-> SumStep(f, h, s)]
  BY <1>2
<1>5. SumsUp(f, R, h)
  BY <1>3, <1>4 DEF SumsUp
<1> QED
  BY <1>5 DEF h

\* There are sums.
LEMMA SumsExist ==
    ASSUME NEW S, IsFiniteSet(S), NEW f
    PROVE  SumsUp(f, S, SumsOf(f, S))
<1> DEFINE bad == {s \in SUBSET S : ~\E g : SumsUp(f, s, g)}
<1>1. bad = {}
  <2> SUFFICES ASSUME bad # {} PROVE FALSE
    OBVIOUS
  <2>0. bad \in SUBSET (SUBSET S)
    OBVIOUS
  <2>1. PICK R \in bad : \A r \in bad : r \subseteq R => r = R
    <3> HIDE DEF bad
    <3> QED
      BY <2>0, SmallestSubset
  <2> DEFINE rest(s) == s \ {Pick(s)}
             h == [s \in SUBSET R |-> IF s = {} THEN 0 ELSE f[Pick(s)] + SumsOf(f, rest(s))[rest(s)]]
  <2>2. ASSUME NEW s \in SUBSET R, s # R PROVE SumsUp(f, s, SumsOf(f, s))
    <3>1. \E g : SumsUp(f, s, g)
      BY <2>1, <2>2
    <3> QED
      BY <3>1 DEF SumsOf
  <2>3. ASSUME NEW s \in SUBSET R, s # R PROVE h[s] = SumsOf(f, s)[s]
    <3> DEFINE g == SumsOf(f, s)
    <3>1. SumsUp(f, s, g)
      BY <2>2, <2>3
    <3> HIDE DEF g
    <3>2. g[s] = SumStep(f, g, s)
      BY <3>1 DEF SumsUp
    <3>3. CASE s = {}
      BY <3>2, <3>3 DEF SumStep, g
    <3>4. CASE s # {}
      <4>0. PICK r : r = rest(s)
        OBVIOUS
      <4>1. r \in SUBSET s /\ r \in SUBSET R /\ r # R
        BY <2>3, <3>4, <4>0, PickInSet
      <4>2. SumsUp(f, r, SumsOf(f, r))
        BY <2>2, <4>1
      <4>3. SumsUp(f, r, [q \in SUBSET r |-> g[q]])
        BY <3>1, <4>1, SumsOfAPart
      <4>4. IsFiniteSet(r)
        <5>1. r \in SUBSET S
          BY <2>1, <4>1
        <5> QED
          BY <5>1, FS_Subset
      <4>5. [q \in SUBSET r |-> g[q]] = SumsOf(f, r)
        BY <4>2, <4>3, <4>4, SumsAgree
      <4>6. g[rest(s)] = SumsOf(f, rest(s))[rest(s)]
        BY <4>0, <4>5
      <4> QED
        BY <3>2, <3>4, <4>6 DEF SumStep, g
    <3> QED
      BY <3>3, <3>4
  <2>4. ASSUME NEW s \in SUBSET R PROVE h[s] = SumStep(f, h, s)
    <3>1. CASE s = {}
      BY <3>1 DEF SumStep
    <3>2. CASE s # {}
      <4>1. rest(s) \in SUBSET R /\ rest(s) # R
        BY <3>2, PickInSet
      <4>2. h[rest(s)] = SumsOf(f, rest(s))[rest(s)]
        BY <2>3, <4>1
      <4> QED
        BY <3>2, <4>2 DEF SumStep
    <3> QED
      BY <3>1, <3>2
  <2> HIDE DEF h
  <2>5. h = [s \in SUBSET R |-> h[s]]
    BY DEF h
  <2>6. [s \in SUBSET R |-> h[s]] = [s \in SUBSET R |-> SumStep(f, h, s)]
    BY <2>4
  <2>7. SumsUp(f, R, h)
    BY <2>5, <2>6 DEF SumsUp
  <2> QED
    BY <2>1, <2>7
<1>2. \E g : SumsUp(f, S, g)
  BY <1>1
<1> QED
  BY <1>2 DEF SumsOf

------------------------------------------------------------------------------
(* What the sums are.                                                       *)

\* The sum over a part is the one that the fold over the whole comes by.
LEMMA SumOfAPart ==
    ASSUME NEW S, IsFiniteSet(S), NEW R \in SUBSET S, NEW f
    PROVE  SumsOf(f, S)[R] = SumFunctionOnSet(f, R)
<1>1. IsFiniteSet(R)
  BY FS_Subset
<1>2. SumsUp(f, S, SumsOf(f, S)) /\ SumsUp(f, R, SumsOf(f, R))
  BY <1>1, SumsExist
<1>3. SumsUp(f, R, [s \in SUBSET R |-> SumsOf(f, S)[s]])
  BY <1>2, SumsOfAPart
<1>4. [s \in SUBSET R |-> SumsOf(f, S)[s]] = SumsOf(f, R)
  BY <1>1, <1>2, <1>3, SumsAgree
<1> QED
  BY <1>4, SumIsTheFold

LEMMA SumOfNothing ==
    ASSUME NEW f
    PROVE  SumFunctionOnSet(f, {}) = 0
<1>1. SumsUp(f, {}, SumsOf(f, {}))
  BY SumsExist, FS_EmptySet
<1>2. SumsOf(f, {})[{}] = 0
  BY <1>1 DEF SumsUp, SumStep
<1> QED
  BY <1>2, SumIsTheFold

\* The element that is chosen first.
LEMMA SumOfThePicked ==
    ASSUME NEW S, IsFiniteSet(S), S # {}, NEW f
    PROVE  SumFunctionOnSet(f, S) = f[Pick(S)] + SumFunctionOnSet(f, S \ {Pick(S)})
<1> DEFINE g == SumsOf(f, S)
<1>1. SumsUp(f, S, g)
  BY SumsExist
<1> HIDE DEF g
<1>2. g[S] = f[Pick(S)] + g[S \ {Pick(S)}]
  BY <1>1 DEF SumsUp, SumStep
<1>3. g[S] = SumFunctionOnSet(f, S)
  BY SumIsTheFold DEF g
<1>4. g[S \ {Pick(S)}] = SumFunctionOnSet(f, S \ {Pick(S)})
  <2>1. S \ {Pick(S)} \in SUBSET S
    OBVIOUS
  <2> QED
    BY <2>1, SumOfAPart DEF g
<1> QED
  BY <1>2, <1>3, <1>4

\* A sum of integers is an integer.
LEMMA SumType ==
    ASSUME NEW S, IsFiniteSet(S), NEW f, \A x \in S : f[x] \in Int
    PROVE  SumFunctionOnSet(f, S) \in Int
<1> DEFINE bad == {s \in SUBSET S : SumFunctionOnSet(f, s) \notin Int}
<1>1. bad = {}
  <2> SUFFICES ASSUME bad # {} PROVE FALSE
    OBVIOUS
  <2>0. bad \in SUBSET (SUBSET S)
    OBVIOUS
  <2>1. PICK s \in bad : \A r \in bad : r \subseteq s => r = s
    <3> HIDE DEF bad
    <3> QED
      BY <2>0, SmallestSubset
  <2>2. s \in SUBSET S /\ SumFunctionOnSet(f, s) \notin Int
    BY <2>1
  <2>3. IsFiniteSet(s)
    BY <2>2, FS_Subset
  <2>4. s # {}
    <3> SUFFICES ASSUME s = {} PROVE FALSE
      OBVIOUS
    <3>1. SumFunctionOnSet(f, s) = 0
      BY SumOfNothing
    <3> QED
      BY <2>2, <3>1
  <2>5. Pick(s) \in s /\ f[Pick(s)] \in Int
    BY <2>2, <2>4, PickInSet
  <2>6. SumFunctionOnSet(f, s \ {Pick(s)}) \in Int
    BY <2>1, <2>5
  <2>7. SumFunctionOnSet(f, s) = f[Pick(s)] + SumFunctionOnSet(f, s \ {Pick(s)})
    BY <2>3, <2>4, SumOfThePicked
  <2> QED
    BY <2>2, <2>5, <2>6, <2>7
<1> QED
  BY <1>1

\* Any element may be taken first.
LEMMA SumOfOneMore ==
    ASSUME NEW S, IsFiniteSet(S), NEW f, \A x \in S : f[x] \in Int, NEW x \in S
    PROVE  SumFunctionOnSet(f, S) = f[x] + SumFunctionOnSet(f, S \ {x})
<1> DEFINE sum(s) == SumFunctionOnSet(f, s)
           bad == {s \in SUBSET S : \E y \in s : sum(s) # f[y] + sum(s \ {y})}
<1>1. bad = {}
  <2> SUFFICES ASSUME bad # {} PROVE FALSE
    OBVIOUS
  <2>0. bad \in SUBSET (SUBSET S)
    OBVIOUS
  <2>1. PICK s \in bad : \A r \in bad : r \subseteq s => r = s
    <3> HIDE DEF bad
    <3> QED
      BY <2>0, SmallestSubset
  <2>2. s \in SUBSET S
    BY <2>1
  <2>3. PICK y \in s : sum(s) # f[y] + sum(s \ {y})
    BY <2>1
  <2> DEFINE c == Pick(s)
  <2>4. c \in s
    BY <2>3, PickInSet
  <2> HIDE DEF c
  <2>5. sum(s) = f[c] + sum(s \ {c})
    <3>1. IsFiniteSet(s) /\ s # {}
      BY <2>2, <2>3, FS_Subset
    <3> QED
      BY <3>1, SumOfThePicked DEF c
  <2>6. y # c
    BY <2>3, <2>5
  <2>7. \A r \in SUBSET S : r \subseteq s /\ r # s => \A z \in r : sum(r) = f[z] + sum(r \ {z})
    BY <2>1
  <2>8. /\ s \ {c} \in SUBSET S /\ s \ {c} # s /\ y \in s \ {c}
        /\ s \ {y} \in SUBSET S /\ s \ {y} # s /\ c \in s \ {y}
    BY <2>2, <2>3, <2>4, <2>6
  <2>9. sum(s \ {c}) = f[y] + sum((s \ {c}) \ {y}) /\ sum(s \ {y}) = f[c] + sum((s \ {y}) \ {c})
    <3> HIDE DEF sum
    <3> QED
      BY <2>7, <2>8
  <2>10. (s \ {c}) \ {y} = (s \ {y}) \ {c} /\ (s \ {c}) \ {y} \in SUBSET S
    BY <2>2
  <2>11. f[y] \in Int /\ f[c] \in Int
    BY <2>2, <2>3, <2>4
  <2>12. sum((s \ {c}) \ {y}) \in Int
    <3>1. IsFiniteSet((s \ {c}) \ {y})
      BY <2>10, FS_Subset
    <3> QED
      BY <2>10, <3>1, SumType
  <2> HIDE DEF sum
  <2>13. sum((s \ {y}) \ {c}) = sum((s \ {c}) \ {y})
    BY <2>10
  <2> QED
    BY <2>3, <2>5, <2>9, <2>11, <2>12, <2>13
<1> QED
  BY <1>1

\* Functions that agree on a set have the same sum over it.
LEMMA SumOfTheSame ==
    ASSUME NEW S, IsFiniteSet(S), NEW f, NEW e, \A x \in S : f[x] = e[x]
    PROVE  SumFunctionOnSet(f, S) = SumFunctionOnSet(e, S)
<1>1. SumsOf(f, S) = SumsOf(e, S)
  BY SumsExist, SumsAgree
<1> QED
  BY <1>1, SumIsTheFold

\* A sum of what is not negative is at least each of its parts.
LEMMA SumBounds ==
    ASSUME NEW S, IsFiniteSet(S), NEW f, \A x \in S : f[x] \in Nat
    PROVE  /\ SumFunctionOnSet(f, S) \in Nat
           /\ \A x \in S : f[x] <= SumFunctionOnSet(f, S)
<1> DEFINE sum(s) == SumFunctionOnSet(f, s)
           bad == {s \in SUBSET S : sum(s) \notin Nat}
<1>1. bad = {}
  <2> SUFFICES ASSUME bad # {} PROVE FALSE
    OBVIOUS
  <2>0. bad \in SUBSET (SUBSET S)
    OBVIOUS
  <2>1. PICK s \in bad : \A r \in bad : r \subseteq s => r = s
    <3> HIDE DEF bad
    <3> QED
      BY <2>0, SmallestSubset
  <2>2. s \in SUBSET S /\ sum(s) \notin Nat
    BY <2>1
  <2>3. IsFiniteSet(s)
    BY <2>2, FS_Subset
  <2>a. s # {}
    <3> SUFFICES ASSUME s = {} PROVE FALSE
      OBVIOUS
    <3>1. sum(s) = 0
      BY SumOfNothing
    <3> QED
      BY <2>2, <3>1
  <2>4. Pick(s) \in s /\ f[Pick(s)] \in Nat
    BY <2>2, <2>a, PickInSet
  <2>5. sum(s \ {Pick(s)}) \in Nat
    <3>1. s \ {Pick(s)} \in SUBSET S /\ s \ {Pick(s)} \subseteq s /\ s \ {Pick(s)} # s
      BY <2>2, <2>4
    <3> QED
      BY <2>1, <3>1
  <2>6. sum(s) = f[Pick(s)] + sum(s \ {Pick(s)})
    BY <2>3, <2>a, SumOfThePicked
  <2> HIDE DEF sum
  <2> QED
    BY <2>2, <2>4, <2>5, <2>6
<1>2. \A s \in SUBSET S : sum(s) \in Nat
  BY <1>1
<1>3. ASSUME NEW x \in S PROVE f[x] <= sum(S)
  <2>1. sum(S) = f[x] + sum(S \ {x})
    BY SumOfOneMore
  <2>2. sum(S \ {x}) \in Nat
    <3>1. S \ {x} \in SUBSET S
      OBVIOUS
    <3> HIDE DEF sum
    <3> QED
      BY <1>2, <3>1
  <2> QED
    BY <2>1, <2>2
<1> QED
  BY <1>2, <1>3

\* What is 0 may be left out of a sum.
LEMMA SumWithoutZeros ==
    ASSUME NEW S, IsFiniteSet(S), NEW f, \A x \in S : f[x] \in Int, NEW R \in SUBSET S, \A x \in S \ R : f[x] = 0
    PROVE  SumFunctionOnSet(f, S) = SumFunctionOnSet(f, R)
<1> DEFINE sum(s) == SumFunctionOnSet(f, s)
           bad == {s \in SUBSET S : R \subseteq s /\ sum(s) # sum(R)}
<1>1. bad = {}
  <2> SUFFICES ASSUME bad # {} PROVE FALSE
    OBVIOUS
  <2>0. bad \in SUBSET (SUBSET S)
    OBVIOUS
  <2>1. PICK s \in bad : \A r \in bad : r \subseteq s => r = s
    <3> HIDE DEF bad
    <3> QED
      BY <2>0, SmallestSubset
  <2>2. s \in SUBSET S /\ R \subseteq s /\ sum(s) # sum(R)
    BY <2>1
  <2>3. PICK x : x \in s /\ x \notin R
    BY <2>2
  <2>4. sum(s) = f[x] + sum(s \ {x})
    <3>1. IsFiniteSet(s)
      BY <2>2, FS_Subset
    <3> QED
      BY <2>2, <2>3, <3>1, SumOfOneMore
  <2>5. f[x] = 0
    BY <2>2, <2>3
  <2>6. s \ {x} \in SUBSET S /\ R \subseteq s \ {x} /\ s \ {x} \subseteq s /\ s \ {x} # s
    BY <2>2, <2>3
  <2>7. sum(s \ {x}) = sum(R)
    BY <2>1, <2>6
  <2>8. sum(s \ {x}) \in Int
    <3>1. IsFiniteSet(s \ {x})
      BY <2>6, FS_Subset
    <3> QED
      BY <2>6, <3>1, SumType
  <2> HIDE DEF sum
  <2> QED
    BY <2>2, <2>4, <2>5, <2>7, <2>8
<1> QED
  BY <1>1

\* Added up group by group: c says which of the groups G each element is in.
LEMMA SumByGroups ==
    ASSUME NEW S, IsFiniteSet(S), NEW f, \A x \in S : f[x] \in Int, NEW G, IsFiniteSet(G),
           NEW c, \A x \in S : c[x] \in G
    PROVE  SumFunctionOnSet([g \in G |-> SumFunctionOnSet(f, {x \in S : c[x] = g})], G) = SumFunctionOnSet(f, S)
<1> DEFINE sum(s) == SumFunctionOnSet(f, s)
           part(s, g) == {x \in s : c[x] = g}
           parts(s) == [g \in G |-> sum(part(s, g))]
           bad == {s \in SUBSET S : SumFunctionOnSet(parts(s), G) # sum(s)}
<1>1. \A s \in SUBSET S : sum(s) \in Int
  <2>1. ASSUME NEW s \in SUBSET S PROVE sum(s) \in Int
    <3>1. IsFiniteSet(s)
      BY FS_Subset
    <3> QED
      BY <3>1, SumType
  <2> QED
    BY <2>1
<1>2. \A s \in SUBSET S : \A g : part(s, g) \in SUBSET S
  OBVIOUS
<1>3. bad = {}
  <2> SUFFICES ASSUME bad # {} PROVE FALSE
    OBVIOUS
  <2>0. bad \in SUBSET (SUBSET S)
    OBVIOUS
  <2>1. PICK s \in bad : \A r \in bad : r \subseteq s => r = s
    <3> HIDE DEF bad
    <3> QED
      BY <2>0, SmallestSubset
  <2>2. s \in SUBSET S /\ SumFunctionOnSet(parts(s), G) # sum(s)
    BY <2>1
  <2>3. s # {}
    <3> SUFFICES ASSUME s = {} PROVE FALSE
      OBVIOUS
    <3>1. sum({}) = 0
      BY SumOfNothing
    <3>2. \A g \in G : part(s, g) = {}
      OBVIOUS
    <3>3. \A g \in G : parts(s)[g] = 0
      BY <3>1, <3>2
    <3>4. SumFunctionOnSet(parts(s), G) = SumFunctionOnSet(parts(s), {})
      <4>1. {} \in SUBSET G
        OBVIOUS
      <4> HIDE DEF parts
      <4> QED
        BY <3>3, <4>1, SumWithoutZeros
    <3>5. SumFunctionOnSet(parts(s), {}) = 0
      BY SumOfNothing
    <3> QED
      BY <2>2, <3>1, <3>4, <3>5
  <2>4. PICK x : x \in s
    BY <2>3
  <2> DEFINE r == s \ {x}
             h == c[x]
  <2>5. r \in SUBSET S /\ r \subseteq s /\ r # s /\ h \in G /\ f[x] \in Int
    BY <2>2, <2>4
  <2>6. SumFunctionOnSet(parts(r), G) = sum(r)
    <3> HIDE DEF r, h
    <3> QED
      BY <2>1, <2>5
  <2>7. sum(s) = f[x] + sum(r)
    <3>1. IsFiniteSet(s)
      BY <2>2, FS_Subset
    <3> QED
      BY <2>2, <2>4, <3>1, SumOfOneMore
  <2>8. \A g \in G \ {h} : parts(s)[g] = parts(r)[g]
    <3>1. \A g \in G \ {h} : part(s, g) = part(r, g)
      OBVIOUS
    <3> HIDE DEF part, sum
    <3> QED
      BY <3>1
  <2>9. parts(s)[h] = f[x] + parts(r)[h]
    <3>1. part(s, h) \ {x} = part(r, h) /\ x \in part(s, h)
      BY <2>4
    <3>2. IsFiniteSet(part(s, h))
      BY <2>2, FS_Subset
    <3>3. \A y \in part(s, h) : f[y] \in Int
      BY <2>2
    <3> HIDE DEF part
    <3>4. sum(part(s, h)) = f[x] + sum(part(s, h) \ {x})
      BY <3>1, <3>2, <3>3, SumOfOneMore
    <3> HIDE DEF sum, r, h
    <3> QED
      BY <2>5, <3>1, <3>4
  <2>10. (\A g \in G : parts(s)[g] \in Int) /\ \A g \in G : parts(r)[g] \in Int
    <3> HIDE DEF sum, part, r
    <3> QED
      BY <1>1, <1>2, <2>2, <2>5
  <2> HIDE DEF parts, r, h, sum
  <2>11. /\ SumFunctionOnSet(parts(s), G) = parts(s)[h] + SumFunctionOnSet(parts(s), G \ {h})
         /\ SumFunctionOnSet(parts(r), G) = parts(r)[h] + SumFunctionOnSet(parts(r), G \ {h})
    BY <2>5, <2>10, SumOfOneMore
  <2>12. IsFiniteSet(G \ {h})
    BY FS_Subset
  <2>13. SumFunctionOnSet(parts(s), G \ {h}) = SumFunctionOnSet(parts(r), G \ {h})
    BY <2>8, <2>12, SumOfTheSame
  <2>14. SumFunctionOnSet(parts(r), G \ {h}) \in Int
    BY <2>10, <2>12, SumType
  <2> QED
    BY <1>1, <2>2, <2>5, <2>6, <2>7, <2>9, <2>10, <2>11, <2>13, <2>14
<1>4. SumFunctionOnSet(parts(S), G) = sum(S)
  BY <1>3
<1> QED
  BY <1>4

==============================================================================
