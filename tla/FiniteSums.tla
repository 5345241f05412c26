----------------------------- MODULE FiniteSums -----------------------------
(***************************************************************************)
(* Sums of natural numbers over finite sets: SumFunctionOnSet of the       *)
(* community modules, which takes the elements one by one, is the number   *)
(* of pairs of an element and one of its units, and so obeys the laws of   *)
(* counting.                                                               *)
(***************************************************************************)
EXTENDS Integers, FiniteSets, Functions, FiniteSetTheorems, WellFoundedInduction, TLAPS

\* One pair for each unit of each element.
Units(f, S) == UNION {{x} \X (1..f[x]) : x \in S}

Naturals(f, S) == \A x \in S : f[x] \in Nat

\* Elements x and their units are as many as the units.
LEMMA UnitsOfOne ==
  ASSUME NEW x, NEW n \in Nat
  PROVE  IsFiniteSet({x} \X (1..n)) /\ Cardinality({x} \X (1..n)) = n
<1>1. 1 \in Int /\ n \in Int
  OBVIOUS
<1>2. IsFiniteSet(1..n) /\ Cardinality(1..n) = n
  BY <1>1, FS_Interval
<1> DEFINE b == [k \in 1..n |-> <<x, k>>]
<1>3. b \in Bijection(1..n, {x} \X (1..n))
  BY DEF Bijection, Injection, Surjection, IsInjective
<1>4. ExistsBijection(1..n, {x} \X (1..n))
  BY <1>3 DEF ExistsBijection
<1> QED  BY <1>2, <1>4, FS_Bijection

LEMMA UnitsFinite ==
  ASSUME NEW f, NEW S, IsFiniteSet(S), Naturals(f, S)
  PROVE  IsFiniteSet(Units(f, S))
<1> DEFINE unitsOf == [x \in S |-> {x} \X (1..f[x])]
           all == {{x} \X (1..f[x]) : x \in S}
<1>1. unitsOf \in Surjection(S, all)
  BY DEF Surjection
<1>2. IsFiniteSet(all)
  BY <1>1, FS_Surjection
<1>3. \A x \in S : IsFiniteSet({x} \X (1..f[x]))
  BY UnitsOfOne DEF Naturals
<1>4. \A T \in all : IsFiniteSet(T)
  BY <1>3, Zenon
<1> QED  BY <1>2, <1>4, FS_UNION DEF Units

\* Sets without a common element are counted one after the other.
LEMMA CountApart ==
  ASSUME NEW A, NEW B, IsFiniteSet(A), IsFiniteSet(B), A \cap B = {}
  PROVE  /\ IsFiniteSet(A \cup B)
         /\ Cardinality(A) \in Nat /\ Cardinality(B) \in Nat
         /\ Cardinality(A \cup B) = Cardinality(A) + Cardinality(B)
<1>1. /\ IsFiniteSet(A \cup B)
      /\ Cardinality(A \cup B) = Cardinality(A) + Cardinality(B) - Cardinality(A \cap B)
  BY FS_Union
<1>2. Cardinality(A \cap B) = 0 /\ Cardinality(A) \in Nat /\ Cardinality(B) \in Nat
  BY FS_EmptySet, FS_CardinalityType
<1> QED  BY <1>1, <1>2

\* Counting an element's units apart.
LEMMA UnitsAdd ==
  ASSUME NEW f, NEW S, IsFiniteSet(S), Naturals(f, S), NEW x \in S
  PROVE  Cardinality(Units(f, S)) = f[x] + Cardinality(Units(f, S \ {x}))
<1> DEFINE own == {x} \X (1..f[x])
           others == Units(f, S \ {x})
<1>1. IsFiniteSet(S \ {x}) /\ Naturals(f, S \ {x}) /\ f[x] \in Nat
  BY FS_RemoveElement DEF Naturals
<1>2. /\ IsFiniteSet(others)
      /\ IsFiniteSet(own) /\ Cardinality(own) = f[x]
  BY <1>1, UnitsFinite, UnitsOfOne
<1>3. Units(f, S) = own \cup others /\ own \cap others = {}
  BY DEF Units
<1> HIDE DEF own, others
<1>4. Cardinality(own \cup others) = Cardinality(own) + Cardinality(others)
  BY <1>2, <1>3, CountApart
<1> QED  BY <1>2, <1>3, <1>4 DEF others

\* What the sum is defined by: the numbers of a set, one taken from it after
\* the other.
SumsBy(f, S, sum) ==
  sum = [s \in SUBSET S |->
           IF s = {} THEN 0 ELSE f[CHOOSE x \in s : TRUE] + sum[s \ {CHOOSE x \in s : TRUE}]]

LEMMA SumsByUnits ==
  ASSUME NEW f, NEW S, IsFiniteSet(S), Naturals(f, S)
  PROVE  SumsBy(f, S, [s \in SUBSET S |-> Cardinality(Units(f, s))])
<1> DEFINE h == [s \in SUBSET S |-> Cardinality(Units(f, s))]
<1>1. ASSUME NEW s \in SUBSET S
      PROVE  h[s] = IF s = {} THEN 0 ELSE f[CHOOSE x \in s : TRUE] + h[s \ {CHOOSE x \in s : TRUE}]
  <2>1. CASE s = {}
    <3>1. Units(f, s) = {}
      BY <2>1 DEF Units
    <3> QED  BY <2>1, <3>1, FS_EmptySet
  <2>2. CASE s # {}
    <3>1. PICK x \in s : x = CHOOSE y \in s : TRUE
      BY <2>2
    <3>2. IsFiniteSet(s) /\ Naturals(f, s)
      BY FS_Subset DEF Naturals
    <3>3. Cardinality(Units(f, s)) = f[x] + Cardinality(Units(f, s \ {x}))
      BY <3>2, UnitsAdd
    <3>4. s \ {x} \in SUBSET S
      OBVIOUS
    <3>5. h[s] = f[x] + h[s \ {x}]
      BY <3>3, <3>4
    <3> QED  BY <2>2, <3>1, <3>5
  <2> QED  BY <2>1, <2>2
<1> QED  BY <1>1, Zenon DEF SumsBy

LEMMA SumsByOnly ==
  ASSUME NEW f, NEW S, IsFiniteSet(S), Naturals(f, S), NEW g, SumsBy(f, S, g)
  PROVE  g[S] = Cardinality(Units(f, S))
<1> DEFINE wrong == {s \in SUBSET S : g[s] # Cardinality(Units(f, s))}
           sizes == {Cardinality(s) : s \in wrong}
<1>1. \A s \in SUBSET S : IsFiniteSet(s) /\ Naturals(f, s) /\ Cardinality(s) \in Nat
  BY FS_Subset, FS_CardinalityType DEF Naturals
<1>2. ASSUME NEW s \in wrong
      PROVE  \E t \in wrong : Cardinality(t) < Cardinality(s)
  <2>1. /\ s \in SUBSET S
        /\ g[s] = IF s = {} THEN 0 ELSE f[CHOOSE x \in s : TRUE] + g[s \ {CHOOSE x \in s : TRUE}]
    BY DEF SumsBy
  <2>2. CASE s = {}
    <3>1. Units(f, s) = {}
      BY <2>2 DEF Units
    <3>2. Cardinality(Units(f, s)) = 0
      BY <3>1, FS_EmptySet
    <3> QED  BY <2>1, <2>2, <3>2
  <2>3. CASE s # {}
    <3>1. PICK x \in s : x = CHOOSE y \in s : TRUE
      BY <2>3
    <3>2. g[s] = f[x] + g[s \ {x}]
      BY <2>1, <2>3, <3>1
    <3>3. Cardinality(Units(f, s)) = f[x] + Cardinality(Units(f, s \ {x}))
      BY <1>1, <2>1, UnitsAdd
    <3>4. s \ {x} \in wrong
      BY <2>1, <3>2, <3>3
    <3>5. Cardinality(s \ {x}) = Cardinality(s) - 1 /\ Cardinality(s) \in Nat
      BY <1>1, <2>1, FS_RemoveElement
    <3> QED  BY <3>4, <3>5
  <2> QED  BY <2>2, <2>3
<1>3. sizes \subseteq Nat /\ \A n \in sizes : \E m \in sizes : m < n
  BY <1>1, <1>2
<1>4. sizes = {}
  <2> SUFFICES ASSUME sizes # {} PROVE FALSE
    OBVIOUS
  <2> DEFINE R == OpToRel(<, Nat)
  <2> HIDE DEF sizes
  <2>1. IsWellFoundedOn(R, Nat)
    BY NatLessThanWellFounded
  <2> HIDE DEF R
  <2>2. PICK n \in sizes : \A m \in sizes : ~(<<m, n>> \in R)
    BY <1>3, <2>1, WFMin, Zenon
  <2>3. PICK m \in sizes : m < n
    BY <1>3, <2>2
  <2>4. <<m, n>> \in R
    BY <1>3, <2>3 DEF R, OpToRel
  <2> QED  BY <2>2, <2>4
<1>5. wrong = {}
  BY <1>4
<1>6. S \in SUBSET S
  OBVIOUS
<1> QED  BY <1>5, <1>6

\* A sum is the number of its units.
LEMMA SumIsUnits ==
  ASSUME NEW f, NEW S, IsFiniteSet(S), Naturals(f, S)
  PROVE  SumFunctionOnSet(f, S) = Cardinality(Units(f, S))
<1> DEFINE sum == CHOOSE g : SumsBy(f, S, g)
<1>1. SumsBy(f, S, sum)
  BY SumsByUnits, Zenon
<1>2. sum[S] = Cardinality(Units(f, S))
  BY <1>1, SumsByOnly
<1>3. SumFunctionOnSet(f, S) = sum[S]
  BY DEF SumFunctionOnSet, FoldFunctionOnSet, MapThenFoldSet, SumsBy
<1> QED  BY <1>2, <1>3

-----------------------------------------------------------------------------
(* The laws of sums.                                                       *)

LEMMA SumNatural ==
  ASSUME NEW f, NEW S, IsFiniteSet(S), Naturals(f, S)
  PROVE  SumFunctionOnSet(f, S) \in Nat
  BY SumIsUnits, UnitsFinite, FS_CardinalityType

LEMMA SumOfNone == ASSUME NEW f PROVE SumFunctionOnSet(f, {}) = 0
<1>1. Units(f, {}) = {} /\ Naturals(f, {})
  BY DEF Units, Naturals
<1> QED  BY <1>1, SumIsUnits, FS_EmptySet

\* An element taken apart.
LEMMA SumWithout ==
  ASSUME NEW f, NEW S, IsFiniteSet(S), Naturals(f, S), NEW x \in S
  PROVE  SumFunctionOnSet(f, S) = f[x] + SumFunctionOnSet(f, S \ {x})
<1>1. IsFiniteSet(S \ {x}) /\ Naturals(f, S \ {x})
  BY FS_RemoveElement DEF Naturals
<1> QED  BY <1>1, SumIsUnits, UnitsAdd

LEMMA SumWith ==
  ASSUME NEW f, NEW S, IsFiniteSet(S), NEW x, x \notin S, Naturals(f, S \cup {x})
  PROVE  SumFunctionOnSet(f, S \cup {x}) = SumFunctionOnSet(f, S) + f[x]
<1>1. IsFiniteSet(S \cup {x}) /\ x \in S \cup {x} /\ (S \cup {x}) \ {x} = S
  BY FS_AddElement
<1>2. SumFunctionOnSet(f, S \cup {x}) = f[x] + SumFunctionOnSet(f, S)
  BY <1>1, SumWithout
<1>3. Naturals(f, S) /\ f[x] \in Nat
  BY DEF Naturals
<1>4. SumFunctionOnSet(f, S) \in Nat
  BY <1>3, SumNatural
<1> QED  BY <1>2, <1>3, <1>4

\* The sum depends on the numbers only.
LEMMA SumSame ==
  ASSUME NEW f, NEW g, NEW S, IsFiniteSet(S), Naturals(f, S), \A x \in S : g[x] = f[x]
  PROVE  SumFunctionOnSet(g, S) = SumFunctionOnSet(f, S)
<1>1. Naturals(g, S) /\ Units(g, S) = Units(f, S)
  BY DEF Naturals, Units
<1> QED  BY <1>1, SumIsUnits

\* Smaller numbers have a smaller sum.
LEMMA SumMonotone ==
  ASSUME NEW f, NEW g, NEW S, IsFiniteSet(S), Naturals(f, S), Naturals(g, S),
         \A x \in S : g[x] <= f[x]
  PROVE  SumFunctionOnSet(g, S) <= SumFunctionOnSet(f, S)
<1>1. \A x \in S : 1..g[x] \subseteq 1..f[x]
  BY DEF Naturals
<1>2. Units(g, S) \in SUBSET Units(f, S)
  BY <1>1 DEF Units
<1>3. Cardinality(Units(g, S)) <= Cardinality(Units(f, S))
  BY <1>2, UnitsFinite, FS_Subset
<1> QED  BY <1>3, SumIsUnits

\* The sum over sets without a common element.
LEMMA SumApart ==
  ASSUME NEW f, NEW S, NEW T, IsFiniteSet(S), IsFiniteSet(T), S \cap T = {},
         Naturals(f, S), Naturals(f, T)
  PROVE  SumFunctionOnSet(f, S \cup T) = SumFunctionOnSet(f, S) + SumFunctionOnSet(f, T)
<1>1. Units(f, S \cup T) = Units(f, S) \cup Units(f, T) /\ Units(f, S) \cap Units(f, T) = {}
  BY DEF Units
<1>2. IsFiniteSet(S \cup T) /\ Naturals(f, S \cup T)
  BY FS_Union DEF Naturals
<1>3. Cardinality(Units(f, S) \cup Units(f, T)) = Cardinality(Units(f, S)) + Cardinality(Units(f, T))
  BY <1>1, UnitsFinite, CountApart
<1> QED  BY <1>1, <1>2, <1>3, SumIsUnits

=============================================================================
