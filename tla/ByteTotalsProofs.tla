--------------------------- MODULE ByteTotalsProofs ---------------------------
(***************************************************************************)
(* What the theorems about the switch need to know of Total: how it changes *)
(* when an element enters or leaves the set, when one count changes or when *)
(* the elements are renamed; and of sets of numbers: that they have a least *)
(* element and, when they are bounded, a greatest one.                     *)
(***************************************************************************)
EXTENDS ByteTotals, FiniteSetTheorems, WellFoundedInduction, TLAPS

\* A set of natural numbers has a least element.
LEMMA LeastNumber ==
  ASSUME NEW S, S \subseteq Nat, S # {}
  PROVE  \E x \in S : \A y \in S : x <= y
<1> DEFINE Below == {ss \in Nat \X Nat : ss[1] < ss[2]}
<1>1. IsWellFoundedOn(Below, Nat)
  BY NatLessThanWellFounded, Zenon DEF OpToRel
<1>2. PICK x \in S : \A y \in S : ~ (<<y, x>> \in Below)
  <2> HIDE DEF Below
  <2> QED
    BY <1>1, WFMin
<1>3. ASSUME NEW y \in S
      PROVE  x <= y
  <2>1. x \in Nat /\ y \in Nat
    OBVIOUS
  <2>2. y < x => <<y, x>> \in Below
    BY <2>1
  <2> HIDE DEF Below
  <2>3. ~ (y < x)
    BY <1>2, <2>2
  <2> QED
    BY <2>1, <2>3
<1> QED
  BY <1>3

\* A bounded set of natural numbers has a greatest element.
LEMMA GreatestNumber ==
  ASSUME NEW n \in Nat, NEW S, S \subseteq 0 .. n, S # {}
  PROVE  \E x \in S : \A y \in S : y <= x
<1> DEFINE R == {n - j : j \in S}
<1>1. R \subseteq Nat /\ R # {}
  <2>1. PICK j \in S : TRUE
    OBVIOUS
  <2>2. n - j \in R
    OBVIOUS
  <2>3. \A i \in S : n - i \in Nat
    OBVIOUS
  <2> QED
    BY <2>2, <2>3
<1>2. PICK r \in R : \A j \in R : r <= j
  <2> HIDE DEF R
  <2> QED
    BY <1>1, LeastNumber
<1>3. PICK x \in S : r = n - x
  BY <1>2
<1>4. ASSUME NEW y \in S
      PROVE  y <= x
  <2>1. n - x <= n - y
    BY <1>2, <1>3
  <2> HIDE DEF R
  <2> QED
    BY <2>1
<1> QED
  BY <1>4

\* A finite sum of natural numbers is a natural number.
LEMMA TotalType ==
  ASSUME NEW S, IsFiniteSet(S), NEW w, \A x \in S : w[x] \in Nat
  PROVE  /\ IsFiniteSet(Cells(S, w))
         /\ Total(S, w) \in Nat
<1> DEFINE Block(x) == {x} \X (1 .. w[x])
           T == {Block(x) : x \in S}
           f == [x \in S |-> Block(x)]
<1>1. ASSUME NEW x \in S
      PROVE  IsFiniteSet(Block(x))
  <2>1. IsFiniteSet({x})
    BY FS_Singleton
  <2>2. w[x] \in Int
    OBVIOUS
  <2>3. IsFiniteSet(1 .. w[x])
    BY <2>2, FS_Interval
  <2> QED
    BY <2>1, <2>3, FS_Product
<1>2. f \in Surjection(S, T)
  BY DEF Surjection
<1>3. IsFiniteSet(T)
  BY <1>2, FS_Surjection
<1>4. \A B \in T : IsFiniteSet(B)
  BY <1>1
<1>5. IsFiniteSet(UNION T)
  <2> HIDE DEF T
  <2> QED
    BY <1>3, <1>4, FS_UNION
<1>6. Cells(S, w) = UNION T
  BY DEF Cells
<1> QED
  BY <1>5, <1>6, FS_CardinalityType DEF Total

\* The empty sum.
LEMMA TotalEmpty == ASSUME NEW w PROVE Total({}, w) = 0
<1>1. Cells({}, w) = {}
  BY DEF Cells
<1> QED
  BY <1>1, FS_EmptySet DEF Total

\* The bytes of one element.
LEMMA BlockSize ==
  ASSUME NEW x, NEW n \in Nat
  PROVE  /\ IsFiniteSet({x} \X (1 .. n))
         /\ Cardinality({x} \X (1 .. n)) = n
<1>1. IsFiniteSet({x}) /\ Cardinality({x}) = 1
  BY FS_Singleton
<1>2. IsFiniteSet(1 .. n) /\ Cardinality(1 .. n) = n
  <2>1. IsFiniteSet(1 .. n) /\ Cardinality(1 .. n) = IF 1 > n THEN 0 ELSE n - 1 + 1
    BY FS_Interval
  <2> QED
    BY <2>1
<1>3. /\ IsFiniteSet({x} \X (1 .. n))
      /\ Cardinality({x} \X (1 .. n)) = Cardinality({x}) * Cardinality(1 .. n)
  <2> DEFINE A == {x}
             B == 1 .. n
  <2> HIDE DEF A, B
  <2>1. IsFiniteSet(A) /\ IsFiniteSet(B)
    BY <1>1, <1>2 DEF A, B
  <2>2. IsFiniteSet(A \X B) /\ Cardinality(A \X B) = Cardinality(A) * Cardinality(B)
    BY <2>1, FS_Product
  <2> QED
    BY <2>2 DEF A, B
<1> QED
  BY <1>1, <1>2, <1>3

\* An element that enters the set adds its count.
LEMMA TotalAdd ==
  ASSUME NEW S, IsFiniteSet(S), NEW w, \A y \in S : w[y] \in Nat,
         NEW x, x \notin S, w[x] \in Nat
  PROVE  Total(S \cup {x}, w) = Total(S, w) + w[x]
<1> DEFINE Block == {x} \X (1 .. w[x])
<1>1. Cells(S \cup {x}, w) = Cells(S, w) \cup Block
  BY DEF Cells
<1>2. Cells(S, w) \cap Block = {}
  BY DEF Cells
<1>3. IsFiniteSet(Block) /\ Cardinality(Block) = w[x]
  BY BlockSize
<1>4. IsFiniteSet(Cells(S, w)) /\ Cardinality(Cells(S, w)) \in Nat
  BY TotalType DEF Total
<1>5. Cardinality(Cells(S, w) \cup Block)
        = Cardinality(Cells(S, w)) + Cardinality(Block) - Cardinality(Cells(S, w) \cap Block)
  <2> HIDE DEF Block
  <2> QED
    BY <1>3, <1>4, FS_Union
<1>6. Cardinality(Cells(S, w) \cap Block) = 0
  BY <1>2, FS_EmptySet
<1>7. Cardinality(Cells(S \cup {x}, w)) = Cardinality(Cells(S, w)) + w[x] - 0
  BY <1>1, <1>3, <1>5, <1>6, Zenon
<1> QED
  BY <1>4, <1>7 DEF Total

\* An element that leaves the set takes its count away.
LEMMA TotalRemove ==
  ASSUME NEW S, IsFiniteSet(S), NEW w, \A y \in S : w[y] \in Nat,
         NEW x \in S
  PROVE  /\ Total(S \ {x}, w) \in Nat
         /\ Total(S, w) = Total(S \ {x}, w) + w[x]
<1>1. IsFiniteSet(S \ {x})
  BY FS_RemoveElement
<1>2. Total((S \ {x}) \cup {x}, w) = Total(S \ {x}, w) + w[x]
  BY <1>1, TotalAdd
<1>3. (S \ {x}) \cup {x} = S
  OBVIOUS
<1> QED
  BY <1>1, <1>2, <1>3, TotalType

\* The sum depends on nothing but the counts of the set's elements.
LEMMA TotalSame ==
  ASSUME NEW S, NEW v, NEW w, \A x \in S : v[x] = w[x]
  PROVE  Total(S, v) = Total(S, w)
<1>1. Cells(S, v) = Cells(S, w)
  BY DEF Cells
<1> QED
  BY <1>1 DEF Total

\* Changing one count changes the sum by the difference.
LEMMA TotalChange ==
  ASSUME NEW S, IsFiniteSet(S), NEW v, NEW w, NEW i \in S,
         \A x \in S : v[x] \in Nat /\ w[x] \in Nat,
         \A x \in S \ {i} : v[x] = w[x]
  PROVE  Total(S, v) + w[i] = Total(S, w) + v[i]
<1>1. Total(S \ {i}, v) = Total(S \ {i}, w)
  BY TotalSame
<1>2. Total(S \ {i}, v) \in Nat /\ Total(S, v) = Total(S \ {i}, v) + v[i]
  BY TotalRemove
<1>3. Total(S \ {i}, w) \in Nat /\ Total(S, w) = Total(S \ {i}, w) + w[i]
  BY TotalRemove
<1> QED
  BY <1>1, <1>2, <1>3

\* A part is at most the whole.
LEMMA TotalPart ==
  ASSUME NEW S, IsFiniteSet(S), NEW w, \A x \in S : w[x] \in Nat,
         NEW T \in SUBSET S
  PROVE  /\ IsFiniteSet(T)
         /\ Total(T, w) \in Nat
         /\ Total(T, w) <= Total(S, w)
<1>1. IsFiniteSet(T)
  BY FS_Subset
<1>2. Cells(T, w) \in SUBSET Cells(S, w)
  BY DEF Cells
<1>3. IsFiniteSet(Cells(S, w))
  BY TotalType
<1>4. Total(T, w) \in Nat
  BY <1>1, TotalType
<1> QED
  BY <1>1, <1>2, <1>3, <1>4, FS_Subset DEF Total

\* A sum of zeros.
LEMMA TotalZero ==
  ASSUME NEW S, NEW w, \A x \in S : w[x] = 0
  PROVE  Total(S, w) = 0
<1>1. Cells(S, w) = {}
  BY DEF Cells
<1> QED
  BY <1>1, FS_EmptySet DEF Total

\* The sum grows with the counts.
LEMMA TotalMonotone ==
  ASSUME NEW S, IsFiniteSet(S), NEW v, NEW w,
         \A x \in S : v[x] \in Nat /\ w[x] \in Nat /\ v[x] <= w[x]
  PROVE  Total(S, v) \in Nat /\ Total(S, w) \in Nat /\ Total(S, v) <= Total(S, w)
<1>1. /\ IsFiniteSet(Cells(S, v)) /\ Total(S, v) \in Nat
      /\ IsFiniteSet(Cells(S, w)) /\ Total(S, w) \in Nat
  BY TotalType
<1>2. Cells(S, v) \subseteq Cells(S, w)
  <2>1. ASSUME NEW x \in S
        PROVE  (1 .. v[x]) \subseteq (1 .. w[x])
    OBVIOUS
  <2> QED
    BY <2>1 DEF Cells
<1> QED
  BY <1>1, <1>2, FS_Subset DEF Total

\* Each count is at most the sum.
LEMMA TotalBounds ==
  ASSUME NEW S, IsFiniteSet(S), NEW w, \A x \in S : w[x] \in Nat, NEW x \in S
  PROVE  w[x] <= Total(S, w)
<1>1. Total(S \ {x}, w) \in Nat /\ Total(S, w) = Total(S \ {x}, w) + w[x]
  BY TotalRemove
<1> QED
  BY <1>1

\* The sum does not depend on what the elements are called.
LEMMA TotalRenamed ==
  ASSUME NEW S, IsFiniteSet(S), NEW v, \A x \in S : v[x] \in Nat,
         NEW T, NEW w, NEW b \in Bijection(S, T), \A x \in S : w[b[x]] = v[x]
  PROVE  Total(T, w) = Total(S, v)
<1> DEFINE f == [c \in Cells(S, v) |-> <<b[c[1]], c[2]>>]
<1>1. /\ b \in [S -> T]
      /\ \A x, y \in S : b[x] = b[y] => x = y
      /\ \A t \in T : \E x \in S : b[x] = t
  BY DEF Bijection, Injection, Surjection, IsInjective
<1>2. \A c \in Cells(S, v) : c = <<c[1], c[2]>> /\ c[1] \in S /\ c[2] \in 1 .. v[c[1]]
  BY DEF Cells
<1>3. f \in [Cells(S, v) -> Cells(T, w)]
  <2> SUFFICES ASSUME NEW c \in Cells(S, v)
               PROVE  <<b[c[1]], c[2]>> \in Cells(T, w)
    OBVIOUS
  <2>1. c[1] \in S /\ c[2] \in 1 .. w[b[c[1]]] /\ b[c[1]] \in T
    BY <1>1, <1>2
  <2> QED
    BY <2>1 DEF Cells
<1>4. \A c, e \in Cells(S, v) : f[c] = f[e] => c = e
  <2> SUFFICES ASSUME NEW c \in Cells(S, v), NEW e \in Cells(S, v), f[c] = f[e]
               PROVE  c = e
    OBVIOUS
  <2>1. b[c[1]] = b[e[1]] /\ c[2] = e[2]
    OBVIOUS
  <2>2. c[1] = e[1]
    BY <1>1, <1>2, <2>1
  <2> HIDE DEF f
  <2> QED
    BY <1>2, <2>1, <2>2
<1>5. \A t \in Cells(T, w) : \E c \in Cells(S, v) : f[c] = t
  <2> SUFFICES ASSUME NEW y \in T, NEW k \in 1 .. w[y]
               PROVE  \E c \in Cells(S, v) : f[c] = <<y, k>>
    <3> HIDE DEF f
    <3> QED
      BY DEF Cells
  <2>1. PICK x \in S : b[x] = y
    BY <1>1
  <2>2. <<x, k>> \in Cells(S, v)
    BY <2>1 DEF Cells
  <2>3. f[<<x, k>>] = <<y, k>>
    BY <2>1, <2>2
  <2> QED
    BY <2>2, <2>3
<1>6. f \in Bijection(Cells(S, v), Cells(T, w))
  <2> HIDE DEF f
  <2> QED
    BY <1>3, <1>4, <1>5 DEF Bijection, Injection, Surjection, IsInjective
<1>7. IsFiniteSet(Cells(S, v))
  BY TotalType
<1> HIDE DEF f
<1> QED
  BY <1>6, <1>7, FS_Bijection DEF Total, ExistsBijection
===============================================================================
