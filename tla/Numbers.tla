------------------------------- MODULE Numbers -------------------------------
(***************************************************************************)
(* Facts about natural numbers that the proofs share: the least and the    *)
(* greatest of a set, the multiples of a width, and sums over a finite     *)
(* set.                                                                    *)
(***************************************************************************)
EXTENDS Integers, FiniteSets, FiniteSetTheorems, WellFoundedInduction, TLAPS

(* A set of natural numbers that is not empty has a least.                 *)
LEMMA LeastNumber ==
  ASSUME NEW S \in SUBSET Nat, S # {}
  PROVE  \E x \in S : \A y \in S : x <= y
<1> DEFINE R == OpToRel(<, Nat)
<1>1. IsWellFoundedOn(R, Nat)
  BY NatLessThanWellFounded
<1>2. \A x, y \in Nat : <<x, y>> \in R <=> x < y
  BY DEF OpToRel
<1> HIDE DEF R
<1>3. PICK x \in S : \A y \in S : ~ (<<y, x>> \in R)
  BY <1>1, WFMin
<1>4. \A y \in S : x <= y
  <2> TAKE y \in S
  <2>1. x \in Nat /\ y \in Nat
    OBVIOUS
  <2>2. ~ y < x
    BY <1>2, <1>3, <2>1
  <2> QED
    BY <2>1, <2>2
<1> QED
  BY <1>4

(* A bounded one has a greatest, too.                                      *)
LEMMA GreatestNumber ==
  ASSUME NEW n \in Nat, NEW S \in SUBSET (0 .. n), S # {}
  PROVE  \E x \in S : \A y \in S : y <= x
<1> DEFINE T == {n - x : x \in S}
<1>1. \A x \in S : x \in Nat /\ n - x \in Nat
  OBVIOUS
<1>2. T \in SUBSET Nat /\ T # {}
  BY <1>1
<1>3. PICK m \in T : \A y \in T : m <= y
  <2> HIDE DEF T
  <2> QED
    BY <1>2, LeastNumber
<1>4. PICK x \in S : m = n - x
  BY <1>3
<1>5. \A y \in S : y <= x
  <2> TAKE y \in S
  <2>1. n - y \in T
    OBVIOUS
  <2>2. n - x <= n - y
    <3> HIDE DEF T
    <3> QED
      BY <1>3, <1>4, <2>1
  <2> QED
    BY <1>1, <2>2
<1> QED
  BY <1>5

LEMMA MinMax ==
  ASSUME NEW n \in Nat, NEW S \in SUBSET (1 .. n), S # {}
  PROVE  /\ \E x \in S : \A y \in S : x <= y
         /\ \E x \in S : \A y \in S : y <= x
<1>1. S \in SUBSET Nat /\ S \in SUBSET (0 .. n)
  OBVIOUS
<1> QED
  BY <1>1, LeastNumber, GreatestNumber

-----------------------------------------------------------------------------
(* Multiples of a width.                                                   *)

LEMMA MultipleIs ==
  ASSUME NEW t \in Nat, NEW w \in Nat \ {0}
  PROVE  /\ t % w \in 0 .. w - 1 /\ t \div w \in Nat
         /\ t = w * (t \div w) + (t % w)
OBVIOUS

LEMMA ProductIs ==
  ASSUME NEW k \in Nat, NEW w \in Nat \ {0}
  PROVE  (w * k) % w = 0
OBVIOUS

(* The multiple a number is rounded down to. *)
LEMMA RoundedDown ==
  ASSUME NEW t \in Nat, NEW w \in Nat \ {0}
  PROVE  t - (t % w) \in Nat /\ t - (t % w) <= t /\ t < t - (t % w) + w /\ (t - (t % w)) % w = 0
<1>1. t % w \in 0 .. w - 1 /\ t \div w \in Nat /\ t = w * (t \div w) + (t % w)
  BY MultipleIs
<1>2. t - (t % w) = w * (t \div w)
  BY <1>1
<1>3. t % w <= t
  BY <1>1
<1>4. (w * (t \div w)) % w = 0
  BY <1>1, ProductIs
<1> QED
  BY <1>1, <1>2, <1>3, <1>4

(* The next multiple is a width away, *)
LEMMA NextMultiple ==
  ASSUME NEW w \in Nat \ {0}, NEW x \in Nat, x % w = 0
  PROVE  x + w \in Nat /\ x < x + w /\ (x + w) % w = 0
<1> DEFINE i == x \div w
<1>1. i \in Nat /\ x = w * i
  BY MultipleIs
<1> HIDE DEF i
<1>2. x + w = w * (i + 1) /\ i + 1 \in Nat
  BY <1>1
<1>3. (w * (i + 1)) % w = 0
  BY <1>2, ProductIs
<1> QED
  BY <1>2, <1>3

(* and none is nearer. *)
LEMMA MultiplesApart ==
  ASSUME NEW w \in Nat \ {0}, NEW x \in Nat, NEW y \in Nat, x % w = 0, y % w = 0, x < y
  PROVE  x + w <= y
<1> DEFINE i == x \div w
           j == y \div w
<1>1. i \in Nat /\ j \in Nat /\ x = w * i /\ y = w * j
  BY MultipleIs
<1> HIDE DEF i, j
<1>2. i < j
  <2>1. ASSUME j <= i PROVE FALSE
    <3>1. w * j <= w * i
      BY <1>1, <2>1
    <3> QED
      BY <1>1, <3>1
  <2> QED
    BY <1>1, <2>1
<1>3. w * (i + 1) <= w * j
  BY <1>1, <1>2
<1>4. w * (i + 1) = w * i + w
  BY <1>1
<1> QED
  BY <1>1, <1>3, <1>4

(* A multiple of a multiple. *)
LEMMA MultipleOfMultiple ==
  ASSUME NEW w \in Nat \ {0}, NEW d \in Nat \ {0}, NEW t \in Nat, d % w = 0, t % d = 0
  PROVE  t % w = 0
<1> DEFINE a == t \div d
           b == d \div w
<1>1. a \in Nat /\ b \in Nat /\ t = d * a /\ d = w * b
  BY MultipleIs
<1> HIDE DEF a, b
<1>2. t = w * (b * a) /\ b * a \in Nat
  BY <1>1
<1>3. (w * (b * a)) % w = 0
  BY <1>2, ProductIs
<1> QED
  BY <1>2, <1>3

-----------------------------------------------------------------------------
(* Sums over a finite set, taken element by element as a fold does.        *)

Picked(s) == CHOOSE x \in s : TRUE
IsSum(F, T, w) ==
  F = [s \in SUBSET T |-> IF s = {} THEN 0 ELSE w[Picked(s)] + F[s \ {Picked(s)}]]

LEMMA PickedIs ==
  ASSUME NEW s, s # {}, IsFiniteSet(s)
  PROVE  /\ Picked(s) \in s /\ IsFiniteSet(s \ {Picked(s)})
         /\ Cardinality(s) \in Nat /\ Cardinality(s \ {Picked(s)}) = Cardinality(s) - 1
         /\ Cardinality(s \ {Picked(s)}) \in Nat
<1>1. Picked(s) \in s
  BY DEF Picked
<1> DEFINE x == Picked(s)
<1> HIDE DEF x
<1>2. IsFiniteSet(s \ {x}) /\ Cardinality(s) \in Nat
  BY FS_RemoveElement, FS_CardinalityType
<1>3. Cardinality(s \ {x}) = IF x \in s THEN Cardinality(s) - 1 ELSE Cardinality(s)
  BY FS_RemoveElement
<1>4. Cardinality(s \ {x}) \in Nat
  BY <1>2, FS_CardinalityType
<1> QED
  BY <1>1, <1>2, <1>3, <1>4 DEF x

(* There is such a function: by induction on the size of the sets it is    *)
(* right for.                                                              *)
LEMMA SumExists ==
  ASSUME NEW T, IsFiniteSet(T), NEW w \in [T -> Nat]
  PROVE  \E F \in [SUBSET T -> Nat] : IsSum(F, T, w)
<1> DEFINE Body(F, s) == IF s = {} THEN 0 ELSE w[Picked(s)] + F[s \ {Picked(s)}]
           Upto(n) == \E F \in [SUBSET T -> Nat] :
                        \A s \in SUBSET T : Cardinality(s) <= n => F[s] = Body(F, s)
           Wrong == {n \in Nat : ~Upto(n)}
<1>1. \A s \in SUBSET T : IsFiniteSet(s) /\ Cardinality(s) \in Nat /\ Cardinality(s) <= Cardinality(T)
  BY FS_Subset, FS_CardinalityType
<1>2. \A s \in SUBSET T : s # {} =>
        /\ Picked(s) \in T /\ s \ {Picked(s)} \in SUBSET T
        /\ Cardinality(s \ {Picked(s)}) = Cardinality(s) - 1
  BY <1>1, PickedIs
<1>3. ASSUME NEW F \in [SUBSET T -> Nat], NEW s \in SUBSET T PROVE Body(F, s) \in Nat
  BY <1>2
<1>4. Upto(0)
  <2> DEFINE Z == [s \in SUBSET T |-> 0]
  <2>1. Z \in [SUBSET T -> Nat]
    OBVIOUS
  <2>2. \A s \in SUBSET T : Cardinality(s) <= 0 => s = {}
    BY <1>1, FS_EmptySet
  <2> QED
    BY <2>1, <2>2
<1>5. ASSUME NEW n \in Nat, Upto(n) PROVE Upto(n + 1)
  <2>1. PICK F \in [SUBSET T -> Nat] : \A s \in SUBSET T : Cardinality(s) <= n => F[s] = Body(F, s)
    BY <1>5
  <2> DEFINE G == [s \in SUBSET T |-> Body(F, s)]
  <2>2. G \in [SUBSET T -> Nat]
    BY <1>3
  <2>3. ASSUME NEW s \in SUBSET T, Cardinality(s) <= n + 1 PROVE G[s] = Body(G, s)
    <3>1. CASE s = {}
      BY <3>1
    <3>2. CASE s # {}
      <4> DEFINE r == s \ {Picked(s)}
      <4>1. r \in SUBSET T /\ Cardinality(r) <= n
        BY <1>1, <1>2, <2>3, <3>2
      <4>2. G[r] = F[r]
        <5>1. F[r] = Body(F, r)
          BY <2>1, <4>1
        <5> QED
          BY <4>1, <5>1
      <4>3. G[s] = w[Picked(s)] + F[r] /\ Body(G, s) = w[Picked(s)] + G[r]
        BY <3>2
      <4> QED
        BY <4>2, <4>3
    <3> QED
      BY <3>1, <3>2
  <2> HIDE DEF G
  <2> QED
    BY <2>2, <2>3
<1>6. Upto(Cardinality(T))
  <2> HIDE DEF Upto
  <2>1. Cardinality(T) \in Nat
    BY FS_CardinalityType
  <2> SUFFICES ASSUME Wrong # {} PROVE FALSE
    BY <2>1
  <2>2. PICK m \in Wrong : \A n \in Wrong : m <= n
    BY LeastNumber
  <2>3. m \in Nat /\ ~Upto(m) /\ m # 0
    BY <1>4
  <2>4. m - 1 \in Nat /\ m - 1 \notin Wrong /\ (m - 1) + 1 = m
    BY <2>2, <2>3
  <2>5. Upto((m - 1) + 1)
    BY <1>5, <2>4
  <2> QED
    BY <2>3, <2>4, <2>5
<1>7. PICK F \in [SUBSET T -> Nat] :
        \A s \in SUBSET T : Cardinality(s) <= Cardinality(T) => F[s] = Body(F, s)
  BY <1>6
<1>8. F = [s \in SUBSET T |-> Body(F, s)]
  BY <1>1, <1>7
<1> QED
  BY <1>8 DEF IsSum

(* When the weights are sizes of disjoint sets, the sum is the size of     *)
(* their union.                                                            *)
LEMMA SumOfSizes ==
  ASSUME NEW T, IsFiniteSet(T), NEW w \in [T -> Nat], NEW F, IsSum(F, T, w), NEW U,
         \A x \in T : IsFiniteSet(U[x]) /\ w[x] <= Cardinality(U[x]),
         \A x, y \in T : x # y => U[x] \cap U[y] = {}
  PROVE  LET all == UNION {U[x] : x \in T}
         IN  /\ IsFiniteSet(all) /\ F[T] \in Nat
             /\ F[T] <= Cardinality(all)
             /\ (\A x \in T : w[x] = Cardinality(U[x])) => F[T] = Cardinality(all)
<1> DEFINE All(s) == UNION {U[x] : x \in s}
           Right(s) == /\ IsFiniteSet(All(s)) /\ F[s] \in Nat
                       /\ F[s] <= Cardinality(All(s))
                       /\ (\A x \in T : w[x] = Cardinality(U[x])) => F[s] = Cardinality(All(s))
           Wrong == {Cardinality(s) : s \in {r \in SUBSET T : ~Right(r)}}
<1>1. \A s \in SUBSET T : IsFiniteSet(s) /\ Cardinality(s) \in Nat
  BY FS_Subset, FS_CardinalityType
<1>2. /\ T \in SUBSET T /\ F[{}] = 0
      /\ \A s \in SUBSET T : s # {} => F[s] = w[Picked(s)] + F[s \ {Picked(s)}]
  BY DEF IsSum
<1>3. Right({})
  <2>1. All({}) = {}
    OBVIOUS
  <2> QED
    BY <1>2, <2>1, FS_EmptySet
<1>4. ASSUME NEW s \in SUBSET T, s # {}, Right(s \ {Picked(s)}) PROVE Right(s)
  <2> DEFINE x == Picked(s)
             r == s \ {x}
             A == All(r)
             B == U[x]
  <2>1. x \in s /\ x \in T
    BY <1>1, <1>4, PickedIs
  <2>2. All(s) = A \cup B
    BY <2>1
  <2>3. A \cap B = {}
    BY <2>1
  <2>4. /\ IsFiniteSet(A) /\ IsFiniteSet(B) /\ w[x] <= Cardinality(B) /\ w[x] \in Nat
        /\ F[r] \in Nat /\ F[r] <= Cardinality(A) /\ F[s] = w[x] + F[r]
    BY <1>2, <1>4, <2>1
  <2>7. ASSUME \A y \in T : w[y] = Cardinality(U[y])
        PROVE  F[r] = Cardinality(A) /\ w[x] = Cardinality(B)
    BY <1>4, <2>1, <2>7
  <2> HIDE DEF x, r, A, B
  <2>5. IsFiniteSet(A \cup B) /\ Cardinality(A \cup B) = Cardinality(A) + Cardinality(B)
    <3>1. /\ IsFiniteSet(A \cup B)
          /\ Cardinality(A \cup B) = Cardinality(A) + Cardinality(B) - Cardinality(A \cap B)
      BY <2>4, FS_Union
    <3>2. Cardinality(A \cap B) = 0
      BY <2>3, FS_EmptySet
    <3>3. Cardinality(A) \in Nat /\ Cardinality(B) \in Nat
      BY <2>4, FS_CardinalityType
    <3> QED
      BY <3>1, <3>2, <3>3
  <2>6. Cardinality(A) \in Nat /\ Cardinality(B) \in Nat
    BY <2>4, FS_CardinalityType
  <2> HIDE DEF All
  <2> QED
    BY <2>2, <2>4, <2>5, <2>6, <2>7
<1> HIDE DEF Right
<1>5. Right(T)
  <2> SUFFICES ASSUME ~Right(T) PROVE FALSE
    OBVIOUS
  <2>1. Wrong \in SUBSET Nat /\ Wrong # {}
    BY <1>1, <1>2
  <2>2. PICK m \in Wrong : \A n \in Wrong : m <= n
    <3> HIDE DEF Wrong
    <3> QED
      BY <2>1, LeastNumber
  <2>3. PICK s \in SUBSET T : m = Cardinality(s) /\ ~Right(s)
    OBVIOUS
  <2>4. s # {}
    BY <1>3, <2>3
  <2>5. /\ s \ {Picked(s)} \in SUBSET T /\ Cardinality(s) \in Nat
        /\ Cardinality(s \ {Picked(s)}) = Cardinality(s) - 1
    BY <1>1, <2>4, PickedIs
  <2>6. ~ m <= Cardinality(s \ {Picked(s)})
    BY <2>3, <2>5
  <2>7. Right(s \ {Picked(s)})
    BY <2>2, <2>5, <2>6
  <2> QED
    BY <1>4, <2>3, <2>4, <2>7
<1> QED
  BY <1>5 DEF Right
=============================================================================
