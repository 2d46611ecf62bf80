--------------------------- MODULE ArithmeticProofs ---------------------------
(***************************************************************************)
(* What module Datapath computes, instruction by instruction, for every    *)
(* width of a byte and every value of the operands: the numbers first (the *)
(* sums that Functions defines recursively, powers of two, digits, signed  *)
(* numbers of n bits), then the fields and immediates of an instruction,   *)
(* then the results of the arithmetic dispatchers.  Module DatapathProofs  *)
(* proves the properties of the specification from these lemmas.           *)
(*                                                                         *)
(* The provers know the powers of two only as numbers: that 2^(n+1) is     *)
(* twice 2^n is proved by counting the subsets of 1..(n+1).                *)
(***************************************************************************)
EXTENDS Datapath, WellFoundedInduction, FiniteSetTheorems, TLAPS

---------------------------------------------------------------------------
(* Induction, and the sums of module Functions.                            *)

\* Induction on the numbers, for a property given as a set.  It is proved from
\* the least number outside the set: the library's induction theorems take an
\* operator and cannot be instantiated.
LEMMA SetInduction ==
    ASSUME NEW S, 0 \in S, \A n \in Nat : n \in S => n + 1 \in S
    PROVE  \A n \in Nat : n \in S
<1> DEFINE T == Nat \ S
           R == OpToRel(<, Nat)
<1> SUFFICES ASSUME T # {} PROVE FALSE
  OBVIOUS
<1>1. IsWellFoundedOn(R, Nat)
  BY NatLessThanWellFounded
<1>2. PICK x \in T : \A y \in T : ~(<<y, x>> \in R)
  <2> HIDE DEF R
  <2> QED
    BY <1>1, WFMin
<1>3. \A y \in Nat : <<y, x>> \in R <=> y < x
  BY DEF OpToRel
<1>4. x # 0 /\ x \in Nat
  OBVIOUS
<1>5. x - 1 \in Nat /\ x - 1 < x
  BY <1>4
<1>6. x - 1 \in S
  BY <1>2, <1>3, <1>5
<1>7. (x - 1) + 1 = x
  BY <1>4
<1> QED
  BY <1>5, <1>6, <1>7

\* One element of a set, as the folds choose it, and one step of the sum.
Pick(s) == CHOOSE x \in s : TRUE

SumStep(t, g, s) == IF s = {} THEN 0 ELSE t[Pick(s)] + g[s \ {Pick(s)}]

IsSum(t, g, S) == g = [s \in SUBSET S |-> SumStep(t, g, s)]

SumIter(t, S) == CHOOSE g : IsSum(t, g, S)

\* SumFunctionOnSet is the last value of the recursive function it is defined
\* with.
LEMMA SumUnfold ==
    ASSUME NEW t, NEW S
    PROVE  SumFunctionOnSet(t, S) = SumIter(t, S)[S]
BY DEF SumFunctionOnSet, FoldFunctionOnSet, MapThenFoldSet, SumIter, IsSum, SumStep, Pick

\* The chosen element is in the set.
LEMMA PickIn == ASSUME NEW s, s # {} PROVE Pick(s) \in s
BY DEF Pick

\* Without the chosen element a finite set has one element less.
LEMMA RemovePick ==
    ASSUME NEW s, IsFiniteSet(s), s # {}
    PROVE  /\ IsFiniteSet(s \ {Pick(s)})
           /\ Cardinality(s) \in Nat /\ Cardinality(s \ {Pick(s)}) \in Nat
           /\ Cardinality(s \ {Pick(s)}) = Cardinality(s) - 1
<1>1. Pick(s) \in s
  BY PickIn
<1> QED
  BY <1>1, FS_RemoveElement, FS_CardinalityType

\* The subsets of S of at most n elements, and a sum over them.
Small(S, n) == {s \in SUBSET S : Cardinality(s) <= n}

IsSumUpTo(t, g, S, n) == g = [s \in Small(S, n) |-> SumStep(t, g, s)]

\* The recursive definition of a sum has a solution: built for the sets of at
\* most n elements, by induction on n.
LEMMA SumExists ==
    ASSUME NEW t, NEW S, IsFiniteSet(S)
    PROVE  IsSum(t, SumIter(t, S), S)
<1> DEFINE Good == {n \in Nat : \E g : IsSumUpTo(t, g, S, n)}
<1>0. \A s \in SUBSET S : IsFiniteSet(s) /\ Cardinality(s) \in Nat
  BY FS_Subset, FS_CardinalityType
<1>1. 0 \in Good
  <2> DEFINE g == [s \in Small(S, 0) |-> 0]
  <2>1. \A s \in Small(S, 0) : s = {}
    BY <1>0, FS_EmptySet DEF Small
  <2>2. g = [s \in Small(S, 0) |-> SumStep(t, g, s)]
    BY <2>1 DEF SumStep
  <2> QED
    BY <2>2 DEF IsSumUpTo
<1>2. ASSUME NEW n \in Nat, n \in Good PROVE n + 1 \in Good
  <2>1. PICK g : IsSumUpTo(t, g, S, n)
    BY <1>2
  <2> DEFINE h == [s \in Small(S, n + 1) |-> SumStep(t, g, s)]
  <2>2. \A s \in Small(S, n) : s \in Small(S, n + 1) /\ h[s] = g[s]
    <3>1. \A s \in Small(S, n) : s \in Small(S, n + 1)
      BY <1>0 DEF Small
    <3> QED
      BY <3>1, <2>1 DEF IsSumUpTo
  <2>3. ASSUME NEW s \in Small(S, n + 1), s # {} PROVE s \ {Pick(s)} \in Small(S, n)
    BY <1>0, <2>3, RemovePick DEF Small
  <2>4. \A s \in Small(S, n + 1) : SumStep(t, h, s) = SumStep(t, g, s)
    BY <2>2, <2>3 DEF SumStep
  <2>5. h = [s \in Small(S, n + 1) |-> SumStep(t, h, s)]
    <3> HIDE DEF h
    <3>1. h = [s \in Small(S, n + 1) |-> SumStep(t, g, s)]
      BY DEF h
    <3> QED
      BY <2>4, <3>1
  <2>6. IsSumUpTo(t, h, S, n + 1)
    BY <2>5 DEF IsSumUpTo
  <2> QED
    BY <2>6
<1>3. \A n \in Nat : n \in Good
  <2> HIDE DEF Good
  <2> QED
    BY <1>1, <1>2, SetInduction
<1>4. Cardinality(S) \in Nat /\ Small(S, Cardinality(S)) = SUBSET S
  BY <1>0, FS_Subset DEF Small
<1>5. \E g : IsSum(t, g, S)
  BY <1>3, <1>4 DEF IsSumUpTo, IsSum
<1> QED
  BY <1>5 DEF SumIter

\* What a solution of the recursion is at one set.
LEMMA IsSumValue ==
    ASSUME NEW t, NEW S, NEW g, IsSum(t, g, S), NEW s \in SUBSET S
    PROVE  g[s] = SumStep(t, g, s)
BY DEF IsSum

\* Two solutions agree where both are defined: a sum does not depend on the
\* set that the recursion started from.
LEMMA SumUnique ==
    ASSUME NEW t, NEW S, IsFiniteSet(S), NEW g, IsSum(t, g, S),
           NEW T, NEW h, IsSum(t, h, T), T \subseteq S
    PROVE  \A s \in SUBSET T : g[s] = h[s]
<1> DEFINE Good == {n \in Nat : \A s \in SUBSET T : Cardinality(s) = n => g[s] = h[s]}
<1>0. \A s \in SUBSET T : IsFiniteSet(s) /\ Cardinality(s) \in Nat /\ s \in SUBSET S
  BY FS_Subset, FS_CardinalityType
<1>1. 0 \in Good
  <2>1. \A s \in SUBSET T : Cardinality(s) = 0 => s = {}
    BY <1>0, FS_EmptySet
  <2>2. g[{}] = SumStep(t, g, {}) /\ h[{}] = SumStep(t, h, {})
    BY IsSumValue
  <2> QED
    BY <2>1, <2>2 DEF SumStep
<1>2. ASSUME NEW n \in Nat, n \in Good PROVE n + 1 \in Good
  <2> SUFFICES ASSUME NEW s \in SUBSET T, Cardinality(s) = n + 1 PROVE g[s] = h[s]
    OBVIOUS
  <2>1. s # {}
    BY FS_EmptySet
  <2>2. Cardinality(s \ {Pick(s)}) = n
    BY <1>0, <2>1, RemovePick
  <2>3. g[s \ {Pick(s)}] = h[s \ {Pick(s)}]
    BY <1>2, <2>2
  <2>4. g[s] = SumStep(t, g, s) /\ h[s] = SumStep(t, h, s)
    BY <1>0, IsSumValue
  <2> QED
    BY <2>1, <2>3, <2>4 DEF SumStep
<1>3. \A n \in Nat : n \in Good
  <2> HIDE DEF Good
  <2> QED
    BY <1>1, <1>2, SetInduction
<1> QED
  BY <1>0, <1>3

\* The sum over the empty set.
LEMMA SumEmpty == ASSUME NEW t PROVE SumFunctionOnSet(t, {}) = 0
<1>1. IsSum(t, SumIter(t, {}), {})
  BY SumExists, FS_EmptySet
<1>2. SumIter(t, {})[{}] = SumStep(t, SumIter(t, {}), {})
  BY <1>1, IsSumValue
<1> QED
  BY <1>2, SumUnfold DEF SumStep

\* A sum takes the chosen element off and goes on with the rest.
LEMMA SumPick ==
    ASSUME NEW t, NEW S, IsFiniteSet(S), S # {}
    PROVE  SumFunctionOnSet(t, S) = t[Pick(S)] + SumFunctionOnSet(t, S \ {Pick(S)})
<1> DEFINE T == S \ {Pick(S)}
           g == SumIter(t, S)
           h == SumIter(t, T)
<1>1. IsFiniteSet(T) /\ T \subseteq S
  BY RemovePick
<1>2. IsSum(t, g, S) /\ IsSum(t, h, T)
  BY <1>1, SumExists
<1>3. g[T] = h[T]
  <2> HIDE DEF g, h, T
  <2> QED
    BY <1>1, <1>2, SumUnique
<1>4. g[S] = SumStep(t, g, S)
  <2> HIDE DEF g
  <2> QED BY <1>2, IsSumValue
<1>5. SumFunctionOnSet(t, S) = g[S] /\ SumFunctionOnSet(t, T) = h[T]
  BY SumUnfold
<1> QED
  BY <1>3, <1>4, <1>5 DEF SumStep

\* A sum of integers is an integer.
LEMMA SumType ==
    ASSUME NEW D, NEW t \in [D -> Int], NEW S \in SUBSET D, IsFiniteSet(S)
    PROVE  SumFunctionOnSet(t, S) \in Int
<1> DEFINE Good == {n \in Nat : \A s \in SUBSET S : Cardinality(s) = n => SumFunctionOnSet(t, s) \in Int}
<1>0. \A s \in SUBSET S : IsFiniteSet(s) /\ Cardinality(s) \in Nat
  BY FS_Subset, FS_CardinalityType
<1>1. 0 \in Good
  BY <1>0, FS_EmptySet, SumEmpty
<1>2. ASSUME NEW n \in Nat, n \in Good PROVE n + 1 \in Good
  <2> SUFFICES ASSUME NEW s \in SUBSET S, Cardinality(s) = n + 1 PROVE SumFunctionOnSet(t, s) \in Int
    OBVIOUS
  <2>1. s # {}
    BY FS_EmptySet
  <2>2. Cardinality(s \ {Pick(s)}) = n
    BY <1>0, <2>1, RemovePick
  <2>3. SumFunctionOnSet(t, s \ {Pick(s)}) \in Int
    BY <1>2, <2>2
  <2>4. t[Pick(s)] \in Int
    BY <2>1, PickIn
  <2> QED
    BY <1>0, <2>1, <2>3, <2>4, SumPick
<1>3. \A n \in Nat : n \in Good
  <2> HIDE DEF Good
  <2> QED
    BY <1>1, <1>2, SetInduction
<1> QED
  BY <1>0, <1>3

\* Any one element can be taken out of a sum.
SumSplits(D, t) ==
    \A S \in SUBSET D : IsFiniteSet(S) =>
        \A x \in S : SumFunctionOnSet(t, S) = t[x] + SumFunctionOnSet(t, S \ {x})

\* Any element of a finite set can be taken off its sum first.
LEMMA SumSplit ==
    ASSUME NEW D, NEW t \in [D -> Int]
    PROVE  SumSplits(D, t)
<1> SUFFICES ASSUME NEW S \in SUBSET D, IsFiniteSet(S), NEW x \in S
             PROVE  SumFunctionOnSet(t, S) = t[x] + SumFunctionOnSet(t, S \ {x})
  BY DEF SumSplits
<1> DEFINE F(s) == SumFunctionOnSet(t, s)
           Good == {n \in Nat : \A s \in SUBSET S : Cardinality(s) = n
                                   => \A y \in s : F(s) = t[y] + F(s \ {y})}
<1>0. \A s \in SUBSET S : IsFiniteSet(s) /\ Cardinality(s) \in Nat /\ F(s) \in Int
  BY FS_Subset, FS_CardinalityType, SumType
<1>1. 0 \in Good
  BY <1>0, FS_EmptySet
<1>2. ASSUME NEW n \in Nat, n \in Good PROVE n + 1 \in Good
  <2> SUFFICES ASSUME NEW s \in SUBSET S, Cardinality(s) = n + 1, NEW y \in s
               PROVE  F(s) = t[y] + F(s \ {y})
    OBVIOUS
  <2> DEFINE c == Pick(s)
  <2>1. c \in s /\ F(s) = t[c] + F(s \ {c})
    BY <1>0, PickIn, SumPick
  <2>2. CASE y = c
    BY <2>1, <2>2
  <2>3. CASE y # c
    <3> HIDE DEF c
    <3>1. Cardinality(s \ {c}) = n /\ Cardinality(s \ {y}) = n
      BY <1>0, <2>1, FS_RemoveElement
    <3>2. F(s \ {c}) = t[y] + F((s \ {c}) \ {y})
      BY <1>2, <2>3, <3>1
    <3>3. F(s \ {y}) = t[c] + F((s \ {y}) \ {c})
      BY <1>2, <2>1, <2>3, <3>1
    <3>4. (s \ {c}) \ {y} = (s \ {y}) \ {c}
      OBVIOUS
    <3>5. t[c] \in Int /\ t[y] \in Int /\ F((s \ {y}) \ {c}) \in Int
      BY <1>0, <2>1
    <3> DEFINE rest == F((s \ {y}) \ {c})
    <3>6. F(s \ {c}) = t[y] + rest /\ F(s \ {y}) = t[c] + rest
      BY <3>2, <3>3, <3>4
    <3> HIDE DEF F, rest
    <3> QED
      BY <2>1, <3>5, <3>6 DEF rest
  <2> QED
    BY <2>2, <2>3
<1>3. \A n \in Nat : n \in Good
  <2> HIDE DEF Good
  <2> QED
    BY <1>1, <1>2, SetInduction
<1> QED
  BY <1>0, <1>3

---------------------------------------------------------------------------
(* Powers of two, quotients and remainders.                                *)

\* 2^n counts the subsets of 1..n, and so is a number.
LEMMA PowCard ==
    ASSUME NEW n \in Nat
    PROVE  /\ IsFiniteSet(SUBSET (1..n))
           /\ Cardinality(SUBSET (1..n)) = 2 ^ n
           /\ 2 ^ n \in Nat
<1>1. IsFiniteSet(1..n) /\ Cardinality(1..n) = n
  BY FS_Interval
<1> QED
  BY <1>1, FS_SUBSET, FS_CardinalityType

\* A subset of 1..(n + 1) has n + 1 or it has not: 2^(n + 1) = 2 * 2^n.
LEMMA PowStep ==
    ASSUME NEW n \in Nat
    PROVE  2 ^ (n + 1) = 2 * 2 ^ n
<1> DEFINE A == SUBSET (1..n)
           B == {T \cup {n + 1} : T \in A}
           f == [T \in A |-> T \cup {n + 1}]
<1>0. n + 1 \notin 1..n
  OBVIOUS
<1>1. f \in Bijection(A, B)
  <2>1. f \in [A -> B]
    OBVIOUS
  <2>2. \A T, U \in A : f[T] = f[U] => T = U
    <3> SUFFICES ASSUME NEW T \in A, NEW U \in A, T \cup {n + 1} = U \cup {n + 1} PROVE T = U
      OBVIOUS
    <3>1. \A z : z \in T <=> z \in T \cup {n + 1} /\ z # n + 1
      BY <1>0
    <3>2. \A z : z \in U <=> z \in U \cup {n + 1} /\ z # n + 1
      BY <1>0
    <3> QED
      BY <3>1, <3>2
  <2>3. \A u \in B : \E T \in A : f[T] = u
    OBVIOUS
  <2> HIDE DEF f, A, B
  <2> QED
    BY <2>1, <2>2, <2>3 DEF Bijection, Injection, Surjection, IsInjective
<1>2. SUBSET (1..(n + 1)) = A \cup B
  <2>1. ASSUME NEW U \in SUBSET (1..(n + 1)) PROVE U \in A \cup B
    <3>1. CASE n + 1 \in U
      <4>1. U \ {n + 1} \in A /\ U = (U \ {n + 1}) \cup {n + 1}
        BY <3>1
      <4> QED
        BY <4>1
    <3>2. CASE n + 1 \notin U
      BY <3>2
    <3> QED
      BY <3>1, <3>2
  <2>2. ASSUME NEW U \in A \cup B PROVE U \in SUBSET (1..(n + 1))
    OBVIOUS
  <2> QED
    BY <2>1, <2>2
<1>3. A \cap B = {}
  BY <1>0
<1>4. IsFiniteSet(A) /\ Cardinality(A) = 2 ^ n /\ 2 ^ n \in Nat
  BY PowCard
<1>5. IsFiniteSet(B) /\ Cardinality(B) = 2 ^ n
  <2> HIDE DEF f, A, B
  <2>1. ExistsBijection(A, B)
    BY <1>1 DEF ExistsBijection
  <2> QED
    BY <2>1, <1>4, FS_Bijection
<1>6. Cardinality(A \cup B) = 2 ^ n + 2 ^ n
  <2> HIDE DEF A, B
  <2>1. Cardinality(A \cup B) = Cardinality(A) + Cardinality(B) - Cardinality(A \cap B)
    BY <1>4, <1>5, FS_Union
  <2>2. Cardinality(A \cap B) = 0
    BY <1>3, FS_EmptySet
  <2> QED
    BY <2>1, <2>2, <1>4, <1>5
<1>7. Cardinality(SUBSET (1..(n + 1))) = 2 ^ (n + 1)
  BY PowCard
<1>8. 2 ^ (n + 1) = 2 ^ n + 2 ^ n
  BY <1>2, <1>6, <1>7, Zenon
<1>9. \A p \in Nat : p + p = 2 * p
  OBVIOUS
<1> QED
  BY <1>4, <1>8, <1>9

\* Powers of two are positive.
LEMMA PowPos == \A n \in Nat : 2 ^ n \in Nat /\ 2 ^ n >= 1
<1> DEFINE Good == {n \in Nat : 2 ^ n >= 1}
<1>1. 0 \in Good
  OBVIOUS
<1>2. ASSUME NEW n \in Nat, n \in Good PROVE n + 1 \in Good
  BY <1>2, PowCard, PowStep
<1>3. \A n \in Nat : n \in Good
  <2> HIDE DEF Good
  <2> QED
    BY <1>1, <1>2, SetInduction
<1> QED
  BY <1>3, PowCard

\* The power of a sum is the product of the powers.
LEMMA PowAdd ==
    ASSUME NEW m \in Nat, NEW n \in Nat
    PROVE  2 ^ (m + n) = 2 ^ m * 2 ^ n
<1> DEFINE Good == {k \in Nat : 2 ^ (m + k) = 2 ^ m * 2 ^ k}
<1>1. 0 \in Good
  BY PowPos
<1>2. ASSUME NEW k \in Nat, k \in Good PROVE k + 1 \in Good
  <2>1. 2 ^ ((m + k) + 1) = 2 * 2 ^ (m + k) /\ 2 ^ (k + 1) = 2 * 2 ^ k
    BY PowStep
  <2>2. (m + k) + 1 = m + (k + 1)
    OBVIOUS
  <2>3. 2 ^ (m + k) = 2 ^ m * 2 ^ k
    BY <1>2
  <2>4. 2 ^ m \in Nat /\ 2 ^ k \in Nat
    BY PowPos
  <2>5. \A a, b \in Nat : 2 * (a * b) = a * (2 * b)
    OBVIOUS
  <2>6. 2 * (2 ^ m * 2 ^ k) = 2 ^ m * (2 * 2 ^ k)
    BY <2>4, <2>5
  <2> QED
    BY <2>1, <2>2, <2>3, <2>6
<1>3. \A k \in Nat : k \in Good
  <2> HIDE DEF Good
  <2> QED
    BY <1>1, <1>2, SetInduction
<1> QED
  BY <1>3

\* A power divides the greater ones.
LEMMA PowSplit ==
    ASSUME NEW m \in Nat, NEW n \in Nat, m <= n
    PROVE  n - m \in Nat /\ 2 ^ n = 2 ^ m * 2 ^ (n - m) /\ 2 ^ m <= 2 ^ n
<1>1. n - m \in Nat /\ m + (n - m) = n
  OBVIOUS
<1>2. 2 ^ n = 2 ^ m * 2 ^ (n - m)
  BY <1>1, PowAdd
<1>3. \A a, b \in Nat : b >= 1 => a <= a * b
  OBVIOUS
<1> QED
  BY <1>1, <1>2, <1>3, PowPos

\* Quotient and remainder by a positive number.
LEMMA DivMod ==
    ASSUME NEW x \in Int, NEW m \in Nat, m >= 1
    PROVE  /\ x \div m \in Int /\ x % m \in Nat
           /\ x % m < m
           /\ x = m * (x \div m) + (x % m)
<1>1. m > 0
  OBVIOUS
<1>2. x \div m \in Int
  BY <1>1
<1>3. x % m \in Nat /\ x % m < m
  BY <1>1
<1>4. x = m * (x \div m) + (x % m)
  BY <1>1
<1> QED
  BY <1>2, <1>3, <1>4

\* They are the only ones.
LEMMA DivModUnique ==
    ASSUME NEW x \in Int, NEW m \in Nat, m >= 1, NEW q \in Int, NEW r \in Nat, r < m,
           x = m * q + r
    PROVE  x \div m = q /\ x % m = r
OBVIOUS

\* Dividing by a product is dividing by its factors, one after the other.
LEMMA DivDiv ==
    ASSUME NEW x \in Int, NEW a \in Nat, a >= 1, NEW b \in Nat, b >= 1
    PROVE  /\ a * b \in Nat /\ a * b >= 1
           /\ (x \div a) \div b = x \div (a * b)
           /\ (x % (a * b)) % a = x % a
           /\ (x % (a * b)) \div a = (x \div a) % b
<1> DEFINE q == x \div a
           r == x % a
           u == q \div b
           v == q % b
<1>1. q \in Int /\ r \in Nat /\ r < a /\ x = a * q + r
  BY DivMod
<1>2. u \in Int /\ v \in Nat /\ v < b /\ q = b * u + v
  <2> HIDE DEF q
  <2> QED BY <1>1, DivMod
<1> HIDE DEF q, r, u, v
<1>3. a * b \in Nat /\ a * b >= 1
  OBVIOUS
<1>4. x = (a * b) * u + (a * v + r)
  BY <1>1, <1>2
<1>5. a * v + r \in Nat /\ a * v + r < a * b
  <2>1. a * v \in Nat
    BY <1>2
  <2>2. a * v <= a * (b - 1)
    BY <1>2
  <2>3. a * (b - 1) = a * b - a
    OBVIOUS
  <2> QED
    BY <2>1, <2>2, <2>3, <1>1, <1>3
<1>6. x \div (a * b) = u /\ x % (a * b) = a * v + r
  <2> DEFINE m == a * b
             w == a * v + r
  <2>1. m \in Nat /\ m >= 1 /\ w \in Nat /\ w < m /\ x = m * u + w
    BY <1>3, <1>4, <1>5
  <2> HIDE DEF m, w
  <2>2. x \div m = u /\ x % m = w
    BY <2>1, <1>2, DivModUnique
  <2> QED
    BY <2>2 DEF m, w
<1>7. (a * v + r) % a = r /\ (a * v + r) \div a = v
  <2> DEFINE w == a * v + r
  <2>1. w \in Int /\ w = a * v + r
    BY <1>5
  <2> HIDE DEF w
  <2>2. w \div a = v /\ w % a = r
    BY <2>1, <1>1, <1>2, DivModUnique
  <2> QED
    BY <2>2 DEF w
<1> QED
  BY <1>3, <1>6, <1>7 DEF q, r, u, v

\* Adding a multiple of m.
LEMMA ModShift ==
    ASSUME NEW x \in Int, NEW m \in Nat, m >= 1, NEW k \in Int
    PROVE  (x + m * k) % m = x % m /\ (x + m * k) \div m = x \div m + k
<1> DEFINE q == x \div m
           r == x % m
           y == x + m * k
<1>1. q \in Int /\ r \in Nat /\ r < m /\ x = m * q + r
  BY DivMod
<1> HIDE DEF q, r
<1>2. y = m * (q + k) + r
  BY <1>1
<1>3. y \in Int /\ q + k \in Int
  BY <1>1
<1> HIDE DEF y
<1>4. y \div m = q + k /\ y % m = r
  BY <1>1, <1>2, <1>3, DivModUnique
<1> QED
  BY <1>4 DEF y, q, r

\* A number below m is its own remainder.
LEMMA ModSmall ==
    ASSUME NEW m \in Nat, NEW x \in Nat, x < m
    PROVE  x % m = x /\ x \div m = 0
OBVIOUS

\* Numbers are congruent when their remainders agree.
LEMMA ModEqual ==
    ASSUME NEW x \in Int, NEW y \in Int, NEW m \in Nat, m >= 1
    PROVE  (x - y) % m = 0 <=> x % m = y % m
<1>1. ASSUME (x - y) % m = 0 PROVE x % m = y % m
  <2> DEFINE k == (x - y) \div m
  <2>1. k \in Int /\ x = y + m * k
    BY <1>1, DivMod
  <2> HIDE DEF k
  <2> QED
    BY <2>1, ModShift
<1>2. ASSUME x % m = y % m PROVE (x - y) % m = 0
  <2> DEFINE q == x \div m
             p == y \div m
             r == y % m
  <2>1. q \in Int /\ p \in Int /\ r \in Nat /\ x = m * q + r /\ y = m * p + r
    BY <1>2, DivMod
  <2> HIDE DEF q, p, r
  <2>2. x - y = m * (q - p) + 0 /\ x - y \in Int /\ q - p \in Int
    BY <2>1
  <2> QED
    BY <2>2, DivModUnique
<1> QED
  BY <1>1, <1>2

\* Half of a power of two.
LEMMA PowPred ==
    ASSUME NEW n \in Nat, n >= 1
    PROVE  n - 1 \in Nat /\ 2 ^ n = 2 * 2 ^ (n - 1)
<1>1. n - 1 \in Nat /\ (n - 1) + 1 = n
  OBVIOUS
<1> QED
  BY <1>1, PowStep

\* The parity of a remainder by an even number.
LEMMA ModMod ==
    ASSUME NEW y \in Int, NEW b \in Nat, b >= 1
    PROVE  (y % (2 * b)) % 2 = y % 2
<1> DEFINE a == 2
<1>1. a \in Nat /\ a >= 1
  OBVIOUS
<1> HIDE DEF a
<1>2. (y % (a * b)) % a = y % a
  BY <1>1, DivDiv
<1> QED
  BY <1>2 DEF a

\* Multiplying by m and dividing by it.
LEMMA MulDivCancel ==
    ASSUME NEW x \in Int, NEW m \in Nat, m >= 1
    PROVE  (x * m) \div m = x /\ (x * m) % m = 0
<1>1. x * m \in Int /\ x * m = m * x + 0
  OBVIOUS
<1> QED
  BY <1>1, DivModUnique

---------------------------------------------------------------------------
(* Digits, and numbers given by the places of their digits.                *)

\* A digit is 0 or 1.
LEMMA DigitType ==
    ASSUME NEW x \in Int, NEW k \in Nat
    PROVE  Digit(x, k) \in {0, 1} /\ x \div 2 ^ k \in Int
<1>1. 2 ^ k \in Nat /\ 2 ^ k >= 1
  BY PowPos
<1>2. x \div 2 ^ k \in Int
  BY <1>1, DivMod
<1>3. \A y \in Int : y % 2 \in {0, 1}
  OBVIOUS
<1> QED
  BY <1>2, <1>3 DEF Digit

\* The digits of a number that has been cut to n bits.
LEMMA DigitTrunc ==
    ASSUME NEW x \in Int, NEW n \in Nat, NEW k \in Nat
    PROVE  Digit(x % 2 ^ n, k) = IF k < n THEN Digit(x, k) ELSE 0
<1> DEFINE p == 2 ^ k
           m == 2 ^ n
<1>1. p \in Nat /\ p >= 1 /\ m \in Nat /\ m >= 1
  BY PowPos
<1>2. CASE k < n
  <2> DEFINE b == 2 ^ (n - k - 1)
  <2>1. n - k \in Nat /\ n - k >= 1
    BY <1>2
  <2>2. b \in Nat /\ b >= 1 /\ 2 ^ (n - k) = 2 * b
    BY <2>1, PowPos, PowPred
  <2>3. m = p * (2 * b)
    <3>1. m = p * 2 ^ (n - k)
      BY <1>2, PowSplit
    <3> QED
      BY <2>2, <3>1, Zenon
  <2>4. 2 * b \in Nat /\ 2 * b >= 1
    BY <2>2
  <2>5. x \div p \in Int
    BY <1>1, DivMod
  <2> HIDE DEF b, m, p
  <2>6. (x % m) \div p = (x \div p) % (2 * b)
    BY <2>3, <2>4, <1>1, DivDiv
  <2>7. ((x \div p) % (2 * b)) % 2 = (x \div p) % 2
    BY <2>2, <2>5, ModMod, Zenon
  <2>8. Digit(x % m, k) = ((x % m) \div p) % 2 /\ Digit(x, k) = (x \div p) % 2
    BY DEF Digit, p
  <2>9. Digit(x % m, k) = Digit(x, k)
    BY <2>6, <2>7, <2>8, Zenon
  <2> QED
    BY <1>2, <2>9 DEF m
<1>3. CASE ~(k < n)
  <2>1. m <= p
    BY <1>3, PowSplit
  <2>2. x % m \in Nat /\ x % m < m
    BY <1>1, DivMod
  <2> HIDE DEF m, p
  <2>3. x % m < p
    BY <1>1, <2>1, <2>2
  <2>4. (x % m) \div p = 0
    BY <1>1, <2>2, <2>3, ModSmall
  <2>5. Digit(x % m, k) = ((x % m) \div p) % 2
    BY DEF Digit, p
  <2>6. Digit(x % m, k) = 0
    BY <2>4, <2>5
  <2> QED
    BY <1>3, <2>6 DEF m
<1> QED
  BY <1>2, <1>3

\* The digits after a shift to the right.
LEMMA DigitShr ==
    ASSUME NEW x \in Int, NEW s \in Nat, NEW k \in Nat
    PROVE  Digit(x \div 2 ^ s, k) = Digit(x, k + s)
<1>1. /\ 2 ^ s \in Nat /\ 2 ^ s >= 1
      /\ 2 ^ k \in Nat /\ 2 ^ k >= 1
  BY PowPos
<1>2. 2 ^ (k + s) = 2 ^ s * 2 ^ k
  <2>1. k + s = s + k
    OBVIOUS
  <2> QED
    BY <2>1, PowAdd
<1>3. (x \div 2 ^ s) \div 2 ^ k = x \div (2 ^ s * 2 ^ k)
  BY <1>1, DivDiv
<1> QED
  BY <1>2, <1>3 DEF Digit

\* The digits after a shift to the left.
LEMMA DigitShl ==
    ASSUME NEW x \in Int, NEW s \in Nat, NEW k \in Nat
    PROVE  Digit(x * 2 ^ s, k) = IF k >= s THEN Digit(x, k - s) ELSE 0
<1> DEFINE p == 2 ^ k
           m == 2 ^ s
<1>1. p \in Nat /\ p >= 1 /\ m \in Nat /\ m >= 1
  BY PowPos
<1>2. CASE k >= s
  <2> DEFINE b == 2 ^ (k - s)
  <2>1. k - s \in Nat /\ p = m * b /\ b \in Nat /\ b >= 1
    BY <1>2, PowSplit, PowPos
  <2>2. x * m \in Int
    BY <1>1
  <2> HIDE DEF b, m, p
  <2>3. ((x * m) \div m) \div b = (x * m) \div p
    BY <1>1, <2>1, <2>2, DivDiv
  <2>4. (x * m) \div m = x
    BY <1>1, MulDivCancel
  <2>5. Digit(x * m, k) = ((x * m) \div p) % 2 /\ Digit(x, k - s) = (x \div b) % 2
    BY DEF Digit, p, b
  <2>6. Digit(x * m, k) = Digit(x, k - s)
    BY <2>3, <2>4, <2>5, Zenon
  <2> QED
    BY <1>2, <2>6 DEF m
<1>3. CASE ~(k >= s)
  <2> DEFINE b == 2 ^ (s - k - 1)
  <2>1. s - k \in Nat /\ s - k >= 1
    BY <1>3
  <2>2. b \in Nat /\ b >= 1 /\ 2 ^ (s - k) = 2 * b
    BY <2>1, PowPos, PowPred
  <2>3. m = p * (2 * b)
    <3>1. m = p * 2 ^ (s - k)
      BY <1>3, PowSplit
    <3> QED
      BY <2>2, <3>1, Zenon
  <2> HIDE DEF b, m, p
  <2>4. x * m = (x * b * 2) * p /\ x * b * 2 \in Int /\ x * b \in Int
    BY <1>1, <2>2, <2>3
  <2>5. (x * m) \div p = x * b * 2
    BY <1>1, <2>4, MulDivCancel
  <2>6. (x * b * 2) % 2 = 0
    BY <2>4, MulDivCancel
  <2>7. Digit(x * m, k) = ((x * m) \div p) % 2
    BY DEF Digit, p
  <2>8. Digit(x * m, k) = 0
    BY <2>5, <2>6, <2>7
  <2> QED
    BY <1>3, <2>8 DEF m
<1> QED
  BY <1>2, <1>3

\* A set of places below n is finite.
LEMMA FiniteBits ==
    ASSUME NEW n \in Nat, NEW S \in SUBSET (0..(n - 1))
    PROVE  IsFiniteSet(S) /\ S \in SUBSET Nat
<1>1. IsFiniteSet(0..(n - 1))
  BY FS_Interval
<1>2. IsFiniteSet(S)
  BY <1>1, FS_Subset
<1>3. S \subseteq Nat
  OBVIOUS
<1> QED
  BY <1>2, <1>3

\* The number a set of places stands for is an integer.
LEMMA NumberType ==
    ASSUME NEW n \in Nat, NEW S \in SUBSET (0..(n - 1))
    PROVE  Number(S) \in Int
<1>1. Weight \in [Nat -> Int]
  BY PowPos DEF Weight
<1> QED
  BY <1>1, FiniteBits, SumType DEF Number

\* No places: 0.
LEMMA NumberEmpty == Number({}) = 0
BY SumEmpty DEF Number

\* One place of a number contributes its power of two.
LEMMA NumberRemove ==
    ASSUME NEW n \in Nat, NEW S \in SUBSET (0..(n - 1)), NEW k \in S
    PROVE  Number(S) = 2 ^ k + Number(S \ {k})
<1>1. Weight \in [Nat -> Int]
  BY PowPos DEF Weight
<1>2. IsFiniteSet(S) /\ S \in SUBSET Nat
  BY FiniteBits
<1>3. SumFunctionOnSet(Weight, S) = Weight[k] + SumFunctionOnSet(Weight, S \ {k})
  <2>1. SumSplits(Nat, Weight)
    BY <1>1, SumSplit, Zenon
  <2> QED
    BY <1>2, <2>1, Zenon DEF SumSplits
<1>4. Weight[k] = 2 ^ k
  BY <1>2 DEF Weight
<1> QED
  BY <1>3, <1>4 DEF Number

\* What the number of a set of positions below n is.
NumberFacts(S, n) ==
    /\ Number(S) \in Nat /\ Number(S) < 2 ^ n
    /\ \A k \in Nat : Digit(Number(S), k) = IF k \in S THEN 1 ELSE 0

\* 0 has no digits.
LEMMA DigitZero == \A k \in Nat : Digit(0, k) = 0
<1> SUFFICES ASSUME NEW k \in Nat PROVE Digit(0, k) = 0
  OBVIOUS
<1> DEFINE p == 2 ^ k
<1>1. p \in Nat /\ p >= 1
  BY PowPos
<1>2. Digit(0, k) = (0 \div p) % 2
  BY DEF Digit
<1> HIDE DEF p
<1>3. 0 \div p = 0
  BY <1>1, ModSmall
<1> QED
  BY <1>2, <1>3

\* A number below 2^n has no digits from n on.
LEMMA DigitSmall ==
    ASSUME NEW n \in Nat, NEW x \in Nat, x < 2 ^ n, NEW k \in Nat, k >= n
    PROVE  Digit(x, k) = 0
<1> DEFINE p == 2 ^ k
<1>1. 2 ^ n <= p /\ p \in Nat /\ 2 ^ n \in Nat
  BY PowSplit, PowPos
<1>4. Digit(x, k) = (x \div p) % 2
  BY DEF Digit
<1> HIDE DEF p
<1>2. x < p
  BY <1>1
<1>3. x \div p = 0
  BY <1>1, <1>2, ModSmall
<1> QED
  BY <1>3, <1>4

\* One place more: the step of the induction.
LEMMA NumberStep ==
    ASSUME NEW n \in Nat, NEW S \in SUBSET (0..n), NumberFacts(S \ {n}, n)
    PROVE  NumberFacts(S, n + 1)
<1> DEFINE N0 == Number(S \ {n})
           p == 2 ^ n
<1>0. p \in Nat /\ p >= 1 /\ 2 ^ (n + 1) = 2 * p
  BY PowPos, PowStep
<1>1. N0 \in Nat /\ N0 < p /\ \A k \in Nat : Digit(N0, k) = IF k \in S \ {n} THEN 1 ELSE 0
  BY DEF NumberFacts
<1>2. CASE n \notin S
  <2>1. S \ {n} = S
    BY <1>2
  <2>2. Number(S) \in Nat /\ Number(S) < p
    BY <1>1, <2>1
  <2> HIDE DEF p
  <2>3. Number(S) < 2 ^ (n + 1)
    <3> DEFINE q == 2 ^ (n + 1)
    <3>1. q = 2 * p
      BY <1>0
    <3> HIDE DEF q
    <3>2. Number(S) < q
      BY <2>2, <3>1, <1>0
    <3> QED
      BY <3>2 DEF q
  <2> QED
    BY <1>1, <2>1, <2>2, <2>3 DEF NumberFacts
<1>3. CASE n \in S
  <2> DEFINE N1 == Number(S)
             q == 2 ^ (n + 1)
  <2>1. N1 = p + N0
    <3> DEFINE m == n + 1
    <3>1. m \in Nat /\ S \in SUBSET (0..(m - 1))
      OBVIOUS
    <3> HIDE DEF m
    <3> QED
      BY <1>3, <3>1, NumberRemove
  <2>2. q = 2 * p
    BY <1>0
  <2>3. N1 \in Nat /\ N1 < q
    <3> HIDE DEF p, q, N0, N1
    <3> QED
      BY <1>0, <1>1, <2>1, <2>2
  <2>4. N1 % p = N0 /\ N1 \div p = 1
    <3>1. N1 \in Int /\ N1 = p * 1 + N0
      <4> HIDE DEF p, q, N0, N1
      <4> QED
        BY <1>0, <1>1, <2>1
    <3> HIDE DEF p, q, N0, N1
    <3> QED
      BY <1>0, <1>1, <3>1, DivModUnique
  <2>5. ASSUME NEW k \in Nat PROVE Digit(N1, k) = IF k \in S THEN 1 ELSE 0
    <3>1. CASE k < n
      <4>1. Digit(N1 % p, k) = Digit(N1, k)
        <5> HIDE DEF N1
        <5> QED
          BY <3>1, <2>3, DigitTrunc
      <4>2. Digit(N1, k) = Digit(N0, k)
        BY <4>1, <2>4
      <4> HIDE DEF N0, N1
      <4>3. k # n
        BY <3>1
      <4> QED
        BY <4>2, <4>3, <1>1
    <3>2. CASE k = n
      <4>1. Digit(N1, n) = (N1 \div p) % 2
        BY DEF Digit
      <4>2. Digit(N1, n) = 1
        BY <4>1, <2>4
      <4> QED
        BY <4>2, <3>2, <1>3
    <3>3. CASE k > n
      <4>1. k >= n + 1 /\ n + 1 \in Nat
        BY <3>3
      <4>2. Digit(N1, k) = 0
        <5> HIDE DEF N1
        <5> QED
          BY <4>1, <2>3, DigitSmall
      <4>3. k \notin S
        BY <3>3
      <4> QED
        BY <4>2, <4>3
    <3> QED
      BY <3>1, <3>2, <3>3
  <2> QED
    BY <2>3, <2>5 DEF NumberFacts
<1> QED
  BY <1>2, <1>3

\* A number of n places is below 2^n and its digits are its places.
LEMMA NumberOf ==
    ASSUME NEW n \in Nat, NEW S \in SUBSET (0..(n - 1))
    PROVE  NumberFacts(S, n)
<1> DEFINE Good == {m \in Nat : \A T \in SUBSET (0..(m - 1)) : NumberFacts(T, m)}
<1>1. 0 \in Good
  <2>1. ASSUME NEW T \in SUBSET (0..(0 - 1)) PROVE NumberFacts(T, 0)
    <3>1. T = {}
      OBVIOUS
    <3>2. 2 ^ 0 = 1
      OBVIOUS
    <3> QED
      BY <3>1, <3>2, NumberEmpty, DigitZero DEF NumberFacts
  <2> QED
    BY <2>1
<1>2. ASSUME NEW m \in Nat, m \in Good PROVE m + 1 \in Good
  <2>1. ASSUME NEW T \in SUBSET (0..((m + 1) - 1)) PROVE NumberFacts(T, m + 1)
    <3>1. T \in SUBSET (0..m) /\ T \ {m} \in SUBSET (0..(m - 1))
      OBVIOUS
    <3> QED
      BY <1>2, <3>1, NumberStep
  <2> QED
    BY <2>1
<1>3. \A m \in Nat : m \in Good
  <2> HIDE DEF Good
  <2> QED
    BY <1>1, <1>2, SetInduction
<1> QED
  BY <1>3

\* A set of places is the set of bits of its number.
LEMMA BitsNumber ==
    ASSUME NEW n \in Nat, NEW S \in SUBSET (0..(n - 1))
    PROVE  Number(S) \in 0..(2 ^ n - 1) /\ Bits(Number(S), n) = S
<1>1. NumberFacts(S, n)
  BY NumberOf
<1>2. 2 ^ n \in Nat
  BY PowPos
<1>3. Number(S) \in 0..(2 ^ n - 1)
  BY <1>1, <1>2 DEF NumberFacts
<1>4. ASSUME NEW k \in 0..(n - 1) PROVE Digit(Number(S), k) = 1 <=> k \in S
  BY <1>1 DEF NumberFacts
<1>5. Bits(Number(S), n) = S
  BY <1>4 DEF Bits
<1> QED
  BY <1>3, <1>5

\* One digit more than p.
LEMMA DivModTwo ==
    ASSUME NEW x \in Int, NEW p \in Nat, p >= 1
    PROVE  (x % (p * 2)) % p = x % p /\ (x % (p * 2)) \div p = (x \div p) % 2
<1> DEFINE b == 2
<1>1. b \in Nat /\ b >= 1
  OBVIOUS
<1> HIDE DEF b
<1>2. (x % (p * b)) % p = x % p /\ (x % (p * b)) \div p = (x \div p) % b
  BY <1>1, DivDiv
<1> QED
  BY <1>2 DEF b

\* Cutting to n + 1 bits keeps one digit more than cutting to n.
LEMMA ModStep ==
    ASSUME NEW x \in Int, NEW n \in Nat
    PROVE  x % 2 ^ (n + 1) = (x % 2 ^ n) + (IF Digit(x, n) = 1 THEN 2 ^ n ELSE 0)
<1> DEFINE p == 2 ^ n
           y == x % (p * 2)
<1>0. p \in Nat /\ p >= 1 /\ 2 ^ (n + 1) = p * 2
  <2>1. p \in Nat /\ p >= 1 /\ 2 ^ (n + 1) = 2 * p
    BY PowPos, PowStep
  <2>2. \A z \in Nat : 2 * z = z * 2
    OBVIOUS
  <2> QED
    BY <2>1, <2>2
<1>1. Digit(x, n) = (x \div p) % 2
  BY DEF Digit
<1>2. Digit(x, n) \in {0, 1}
  BY DigitType
<1> HIDE DEF p
<1>3. y % p = x % p /\ y \div p = (x \div p) % 2
  BY <1>0, DivModTwo
<1>4. y \in Int
  BY <1>0, DivMod
<1>5. y = p * (y \div p) + (y % p) /\ y % p \in Nat
  <2> HIDE DEF y
  <2> QED
    BY <1>0, <1>4, DivMod
<1> HIDE DEF y
<1>6. y = (x % p) + p * Digit(x, n) /\ x % p \in Nat
  BY <1>1, <1>3, <1>5, <1>0, <1>2
<1>7. y = (x % p) + (IF Digit(x, n) = 1 THEN p ELSE 0)
  BY <1>6, <1>2, <1>0
<1> QED
  BY <1>7, <1>0 DEF p, y

\* A number cut to n bits is the number of its low bits.
LEMMA NumberBits ==
    ASSUME NEW x \in Int, NEW n \in Nat
    PROVE  Number(Bits(x, n)) = x % 2 ^ n
<1> DEFINE Good == {m \in Nat : Number(Bits(x, m)) = x % 2 ^ m}
<1>1. 0 \in Good
  <2>1. Bits(x, 0) = {}
    BY DEF Bits
  <2>2. 2 ^ 0 = 1 /\ x % 1 = 0
    OBVIOUS
  <2> QED
    BY <2>1, <2>2, NumberEmpty
<1>2. ASSUME NEW m \in Nat, m \in Good PROVE m + 1 \in Good
  <2> DEFINE A == Bits(x, m)
             B == Bits(x, m + 1)
  <2>1. Digit(x, m) \in {0, 1}
    BY DigitType
  <2>2. B \in SUBSET (0..m) /\ m \notin A /\ B \ {m} = A /\ (m \in B <=> Digit(x, m) = 1)
    BY DEF Bits
  <2>3. Number(B) = Number(A) + (IF Digit(x, m) = 1 THEN 2 ^ m ELSE 0)
    <3>1. CASE Digit(x, m) = 1
      <4> DEFINE k == m + 1
      <4>1. k \in Nat /\ B \in SUBSET (0..(k - 1)) /\ m \in B /\ A \in SUBSET (0..(k - 1))
        BY <3>1, <2>2
      <4> HIDE DEF k, A, B
      <4>2. Number(B) = 2 ^ m + Number(A)
        BY <4>1, <2>2, NumberRemove
      <4>3. Number(A) \in Int /\ 2 ^ m \in Nat
        BY <4>1, NumberType, PowPos
      <4> QED
        BY <3>1, <4>2, <4>3
    <3>2. CASE Digit(x, m) # 1
      <4>1. A = B
        BY <3>2, <2>2
      <4>2. Number(A) \in Int
        <5>1. A \in SUBSET (0..(m - 1))
          BY DEF Bits
        <5> HIDE DEF A
        <5> QED
          BY <5>1, NumberType
      <4> HIDE DEF A, B
      <4> QED
        BY <3>2, <4>1, <4>2
    <3> QED
      BY <3>1, <3>2
  <2>4. Number(A) = x % 2 ^ m
    BY <1>2
  <2>5. x % 2 ^ (m + 1) = (x % 2 ^ m) + (IF Digit(x, m) = 1 THEN 2 ^ m ELSE 0)
    BY ModStep
  <2>6. Number(B) = x % 2 ^ (m + 1)
    <3> HIDE DEF A, B
    <3> QED
      BY <2>3, <2>4, <2>5, Zenon
  <2> QED
    BY <2>6
<1>3. \A m \in Nat : m \in Good
  <2> HIDE DEF Good
  <2> QED
    BY <1>1, <1>2, SetInduction
<1> QED
  BY <1>3

\* The number of two disjoint sets of places is the sum of their numbers.
LEMMA NumberUnion ==
    ASSUME NEW n \in Nat, NEW A \in SUBSET (0..(n - 1)), NEW B \in SUBSET (0..(n - 1)),
           A \cap B = {}
    PROVE  Number(A \cup B) = Number(A) + Number(B)
<1> DEFINE Good == {m \in Nat : \A S, T \in SUBSET (0..(m - 1)) :
                        S \cap T = {} => Number(S \cup T) = Number(S) + Number(T)}
<1>1. 0 \in Good
  <2>1. ASSUME NEW S \in SUBSET (0..(0 - 1)), NEW T \in SUBSET (0..(0 - 1))
        PROVE  Number(S \cup T) = Number(S) + Number(T)
    <3>1. S = {} /\ T = {} /\ S \cup T = {}
      OBVIOUS
    <3> QED
      BY <3>1, NumberEmpty
  <2> QED
    BY <2>1
<1>2. ASSUME NEW m \in Nat, m \in Good PROVE m + 1 \in Good
  <2>1. ASSUME NEW k \in Nat, k = m + 1, NEW S \in SUBSET (0..(k - 1)), NEW T \in SUBSET (0..(k - 1)),
               S \cap T = {}
        PROVE  Number(S \cup T) = Number(S) + Number(T)
    <3> DEFINE S0 == S \ {m}
               T0 == T \ {m}
    <3>0. S0 \in SUBSET (0..(m - 1)) /\ T0 \in SUBSET (0..(m - 1)) /\ S0 \cap T0 = {}
      BY <2>1
    <3>1. Number(S0 \cup T0) = Number(S0) + Number(T0)
      BY <1>2, <3>0
    <3>2. Number(S0) \in Int /\ Number(T0) \in Int /\ 2 ^ m \in Int
      <4>1. 2 ^ m \in Int
        BY PowPos
      <4> HIDE DEF S0, T0
      <4> QED
        BY <3>0, <4>1, NumberType
    <3>3. CASE m \in S
      <4>1. T0 = T /\ (S \cup T) \ {m} = S0 \cup T0 /\ m \in S \cup T
            /\ S \cup T \in SUBSET (0..(k - 1))
        BY <3>3, <2>1
      <4>2. Number(S) = 2 ^ m + Number(S0)
        BY <3>3, <2>1, NumberRemove
      <4>3. Number(S \cup T) = 2 ^ m + Number(S0 \cup T0)
        <5> DEFINE U == S \cup T
        <5>1. U \in SUBSET (0..(k - 1)) /\ m \in U /\ U \ {m} = S0 \cup T0
          BY <4>1
        <5> HIDE DEF U
        <5>2. Number(U) = 2 ^ m + Number(U \ {m})
          BY <5>1, <2>1, NumberRemove
        <5> QED
          BY <5>1, <5>2 DEF U
      <4> HIDE DEF S0, T0
      <4> QED
        BY <3>1, <3>2, <4>1, <4>2, <4>3
    <3>4. CASE m \in T
      <4>1. S0 = S /\ (S \cup T) \ {m} = S0 \cup T0 /\ m \in S \cup T
            /\ S \cup T \in SUBSET (0..(k - 1))
        BY <3>4, <2>1
      <4>2. Number(T) = 2 ^ m + Number(T0)
        BY <3>4, <2>1, NumberRemove
      <4>3. Number(S \cup T) = 2 ^ m + Number(S0 \cup T0)
        <5> DEFINE U == S \cup T
        <5>1. U \in SUBSET (0..(k - 1)) /\ m \in U /\ U \ {m} = S0 \cup T0
          BY <4>1
        <5> HIDE DEF U
        <5>2. Number(U) = 2 ^ m + Number(U \ {m})
          BY <5>1, <2>1, NumberRemove
        <5> QED
          BY <5>1, <5>2 DEF U
      <4> HIDE DEF S0, T0
      <4> QED
        BY <3>1, <3>2, <4>1, <4>2, <4>3
    <3>5. CASE m \notin S /\ m \notin T
      <4>1. S0 = S /\ T0 = T
        BY <3>5
      <4> QED
        BY <3>1, <4>1
    <3> QED
      BY <3>3, <3>4, <3>5
  <2> QED
    BY <2>1
<1>3. \A m \in Nat : m \in Good
  <2> HIDE DEF Good
  <2> QED
    BY <1>1, <1>2, SetInduction
<1> QED
  BY <1>3

\* Shifting a number shifts its places.
LEMMA NumberShift ==
    ASSUME NEW n \in Nat, NEW S \in SUBSET (0..(n - 1)), NEW s \in Nat
    PROVE  Number(S) * 2 ^ s = Number({k + s : k \in S})
<1> DEFINE x == Number(S)
           T == {k + s : k \in S}
           p == 2 ^ s
           m == 2 ^ n
           e == n + s
<1>1. x \in Nat /\ x < m /\ \A k \in Nat : Digit(x, k) = IF k \in S THEN 1 ELSE 0
  BY NumberOf DEF NumberFacts
<1>2. p \in Nat /\ p >= 1 /\ m \in Nat /\ m >= 1 /\ 2 ^ e = m * p /\ e \in Nat
  BY PowPos, PowAdd
<1>3. T \in SUBSET (0..(e - 1))
  OBVIOUS
<1>4. x * p \in Nat /\ x * p < 2 ^ e
  <2> DEFINE q == 2 ^ e
  <2> HIDE DEF x, p, m, T, e
  <2>1. q = m * p
    BY <1>2
  <2> HIDE DEF q
  <2>2. x * p \in Nat /\ x * p <= (m - 1) * p
    BY <1>1, <1>2
  <2>3. (m - 1) * p = m * p - p
    BY <1>2
  <2>4. x * p \in Nat /\ x * p < q
    BY <2>1, <2>2, <2>3, <1>2
  <2> QED
    BY <2>4 DEF q
<1>5. Bits(x * p, e) = T
  <2>1. ASSUME NEW k \in 0..(e - 1) PROVE Digit(x * p, k) = 1 <=> k \in T
    <3>1. Digit(x * p, k) = IF k >= s THEN Digit(x, k - s) ELSE 0
      <4> HIDE DEF x
      <4> QED
        BY <1>1, DigitShl
    <3>2. k >= s => k - s \in Nat
      OBVIOUS
    <3>3. k \in T <=> k >= s /\ k - s \in S
      OBVIOUS
    <3> HIDE DEF x, p, T
    <3> QED
      BY <3>1, <3>2, <3>3, <1>1
  <2> HIDE DEF T, x, p, e
  <2>2. \A k \in 0..(e - 1) : Digit(x * p, k) = 1 <=> k \in T
    BY <2>1
  <2> QED
    BY <2>2, <1>3 DEF Bits
<1>6. Number(Bits(x * p, e)) = (x * p) % 2 ^ e
  <2> HIDE DEF x, p, e
  <2> QED
    BY <1>2, <1>4, NumberBits
<1>7. (x * p) % 2 ^ e = x * p
  <2> DEFINE y == x * p
             q == 2 ^ e
  <2>1. y \in Nat /\ q \in Nat /\ y < q
    BY <1>4, <1>2, PowPos
  <2> HIDE DEF y, q
  <2>2. y % q = y
    BY <2>1, ModSmall
  <2> QED
    BY <2>2 DEF y, q
<1> QED
  BY <1>5, <1>6, <1>7

---------------------------------------------------------------------------
(* C integers of n bits.                                                   *)

\* Trunc gives a number of n bits.
LEMMA TruncType ==
    ASSUME NEW x \in Int, NEW n \in Nat
    PROVE  /\ Trunc(x, n) \in Nat /\ Trunc(x, n) < 2 ^ n
           /\ 2 ^ n \in Nat /\ 2 ^ n >= 1
           /\ Trunc(x, n) \in 0..(2 ^ n - 1)
<1>1. 2 ^ n \in Nat /\ 2 ^ n >= 1
  BY PowPos
<1>2. Trunc(x, n) \in Nat /\ Trunc(x, n) < 2 ^ n
  BY <1>1, DivMod DEF Trunc
<1> QED
  BY <1>1, <1>2

\* Signed in terms of its halves: the low bits and the top bit.
LEMMA SignedParts ==
    ASSUME NEW x \in Int, NEW n \in Nat, n >= 1
    PROVE  /\ Signed(x, n) = (x % 2 ^ (n - 1)) - (IF Digit(x, n - 1) = 1 THEN 2 ^ (n - 1) ELSE 0)
           /\ x % 2 ^ n = (x % 2 ^ (n - 1)) + (IF Digit(x, n - 1) = 1 THEN 2 ^ (n - 1) ELSE 0)
<1> DEFINE h == 2 ^ (n - 1)
           m == 2 ^ n
           d == Digit(x, n - 1)
           lo == x % h
           y == x % m
<1>1. h \in Nat /\ h >= 1 /\ m = 2 * h /\ n - 1 \in Nat
  BY PowPos, PowPred
<1>2. y = lo + (IF d = 1 THEN h ELSE 0)
  <2> DEFINE k == n - 1
  <2>1. k \in Nat /\ k + 1 = n
    OBVIOUS
  <2> HIDE DEF k
  <2>2. x % 2 ^ (k + 1) = (x % 2 ^ k) + (IF Digit(x, k) = 1 THEN 2 ^ k ELSE 0)
    BY <2>1, ModStep
  <2> QED
    BY <2>1, <2>2 DEF k
<1>3. d \in {0, 1}
  BY <1>1, DigitType
<1>4. lo \in Nat /\ lo < h
  BY <1>1, DivMod
<1>5. Signed(x, n) = IF y >= h THEN y - m ELSE y
  BY DEF Signed, sign_extend, Trunc
<1> HIDE DEF h, m, d, lo, y
<1>6. Signed(x, n) = lo - (IF d = 1 THEN h ELSE 0)
  BY <1>1, <1>2, <1>3, <1>4, <1>5
<1> QED
  BY <1>2, <1>6 DEF h, m, d, lo, y

\* A signed number is the one of its residue class in the range around zero.
SignedRange(s, n) == s \in Int /\ -(2 ^ (n - 1)) <= s /\ s < 2 ^ (n - 1)

\* Signed gives a number of the signed range that is congruent to its argument
\* and negative when the top bit is set.
LEMMA SignedType ==
    ASSUME NEW x \in Int, NEW n \in Nat, n >= 1
    PROVE  /\ SignedRange(Signed(x, n), n)
           /\ Signed(x, n) % 2 ^ n = x % 2 ^ n
           /\ Signed(x, n) < 0 <=> Digit(x, n - 1) = 1
<1> DEFINE h == 2 ^ (n - 1)
           m == 2 ^ n
           d == Digit(x, n - 1)
           lo == x % h
           y == x % m
           s == Signed(x, n)
<1>1. h \in Nat /\ h >= 1 /\ m = 2 * h /\ m \in Nat /\ m >= 1 /\ n - 1 \in Nat
  BY PowPos, PowPred
<1>2. y = lo + (IF d = 1 THEN h ELSE 0) /\ s = lo - (IF d = 1 THEN h ELSE 0)
  BY SignedParts
<1>3. d \in {0, 1}
  BY <1>1, DigitType
<1>4. lo \in Nat /\ lo < h /\ y \in Nat /\ y < m
  BY <1>1, DivMod
<1>5. SignedRange(s, n)
  <2> SUFFICES s \in Int /\ -h <= s /\ s < h
    BY DEF SignedRange
  <2> HIDE DEF h, m, d, lo, y, s
  <2> QED
    BY <1>1, <1>2, <1>3, <1>4
<1>6. s < 0 <=> d = 1
  <2> HIDE DEF h, m, d, lo, y, s
  <2> QED
    BY <1>1, <1>2, <1>3, <1>4
<1>7. s % m = y
  <2>1. s \in Int /\ \E q \in Int : s = m * q + y
    <3> HIDE DEF h, m, d, lo, y, s
    <3>1. CASE d = 1
      <4>1. s = m * (-1) + y /\ -1 \in Int
        BY <1>1, <1>2, <3>1, <1>4
      <4> QED
        BY <4>1, <1>1, <1>2, <1>4, <3>1
    <3>2. CASE d # 1
      <4>1. s = m * 0 + y /\ 0 \in Int
        BY <1>1, <1>2, <3>2, <1>4
      <4> QED
        BY <4>1, <1>1, <1>2, <1>4, <3>2
    <3> QED
      BY <3>1, <3>2
  <2> HIDE DEF h, m, d, lo, y, s
  <2>2. PICK q \in Int : s = m * q + y
    BY <2>1
  <2> QED
    BY <2>1, <2>2, <1>1, <1>4, DivModUnique
<1> QED
  BY <1>5, <1>6, <1>7

\* The code's sign extension and the instruction set's reading of n bits as a
\* signed number are the same.
LEMMA ValueSigned ==
    ASSUME NEW x \in Int, NEW n \in Nat, n >= 1
    PROVE  Value(x, n) = Signed(x, n)
<1>1. n - 1 \in Nat
  OBVIOUS
<1>2. Number(Bits(x, n - 1)) = x % 2 ^ (n - 1)
  BY <1>1, NumberBits
<1>3. n - 1 \in Bits(x, n) <=> Digit(x, n - 1) = 1
  BY DEF Bits
<1> QED
  BY <1>2, <1>3, SignedParts DEF Value

\* Two numbers of the range that agree modulo 2^n are equal.
LEMMA SignedUnique ==
    ASSUME NEW n \in Nat, n >= 1, NEW s, SignedRange(s, n), NEW t, SignedRange(t, n),
           s % 2 ^ n = t % 2 ^ n
    PROVE  s = t
<1> DEFINE h == 2 ^ (n - 1)
           m == 2 ^ n
<1>1. h \in Nat /\ h >= 1 /\ m = 2 * h /\ m \in Nat /\ m >= 1
  BY PowPos, PowPred
<1>2. s \in Int /\ -h <= s /\ s < h /\ t \in Int /\ -h <= t /\ t < h
  BY Zenon DEF SignedRange
<1>3. (s - t) % m = 0
  BY <1>1, <1>2, ModEqual
<1> HIDE DEF h, m
<1> DEFINE u == s - t
           q == u \div m
<1>4. q \in Int /\ s - t = m * q
  <2>1. u \in Int /\ u % m = 0
    BY <1>2, <1>3
  <2> HIDE DEF u
  <2>2. q \in Int /\ u = m * q + (u % m)
    BY <2>1, <1>1, DivMod
  <2>3. u = m * q
    <3> HIDE DEF q
    <3> QED
      BY <2>1, <2>2, <1>1
  <2> QED
    BY <2>2, <2>3 DEF u
<1> HIDE DEF u, q
<1>5. s - t < m /\ s - t > -m
  BY <1>1, <1>2
<1>6. q < 1 /\ q > -1
  <2>1. CASE q >= 1
    <3>1. m * q >= m
      BY <2>1, <1>1, <1>4
    <3> QED
      BY <3>1, <1>2, <1>4, <1>5, <1>1
  <2>2. CASE q <= -1
    <3>1. m * q <= -m
      BY <2>2, <1>1, <1>4
    <3> QED
      BY <3>1, <1>2, <1>4, <1>5, <1>1
  <2> QED
    BY <2>1, <2>2, <1>4
<1> QED
  BY <1>2, <1>4, <1>6, <1>1

\* Signed gives the number of the range that is congruent to its argument.
LEMMA SignedIs ==
    ASSUME NEW n \in Nat, n >= 1, NEW s, SignedRange(s, n), NEW x \in Int, x % 2 ^ n = s % 2 ^ n
    PROVE  Signed(x, n) = s
BY SignedType, SignedUnique

\* Sign extension repeats the top bit.
LEMMA DigitSigned ==
    ASSUME NEW x \in Int, NEW n \in Nat, n >= 1, NEW k \in Nat
    PROVE  Digit(Signed(x, n), k) = IF k < n THEN Digit(x, k) ELSE Digit(x, n - 1)
<1> DEFINE s == Signed(x, n)
<1>1. /\ s \in Int /\ -(2 ^ (n - 1)) <= s /\ s < 2 ^ (n - 1)
      /\ s % 2 ^ n = x % 2 ^ n
      /\ s < 0 <=> Digit(x, n - 1) = 1
  BY SignedType DEF SignedRange
<1>2. Digit(x, n - 1) \in {0, 1} /\ n - 1 \in Nat
  BY DigitType
<1> HIDE DEF s
<1>3. CASE k < n
  <2>1. Digit(s % 2 ^ n, k) = Digit(s, k) /\ Digit(x % 2 ^ n, k) = Digit(x, k)
    BY <1>1, <1>3, DigitTrunc
  <2>2. Digit(s, k) = Digit(x, k)
    BY <2>1, <1>1
  <2> QED
    BY <1>3, <2>2 DEF s
<1>4. CASE ~(k < n)
  <2> DEFINE p == 2 ^ k
             h == 2 ^ (n - 1)
  <2>1. n - 1 <= k /\ h <= p /\ p \in Nat /\ p >= 1 /\ h \in Nat
    BY <1>4, <1>2, PowSplit, PowPos
  <2>2. Digit(s, k) = (s \div p) % 2
    BY DEF Digit
  <2>3. -h <= s /\ s < h
    BY <1>1
  <2> HIDE DEF p, h
  <2>4. CASE s < 0
    <3>1. s = p * (-1) + (s + p) /\ s + p \in Nat /\ s + p < p
      BY <2>1, <2>3, <2>4, <1>1
    <3>2. s \div p = -1
      BY <3>1, <2>1, <1>1, DivModUnique
    <3>3. (-1) % 2 = 1
      <4> DEFINE y == -1
                 b == 2
      <4>1. y \in Int /\ b \in Nat /\ b >= 1 /\ 1 < b /\ y = b * (-1) + 1 /\ -1 \in Int /\ 1 \in Nat
        OBVIOUS
      <4> HIDE DEF y, b
      <4>2. y % b = 1
        BY <4>1, DivModUnique
      <4> QED
        BY <4>2 DEF y, b
    <3>4. Digit(s, k) = 1
      BY <2>2, <3>2, <3>3
    <3> QED
      BY <3>4, <2>4, <1>1, <1>4 DEF s
  <2>5. CASE ~(s < 0)
    <3>1. s \in Nat /\ s < p
      BY <2>1, <2>3, <2>5, <1>1
    <3>2. s \div p = 0
      BY <3>1, <2>1, ModSmall
    <3>3. Digit(s, k) = 0
      BY <2>2, <3>2
    <3>4. Digit(x, n - 1) = 0
      BY <2>5, <1>1, <1>2
    <3> QED
      BY <3>3, <3>4, <1>4 DEF s
  <2> QED
    BY <2>4, <2>5
<1> QED
  BY <1>3, <1>4

---------------------------------------------------------------------------
(* Fields and immediates (decoding.c).                                     *)

\* The widths of a register and of a word.
LEMMA Widths ==
    /\ ByteBits \in Nat /\ ByteBits >= 1
    /\ XLEN \in Nat /\ XLEN >= 8 /\ XLEN = 8 * ByteBits
    /\ W \in Nat /\ W >= 4 /\ W = 4 * ByteBits /\ W <= XLEN
    /\ 2 ^ XLEN \in Nat /\ 2 ^ XLEN >= 2
<1>1. ByteBits \in Nat /\ ByteBits >= 1
  BY DatapathAssumption
<1>2. XLEN \in Nat /\ XLEN >= 8 /\ XLEN = 8 * ByteBits
  BY <1>1 DEF XLEN
<1>3. W \in Nat /\ W >= 4 /\ W = 4 * ByteBits /\ W <= XLEN
  BY <1>1 DEF W, XLEN
<1>4. 2 ^ XLEN \in Nat /\ 2 ^ XLEN >= 2
  <2> DEFINE m == 2 ^ XLEN
             h == 2 ^ (XLEN - 1)
  <2>1. m = 2 * h /\ h \in Nat /\ h >= 1
    <3>1. XLEN >= 1
      BY <1>2
    <3> QED
      BY <1>2, <3>1, PowPred, PowPos
  <2> HIDE DEF m, h
  <2>2. m \in Nat /\ m >= 2
    BY <2>1
  <2> QED
    BY <2>2 DEF m
<1> QED
  BY <1>1, <1>2, <1>3, <1>4

\* The numbers that a register holds; the results that are no value are not
\* among them.
LEMMA WordFacts ==
    /\ \A x \in Word : x \in Nat /\ x < 2 ^ XLEN
    /\ \A x \in Nat : x < 2 ^ XLEN => x \in Word
    /\ 0 \in Word /\ 1 \in Word /\ 2 ^ XLEN - 1 \in Word
    /\ \A x \in Word : x # NoWrite /\ x # Illegal
<1> DEFINE m == 2 ^ XLEN
<1>1. m \in Nat /\ m >= 2 /\ Word = 0..(m - 1)
  BY Widths DEF Word
<1> HIDE DEF m
<1>2. /\ \A x \in Word : x \in Nat /\ x < m
      /\ \A x \in Nat : x < m => x \in Word
      /\ 0 \in Word /\ 1 \in Word /\ m - 1 \in Word
      /\ \A x \in Word : x # NoWrite /\ x # Illegal
  BY <1>1 DEF NoWrite, Illegal
<1> QED
  BY <1>2 DEF m

\* A field of an instruction has the width it is decoded with.
LEMMA FieldType ==
    ASSUME NEW i, NEW low \in Nat, NEW bits \in Nat
    PROVE  Field(i, low, bits) \in Nat /\ Field(i, low, bits) < 2 ^ bits
<1> DEFINE S == {k - low : k \in i \cap (low..(low + bits - 1))}
<1>1. S \in SUBSET (0..(bits - 1))
  OBVIOUS
<1> HIDE DEF S
<1>2. NumberFacts(S, bits)
  BY <1>1, NumberOf
<1> QED
  BY <1>2 DEF NumberFacts, Field, S

\* The fields that decoding.c takes out of an instruction.
LEMMA FieldTypes ==
    ASSUME NEW i
    PROVE  /\ opcode(i) \in 0..127
           /\ rd(i) \in 0..31 /\ rs1(i) \in 0..31 /\ rs2(i) \in 0..31
           /\ funct3(i) \in 0..7
           /\ funct5(i) \in 0..31
           /\ funct7(i) \in 0..127
<1>1. 2 ^ 7 = 128 /\ 2 ^ 5 = 32 /\ 2 ^ 3 = 8
  OBVIOUS
<1>2. \A low, bits \in Nat : Field(i, low, bits) \in 0..(2 ^ bits - 1)
  <2> SUFFICES ASSUME NEW low \in Nat, NEW bits \in Nat PROVE Field(i, low, bits) \in 0..(2 ^ bits - 1)
    OBVIOUS
  <2> DEFINE m == 2 ^ bits
  <2>1. Field(i, low, bits) \in Nat /\ Field(i, low, bits) < m /\ m \in Nat
    BY FieldType, PowPos
  <2> HIDE DEF m
  <2>2. Field(i, low, bits) \in 0..(m - 1)
    BY <2>1
  <2> QED
    BY <2>2 DEF m
<1>3. ASSUME NEW low \in Nat PROVE /\ Field(i, low, 7) \in 0..127
                                   /\ Field(i, low, 5) \in 0..31
                                   /\ Field(i, low, 3) \in 0..7
  <2>1. Field(i, low, 7) \in 0..(2 ^ 7 - 1)
    BY <1>2, Zenon
  <2>2. Field(i, low, 5) \in 0..(2 ^ 5 - 1)
    BY <1>2, Zenon
  <2>3. Field(i, low, 3) \in 0..(2 ^ 3 - 1)
    BY <1>2, Zenon
  <2> QED
    BY <1>1, <2>1, <2>2, <2>3
<1> QED
  BY <1>3 DEF opcode, rd, rs1, rs2, funct3, funct5, funct7

\* sign_extend gives an integer.
LEMMA SignExtendType ==
    ASSUME NEW x \in Nat, NEW n \in Nat, n >= 1
    PROVE  sign_extend(x, n) \in Int
<1>1. 2 ^ n \in Nat
  BY PowPos
<1> QED
  BY <1>1 DEF sign_extend

\* The immediates are integers.
LEMMA ImmediateTypes ==
    ASSUME NEW i
    PROVE  /\ immI(i) \in Int /\ immS(i) \in Int /\ immB(i) \in Int
           /\ immU(i) \in Int /\ immJ(i) \in Int
<1>1. \A low, bits \in Nat : Field(i, low, bits) \in Nat
  BY FieldType
<1>2. immI(i) \in Int
  BY <1>1, SignExtendType DEF immI
<1>3. immS(i) \in Int
  <2>1. Field(i, 7, 5) + Field(i, 25, 7) * 32 \in Nat
    BY <1>1
  <2> QED
    BY <2>1, SignExtendType DEF immS
<1>4. immB(i) \in Int
  <2>0. \A a, b, c, d \in Nat : a * 2 + b * 32 + c * 2048 + d * 4096 \in Nat
    BY SMT
  <2>a. Field(i, 8, 4) \in Nat /\ Field(i, 25, 6) \in Nat /\ Field(i, 7, 1) \in Nat /\ Field(i, 31, 1) \in Nat
    BY <1>1
  <2>1. Field(i, 8, 4) * 2 + Field(i, 25, 6) * 32 + Field(i, 7, 1) * 2048
          + Field(i, 31, 1) * 4096 \in Nat
    BY <2>0, <2>a, SMT
  <2> QED
    BY <2>1, SignExtendType, SMT DEF immB
<1>5. immU(i) \in Int
  <2>1. sign_extend(Field(i, 12, 20), 20) \in Int
    BY <1>1, SignExtendType
  <2> QED
    BY <2>1, SMT DEF immU
<1>6. immJ(i) \in Int
  <2>0. \A a, b, c, d \in Nat : a * 2 + b * 2048 + c * 4096 + d * 1048576 \in Nat
    BY SMT
  <2>a. Field(i, 21, 10) \in Nat /\ Field(i, 20, 1) \in Nat /\ Field(i, 12, 8) \in Nat /\ Field(i, 31, 1) \in Nat
    BY <1>1
  <2>1. Field(i, 21, 10) * 2 + Field(i, 20, 1) * 2048 + Field(i, 12, 8) * 4096
          + Field(i, 31, 1) * 1048576 \in Nat
    BY <2>0, <2>a, SMT
  <2> QED
    BY <2>1, SignExtendType, SMT DEF immJ
<1> QED
  BY <1>2, <1>3, <1>4, <1>5, <1>6

\* A field of i, moved to position s.
Placed(i, low, bits, s) == {k \in s..(s + bits - 1) : k - s + low \in i}

\* A field that decoding.c shifts to its place in an immediate.
LEMMA FieldShift ==
    ASSUME NEW i, NEW low \in Nat, NEW bits \in Nat, NEW s \in Nat
    PROVE  Field(i, low, bits) * 2 ^ s = Number(Placed(i, low, bits, s))
<1> DEFINE S == {k - low : k \in i \cap (low..(low + bits - 1))}
<1>1. S \in SUBSET (0..(bits - 1))
  OBVIOUS
<1>2. {k + s : k \in S} = Placed(i, low, bits, s)
  <2>1. ASSUME NEW k \in S PROVE k + s \in Placed(i, low, bits, s)
    BY DEF Placed
  <2>2. ASSUME NEW k \in Placed(i, low, bits, s) PROVE \E j \in S : k = j + s
    <3>1. k - s + low \in i \cap (low..(low + bits - 1)) /\ (k - s + low) - low = k - s /\ k = (k - s) + s
      BY DEF Placed
    <3>2. k - s \in S
      BY <3>1
    <3> QED
      BY <3>1, <3>2
  <2> HIDE DEF S
  <2> QED
    BY <2>1, <2>2
<1>3. Field(i, low, bits) = Number(S)
  BY DEF Field
<1> HIDE DEF S
<1>4. Number(S) * 2 ^ s = Number({k + s : k \in S})
  BY <1>1, NumberShift
<1> QED
  BY <1>2, <1>3, <1>4

\* sign_extend on a number given by its places.
LEMMA SignExtendNumber ==
    ASSUME NEW n \in Nat, NEW S \in SUBSET (0..n)
    PROVE  sign_extend(Number(S), n + 1) = Number(S \ {n}) - (IF n \in S THEN 2 ^ n ELSE 0)
<1> DEFINE N0 == Number(S \ {n})
           N1 == Number(S)
           p == 2 ^ n
<1>1. p \in Nat /\ p >= 1 /\ 2 ^ (n + 1) = 2 * p
  BY PowPos, PowStep
<1>2. N0 \in Nat /\ N0 < p
  <2> DEFINE T == S \ {n}
  <2>1. T \in SUBSET (0..(n - 1))
    OBVIOUS
  <2> HIDE DEF T
  <2>2. NumberFacts(T, n)
    BY <2>1, NumberOf
  <2> QED
    BY <2>2 DEF NumberFacts, T
<1>3. N1 = N0 + (IF n \in S THEN p ELSE 0)
  <2>1. CASE n \in S
    <3> DEFINE m == n + 1
    <3>1. m \in Nat /\ S \in SUBSET (0..(m - 1))
      OBVIOUS
    <3> HIDE DEF m
    <3>2. N1 = p + N0
      BY <3>1, <2>1, NumberRemove
    <3> HIDE DEF N0, N1, p
    <3> QED
      BY <3>2, <2>1, <1>1, <1>2
  <2>2. CASE n \notin S
    <3>1. S \ {n} = S
      BY <2>2
    <3>2. N1 = N0
      BY <3>1
    <3> HIDE DEF N0, N1, p
    <3> QED
      BY <3>2, <2>2, <1>2
  <2> QED
    BY <2>1, <2>2
<1>4. sign_extend(N1, n + 1) = IF N1 >= p THEN N1 - 2 * p ELSE N1
  <2>1. (n + 1) - 1 = n
    OBVIOUS
  <2> HIDE DEF N1
  <2>2. sign_extend(N1, n + 1) = IF N1 >= 2 ^ ((n + 1) - 1) THEN N1 - 2 ^ (n + 1) ELSE N1
    BY Zenon DEF sign_extend
  <2> QED
    BY <2>1, <2>2, <1>1, Zenon
<1> HIDE DEF N0, N1, p
<1>5. sign_extend(N1, n + 1) = N0 - (IF n \in S THEN p ELSE 0)
  BY <1>1, <1>2, <1>3, <1>4
<1> QED
  BY <1>5 DEF N0, N1, p

\* decodeI gives the immediate of the I format.
LEMMA ImmediateI ==
    ASSUME NEW i \in InstructionWord
    PROVE  immI(i) = Weighted(i, PlaceI, 0, 11)
<1> DEFINE S == Placed(i, 20, 12, 0)
<1>1. Field(i, 20, 12) = Number(S)
  <2>1. Field(i, 20, 12) * 2 ^ 0 = Number(S)
    BY FieldShift
  <2>2. 2 ^ 0 = 1 /\ Field(i, 20, 12) \in Nat
    BY FieldType
  <2> HIDE DEF S
  <2> QED
    BY <2>1, <2>2
<1>2. S \in SUBSET (0..11)
  BY DEF Placed
<1>3. S \ {11} = {k \in 0..(11 - 1) : PlaceI(k) \in i} /\ (11 \in S <=> PlaceI(11) \in i)
  BY DEF Placed, PlaceI
<1> HIDE DEF S
<1>4. sign_extend(Number(S), 11 + 1) = Number(S \ {11}) - (IF 11 \in S THEN 2 ^ 11 ELSE 0)
  BY <1>2, SignExtendNumber
<1>5. immI(i) = sign_extend(Number(S), 11 + 1)
  BY <1>1 DEF immI
<1> QED
  BY <1>3, <1>4, <1>5, Zenon DEF Weighted

\* A field that stays where it is.
LEMMA FieldAtZero ==
    ASSUME NEW i, NEW low \in Nat, NEW bits \in Nat
    PROVE  /\ Field(i, low, bits) = Number(Placed(i, low, bits, 0))
           /\ Placed(i, low, bits, 0) \in SUBSET (0..(bits - 1))
<1>1. Field(i, low, bits) * 2 ^ 0 = Number(Placed(i, low, bits, 0))
  BY FieldShift
<1>2. 2 ^ 0 = 1 /\ Field(i, low, bits) \in Nat
  BY FieldType
<1>3. Placed(i, low, bits, 0) \in SUBSET (0..(bits - 1))
  BY DEF Placed
<1>4. \A x \in Nat : x * 1 = x
  OBVIOUS
<1> QED
  BY <1>1, <1>2, <1>3, <1>4

\* decodeS gives the immediate of the S format.
LEMMA ImmediateS ==
    ASSUME NEW i \in InstructionWord
    PROVE  immS(i) = Weighted(i, PlaceS, 0, 11)
<1> DEFINE A == Placed(i, 7, 5, 0)
           B == Placed(i, 25, 7, 5)
           S == A \cup B
<1>1. Field(i, 7, 5) = Number(A)
  BY FieldAtZero
<1>2. Field(i, 25, 7) * 32 = Number(B)
  <2>1. Field(i, 25, 7) * 2 ^ 5 = Number(B)
    BY FieldShift, Zenon
  <2>2. 2 ^ 5 = 32
    OBVIOUS
  <2> HIDE DEF B
  <2> QED
    BY <2>1, <2>2
<1>3. A \in SUBSET (0..(12 - 1)) /\ B \in SUBSET (0..(12 - 1)) /\ A \cap B = {}
  BY DEF Placed
<1>4. S \in SUBSET (0..11)
  BY <1>3
<1>5. S \ {11} = {k \in 0..(11 - 1) : PlaceS(k) \in i} /\ (11 \in S <=> PlaceS(11) \in i)
  BY DEF Placed, PlaceS
<1>6. Number(S) = Number(A) + Number(B)
  <2> DEFINE n == 12
  <2>1. n \in Nat /\ A \in SUBSET (0..(n - 1)) /\ B \in SUBSET (0..(n - 1))
    BY <1>3
  <2> HIDE DEF A, B, n
  <2> QED
    BY <1>3, <2>1, NumberUnion
<1> HIDE DEF A, B, S
<1>7. sign_extend(Number(S), 11 + 1) = Number(S \ {11}) - (IF 11 \in S THEN 2 ^ 11 ELSE 0)
  BY <1>4, SignExtendNumber
<1>8. immS(i) = sign_extend(Number(S), 11 + 1)
  BY <1>1, <1>2, <1>6 DEF immS
<1> QED
  BY <1>5, <1>7, <1>8, Zenon DEF Weighted

\* Four fields that do not overlap.
Disjoint4(A, B, C, D, n) ==
    /\ A \in SUBSET (0..(n - 1)) /\ B \in SUBSET (0..(n - 1))
    /\ C \in SUBSET (0..(n - 1)) /\ D \in SUBSET (0..(n - 1))
    /\ A \cap B = {} /\ (A \cup B) \cap C = {} /\ (A \cup B \cup C) \cap D = {}

AddsUp(A, B, C, D) ==
    Number(A \cup B \cup C \cup D) = Number(A) + Number(B) + Number(C) + Number(D)

\* The sum of four fields at places of their own.
LEMMA NumberUnion4 ==
    ASSUME NEW n \in Nat, NEW A, NEW B, NEW C, NEW D, Disjoint4(A, B, C, D, n)
    PROVE  AddsUp(A, B, C, D)
<1> USE DEF Disjoint4
<1>1. Number(A \cup B) = Number(A) + Number(B)
  BY NumberUnion
<1>2. Number(A \cup B \cup C) = Number(A \cup B) + Number(C)
  <2> DEFINE U == A \cup B
  <2>1. U \in SUBSET (0..(n - 1)) /\ U \cap C = {}
    OBVIOUS
  <2> HIDE DEF U
  <2>2. Number(U \cup C) = Number(U) + Number(C)
    BY <2>1, NumberUnion
  <2> QED
    BY <2>2 DEF U
<1>3. Number(A \cup B \cup C \cup D) = Number(A \cup B \cup C) + Number(D)
  <2> DEFINE U == A \cup B \cup C
  <2>1. U \in SUBSET (0..(n - 1)) /\ U \cap D = {}
    OBVIOUS
  <2> HIDE DEF U
  <2>2. Number(U \cup D) = Number(U) + Number(D)
    BY <2>1, NumberUnion
  <2> QED
    BY <2>2 DEF U
<1> QED
  BY <1>1, <1>2, <1>3 DEF AddsUp

\* decodeB gives the immediate of the B format, whose bits are out of order.
LEMMA ImmediateB ==
    ASSUME NEW i \in InstructionWord
    PROVE  immB(i) = Weighted(i, PlaceB, 1, 12)
<1> DEFINE A == Placed(i, 8, 4, 1)
           B == Placed(i, 25, 6, 5)
           C == Placed(i, 7, 1, 11)
           D == Placed(i, 31, 1, 12)
           S == A \cup B \cup C \cup D
<1>1. 2 = 2 ^ 1 /\ 32 = 2 ^ 5 /\ 2048 = 2 ^ 11 /\ 4096 = 2 ^ 12
  BY SMT
<1>2. /\ Field(i, 8, 4) * 2 = Number(A)
      /\ Field(i, 25, 6) * 32 = Number(B)
      /\ Field(i, 7, 1) * 2048 = Number(C)
      /\ Field(i, 31, 1) * 4096 = Number(D)
  <2>1. Field(i, 8, 4) * 2 ^ 1 = Number(A)
    BY FieldShift, Zenon
  <2>2. Field(i, 25, 6) * 2 ^ 5 = Number(B)
    BY FieldShift, Zenon
  <2>3. Field(i, 7, 1) * 2 ^ 11 = Number(C)
    BY FieldShift, Zenon
  <2>4. Field(i, 31, 1) * 2 ^ 12 = Number(D)
    BY FieldShift, Zenon
  <2> HIDE DEF A, B, C, D
  <2> QED
    BY <1>1, <2>1, <2>2, <2>3, <2>4, SMT
<1>3. Disjoint4(A, B, C, D, 13)
  BY DEF Placed, Disjoint4
<1>4. S \in SUBSET (0..12)
  BY <1>3 DEF Disjoint4
<1>5. S \ {12} = {k \in 1..(12 - 1) : PlaceB(k) \in i} /\ (12 \in S <=> PlaceB(12) \in i)
  BY DEF Placed, PlaceB
<1>6. Number(S) = Number(A) + Number(B) + Number(C) + Number(D)
  <2> HIDE DEF A, B, C, D
  <2>1. AddsUp(A, B, C, D)
    BY <1>3, 13 \in Nat, NumberUnion4
  <2> QED
    BY <2>1 DEF AddsUp
<1> HIDE DEF A, B, C, D, S
<1>7. sign_extend(Number(S), 12 + 1) = Number(S \ {12}) - (IF 12 \in S THEN 2 ^ 12 ELSE 0)
  BY <1>4, SignExtendNumber
<1>8. immB(i) = sign_extend(Number(S), 12 + 1)
  BY <1>2, <1>6, SMT DEF immB
<1> QED
  BY <1>5, <1>7, <1>8, Zenon DEF Weighted

\* decodeJ gives the immediate of the J format, whose bits are out of order.
LEMMA ImmediateJ ==
    ASSUME NEW i \in InstructionWord
    PROVE  immJ(i) = Weighted(i, PlaceJ, 1, 20)
<1> DEFINE A == Placed(i, 21, 10, 1)
           B == Placed(i, 20, 1, 11)
           C == Placed(i, 12, 8, 12)
           D == Placed(i, 31, 1, 20)
           S == A \cup B \cup C \cup D
<1>1. 2 = 2 ^ 1 /\ 2048 = 2 ^ 11 /\ 4096 = 2 ^ 12 /\ 1048576 = 2 ^ 20
  BY SMT
<1>2. /\ Field(i, 21, 10) * 2 = Number(A)
      /\ Field(i, 20, 1) * 2048 = Number(B)
      /\ Field(i, 12, 8) * 4096 = Number(C)
      /\ Field(i, 31, 1) * 1048576 = Number(D)
  <2>1. Field(i, 21, 10) * 2 ^ 1 = Number(A)
    BY FieldShift, Zenon
  <2>2. Field(i, 20, 1) * 2 ^ 11 = Number(B)
    BY FieldShift, Zenon
  <2>3. Field(i, 12, 8) * 2 ^ 12 = Number(C)
    BY FieldShift, Zenon
  <2>4. Field(i, 31, 1) * 2 ^ 20 = Number(D)
    BY FieldShift, Zenon
  <2> HIDE DEF A, B, C, D
  <2> QED
    BY <1>1, <2>1, <2>2, <2>3, <2>4, SMT
<1>3. Disjoint4(A, B, C, D, 21)
  BY DEF Placed, Disjoint4
<1>4. S \in SUBSET (0..20)
  BY <1>3 DEF Disjoint4
<1>5. S \ {20} = {k \in 1..(20 - 1) : PlaceJ(k) \in i} /\ (20 \in S <=> PlaceJ(20) \in i)
  BY DEF Placed, PlaceJ
<1>6. Number(S) = Number(A) + Number(B) + Number(C) + Number(D)
  <2> HIDE DEF A, B, C, D
  <2>1. AddsUp(A, B, C, D)
    BY <1>3, 21 \in Nat, NumberUnion4
  <2> QED
    BY <2>1 DEF AddsUp
<1> HIDE DEF A, B, C, D, S
<1>7. sign_extend(Number(S), 20 + 1) = Number(S \ {20}) - (IF 20 \in S THEN 2 ^ 20 ELSE 0)
  BY <1>4, SignExtendNumber
<1>8. immJ(i) = sign_extend(Number(S), 20 + 1)
  BY <1>2, <1>6, SMT DEF immJ
<1> QED
  BY <1>5, <1>7, <1>8, Zenon DEF Weighted

\* decodeU gives the immediate of the U format.
LEMMA ImmediateU ==
    ASSUME NEW i \in InstructionWord
    PROVE  immU(i) = 4096 * Weighted({k - 12 : k \in i}, LAMBDA k : k, 0, 19)
<1> DEFINE S == Placed(i, 12, 20, 0)
           T == {k - 12 : k \in i}
           v == Weighted(T, LAMBDA k : k, 0, 19)
<1>1. Field(i, 12, 20) = Number(S)
  BY FieldAtZero
<1>2. S \in SUBSET (0..19)
  BY DEF Placed
<1>3. S \ {19} = {k \in 0..(19 - 1) : k \in T} /\ (19 \in S <=> 19 \in T)
  <2>1. \A k \in 0..19 : k \in T <=> k + 12 \in i
    <3> SUFFICES ASSUME NEW k \in 0..19 PROVE k \in T <=> k + 12 \in i
      OBVIOUS
    <3>1. k = (k + 12) - 12
      OBVIOUS
    <3>2. \A j \in i : j - 12 = k => j = k + 12
      BY DEF InstructionWord
    <3> QED
      BY <3>1, <3>2
  <2>2. \A k \in 0..19 : k \in S <=> k + 12 \in i
    BY DEF Placed
  <2>3. \A k \in 0..19 : k \in S <=> k \in T
    BY <2>1, <2>2
  <2> HIDE DEF T, S
  <2>4. \A k \in 0..19 : k # 19 <=> k \in 0..(19 - 1)
    OBVIOUS
  <2>5. \A k \in 0..(19 - 1) : k \in 0..19
    OBVIOUS
  <2>6. S \ {19} = {k \in 0..(19 - 1) : k \in T}
    BY <1>2, <2>3, <2>4, <2>5, Zenon
  <2> QED
    BY <2>3, <2>6
<1>4. sign_extend(Number(S), 19 + 1) = Number(S \ {19}) - (IF 19 \in S THEN 2 ^ 19 ELSE 0)
  <2> DEFINE n == 19
  <2>1. n \in Nat /\ S \in SUBSET (0..n)
    BY <1>2
  <2> HIDE DEF S, n
  <2>2. sign_extend(Number(S), n + 1) = Number(S \ {n}) - (IF n \in S THEN 2 ^ n ELSE 0)
    BY <2>1, SignExtendNumber
  <2> QED
    BY <2>2 DEF n
<1>5. v = Number({k \in 0..(19 - 1) : k \in T}) - (IF 19 \in T THEN 2 ^ 19 ELSE 0)
  BY DEF Weighted
<1>6. sign_extend(Field(i, 12, 20), 20) = v
  <2>1. 19 + 1 = 20
    OBVIOUS
  <2> HIDE DEF T, S, v
  <2> QED
    BY <1>1, <1>3, <1>4, <1>5, <2>1, Zenon
<1>7. v \in Int
  <2>1. sign_extend(Field(i, 12, 20), 20) \in Int
    BY FieldType, SignExtendType
  <2> QED
    BY <1>6, <2>1
<1>8. immU(i) = sign_extend(Field(i, 12, 20), 20) * 4096
  BY DEF immU
<1> HIDE DEF v
<1>9. immU(i) = 4096 * v
  BY <1>6, <1>7, <1>8, SMT
<1> QED
  BY <1>9, SMT DEF v, T

\* All five immediates of an instruction word.
LEMMA Immediates ==
    ASSUME NEW i \in InstructionWord
    PROVE  ImmediatesMatch(i)
BY ImmediateI, ImmediateS, ImmediateB, ImmediateJ, ImmediateU, SMT DEF ImmediatesMatch

---------------------------------------------------------------------------
(* The values that the dispatchers return fit a register.                  *)

\* A value cut to XLEN bits fits a register.
LEMMA TruncWord ==
    ASSUME NEW x \in Int
    PROVE  Trunc(x, XLEN) \in Word
BY TruncType, Widths DEF Word

\* So does one that is sign-extended.
LEMMA ExtendWord ==
    ASSUME NEW x \in Int, NEW n \in Nat, n >= 1
    PROVE  Extend(x, n) \in Word
BY SignedType, TruncWord DEF Extend, SignedRange

\* The results of xor, or and and fit a register and have the bits named.
LEMMA BitOps ==
    ASSUME NEW a, NEW b
    PROVE  /\ BitXor(a, b) \in Word /\ BitOr(a, b) \in Word /\ BitAnd(a, b) \in Word
           /\ Bits(BitXor(a, b), XLEN) = {k \in 0..(XLEN - 1) : Digit(a, k) # Digit(b, k)}
           /\ Bits(BitOr(a, b), XLEN) = {k \in 0..(XLEN - 1) : Digit(a, k) = 1 \/ Digit(b, k) = 1}
           /\ Bits(BitAnd(a, b), XLEN) = {k \in 0..(XLEN - 1) : Digit(a, k) = 1 /\ Digit(b, k) = 1}
<1> DEFINE X == {k \in 0..(XLEN - 1) : Digit(a, k) # Digit(b, k)}
           O == {k \in 0..(XLEN - 1) : Digit(a, k) = 1 \/ Digit(b, k) = 1}
           N == {k \in 0..(XLEN - 1) : Digit(a, k) = 1 /\ Digit(b, k) = 1}
<1>1. X \in SUBSET (0..(XLEN - 1)) /\ O \in SUBSET (0..(XLEN - 1)) /\ N \in SUBSET (0..(XLEN - 1))
  OBVIOUS
<1>2. BitXor(a, b) = Number(X) /\ BitOr(a, b) = Number(O) /\ BitAnd(a, b) = Number(N)
  BY DEF BitXor, BitOr, BitAnd
<1> HIDE DEF X, O, N
<1>3. /\ Number(X) \in Word /\ Bits(Number(X), XLEN) = X
      /\ Number(O) \in Word /\ Bits(Number(O), XLEN) = O
      /\ Number(N) \in Word /\ Bits(Number(N), XLEN) = N
  BY <1>1, BitsNumber, Widths DEF Word
<1> QED
  BY <1>2, <1>3, Zenon DEF X, O, N

\* The quotient and the remainder of a register fit a register.
LEMMA DivisionWord ==
    ASSUME NEW a \in Word, NEW c \in Nat, c >= 1
    PROVE  a \div c \in Word /\ a % c \in Word
<1> DEFINE q == a \div c
           r == a % c
<1>1. a \in Nat /\ a < 2 ^ XLEN /\ 2 ^ XLEN \in Nat
  BY WordFacts, Widths
<1>2. q \in Int /\ r \in Nat /\ r < c /\ a = c * q + r
  BY <1>1, DivMod
<1> HIDE DEF q, r
<1>3. q >= 0
  <2>1. CASE q <= -1
    <3>1. c * q <= -c
      BY <2>1, <1>2
    <3> QED
      BY <3>1, <1>1, <1>2
  <2> QED
    BY <2>1, <1>2
<1>4. q <= c * q
  BY <1>2, <1>3
<1>5. q <= a /\ r <= a
  BY <1>1, <1>2, <1>3, <1>4
<1>6. q \in Nat /\ r \in Nat /\ q < 2 ^ XLEN /\ r < 2 ^ XLEN
  <2> DEFINE m == 2 ^ XLEN
  <2>1. a < m /\ m \in Nat
    BY <1>1
  <2> HIDE DEF m
  <2>2. q \in Nat /\ r \in Nat /\ q < m /\ r < m
    BY <2>1, <1>1, <1>2, <1>3, <1>5
  <2> QED
    BY <2>2 DEF m
<1> QED
  BY <1>6, WordFacts DEF q, r

\* So does a register shifted to the right.
LEMMA ShiftWord ==
    ASSUME NEW a \in Word, NEW s \in Nat
    PROVE  a \div 2 ^ s \in Word
BY DivisionWord, PowPos

\* The quotient and the remainder of C are integers.
LEMMA DivInt ==
    ASSUME NEW a \in Int, NEW b \in Int, b # 0
    PROVE  Div(a, b) \in Int /\ Rem(a, b) \in Int
<1> DEFINE q == Abs(a) \div Abs(b)
<1>1. Abs(a) \in Int /\ Abs(b) \in Nat /\ Abs(b) >= 1
  BY DEF Abs
<1>2. q \in Int
  BY <1>1, DivMod
<1>3. Div(a, b) = IF (a < 0) = (b < 0) THEN q ELSE -q
  BY DEF Div
<1> HIDE DEF q
<1>4. Div(a, b) \in Int
  BY <1>2, <1>3
<1> QED
  BY <1>4 DEF Rem

\* Signed gives an integer.
LEMMA SignedInt ==
    ASSUME NEW x \in Int, NEW n \in Nat, n >= 1
    PROVE  Signed(x, n) \in Int
BY SignedType DEF SignedRange

\* A shift amount.
LEMMA ShiftAmount ==
    ASSUME NEW x \in Int, NEW n \in Nat, n >= 1
    PROVE  x % n \in Nat /\ x % n < n /\ 2 ^ (x % n) \in Nat /\ 2 ^ (x % n) >= 1
BY DivMod, PowPos

\* m_extension.c returns a register's value for every funct3.
LEMMA ResultMop ==
    ASSUME NEW i, NEW a \in Word, NEW b \in Word
    PROVE  dispatch_m_op(i, a, b) \in Word
<1> DEFINE sa == Signed(a, XLEN)
           sb == Signed(b, XLEN)
           m == 2 ^ XLEN
<1>1. a \in Nat /\ b \in Nat /\ sa \in Int /\ sb \in Int
  BY WordFacts, Widths, SignedInt
<1>2. m \in Nat /\ m >= 1
  BY Widths
<1>3. Trunc(a * b, XLEN) \in Word
  BY <1>1, TruncWord
<1>4. /\ Trunc((sa * sb) \div m, XLEN) \in Word
      /\ Trunc((sa * b) \div m, XLEN) \in Word
      /\ Trunc((a * b) \div m, XLEN) \in Word
  <2> HIDE DEF sa, sb, m
  <2>1. sa * sb \in Int /\ sa * b \in Int /\ a * b \in Int
    BY <1>1
  <2>2. (sa * sb) \div m \in Int /\ (sa * b) \div m \in Int /\ (a * b) \div m \in Int
    BY <1>2, <2>1, DivMod
  <2> QED
    BY <2>2, TruncWord
<1>5. b # 0 => sb # 0
  <2>1. sb % m = b % m
    BY <1>1, Widths, SignedType
  <2>2. b < m
    BY WordFacts
  <2> HIDE DEF sb, m
  <2>3. b % m = b
    BY <2>2, <1>1, <1>2, ModSmall
  <2>4. 0 % m = 0
    BY <1>2, ModSmall
  <2> QED
    BY <2>1, <2>3, <2>4
<1>6. b # 0 => Trunc(Div(sa, sb), XLEN) \in Word /\ Trunc(Rem(sa, sb), XLEN) \in Word
  <2> HIDE DEF sa, sb
  <2> QED
    BY <1>1, <1>5, DivInt, TruncWord
<1>7. b # 0 => a \div b \in Word /\ a % b \in Word
  <2>1. b # 0 => b >= 1
    BY <1>1
  <2> QED
    BY <1>1, <2>1, DivisionWord
<1>8. m - 1 \in Word /\ 0 \in Word
  BY WordFacts
<1>9. funct3(i) \in 0..7
  BY FieldTypes
<1> DEFINE r == dispatch_m_op(i, a, b)
<1>10. CASE funct3(i) \in {0, 1, 2, 3}
  <2>1. r \in {Trunc(a * b, XLEN), Trunc((sa * sb) \div m, XLEN), Trunc((sa * b) \div m, XLEN),
               Trunc((a * b) \div m, XLEN)}
    BY <1>10 DEF dispatch_m_op
  <2> HIDE DEF sa, sb, m, r
  <2> QED
    BY <2>1, <1>3, <1>4 DEF r
<1>11. CASE funct3(i) \in {4, 6}
  <2>1. r \in {a, 0, m - 1} \/ (b # 0 /\ r \in {Trunc(Div(sa, sb), XLEN), Trunc(Rem(sa, sb), XLEN)})
    BY <1>11 DEF dispatch_m_op
  <2> HIDE DEF sa, sb, m, r
  <2> QED
    BY <2>1, <1>6, <1>8 DEF r
<1>12. CASE funct3(i) \in {5, 7}
  <2>1. r \in {a, m - 1} \/ (b # 0 /\ r \in {a \div b, a % b})
    BY <1>12 DEF dispatch_m_op
  <2> HIDE DEF sa, sb, m, r
  <2> QED
    BY <2>1, <1>7, <1>8 DEF r
<1> QED
  BY <1>9, <1>10, <1>11, <1>12

\* Its word instructions return a register's value or raise an exception.
LEMMA ResultMop32 ==
    ASSUME NEW i, NEW a \in Word, NEW b \in Word
    PROVE  dispatch_m_op_32(i, a, b) \in Word \cup {Illegal}
<1> DEFINE ua == Trunc(a, W)
           ub == Trunc(b, W)
           sa == Signed(a, W)
           sb == Signed(b, W)
           r == dispatch_m_op_32(i, a, b)
<1>1. a \in Nat /\ b \in Nat
  BY WordFacts
<1>3. W \in Nat /\ W >= 1
  BY Widths
<1>2. ua \in Nat /\ ub \in Nat /\ sa \in Int /\ sb \in Int
  <2>1. a \in Int /\ b \in Int
    BY <1>1
  <2> QED
    BY <2>1, <1>3, SignedInt, TruncType
<1> HIDE DEF ua, ub, sa, sb
<1>4. Extend(sa * sb, W) \in Word /\ Extend(sa, W) \in Word /\ Extend(ua, W) \in Word
  BY <1>2, <1>3, ExtendWord
<1>5. sb # 0 => Extend(Div(sa, sb), W) \in Word /\ Extend(Rem(sa, sb), W) \in Word
  BY <1>2, <1>3, DivInt, ExtendWord
<1>6. ub # 0 => Extend(ua \div ub, W) \in Word /\ Extend(ua % ub, W) \in Word
  <2>1. ub # 0 => ub >= 1
    BY <1>2
  <2>2. ub # 0 => ua \div ub \in Int /\ ua % ub \in Int
    BY <1>2, <2>1, DivMod
  <2> QED
    BY <1>3, <2>2, ExtendWord
<1>7. 2 ^ XLEN - 1 \in Word /\ 0 \in Word
  BY WordFacts
<1>8. CASE funct3(i) \in {0, 4, 6}
  <2>1. \/ r \in {Extend(sa * sb, W), Extend(sa, W), 2 ^ XLEN - 1, 0}
        \/ sb # 0 /\ r \in {Extend(Div(sa, sb), W), Extend(Rem(sa, sb), W)}
    BY <1>8 DEF dispatch_m_op_32, ua, ub, sa, sb
  <2> HIDE DEF r
  <2> QED
    BY <1>4, <1>5, <1>7, <2>1 DEF r
<1>9. CASE funct3(i) \in {5, 7}
  <2>1. \/ r \in {Extend(ua, W), 2 ^ XLEN - 1}
        \/ ub # 0 /\ r \in {Extend(ua \div ub, W), Extend(ua % ub, W)}
    BY <1>9 DEF dispatch_m_op_32, ua, ub, sa, sb
  <2> HIDE DEF r
  <2> QED
    BY <1>4, <1>6, <1>7, <2>1 DEF r
<1>10. CASE funct3(i) \notin {0, 4, 5, 6, 7}
  BY <1>10 DEF dispatch_m_op_32
<1> QED
  BY <1>8, <1>9, <1>10

\* The result of a comparison fits a register.
LEMMA BoolWord == ASSUME NEW p PROVE Bool(p) \in {0, 1} /\ Bool(p) \in Word
BY WordFacts DEF Bool

\* op.c returns a register's value, or none.
LEMMA ResultOp ==
    ASSUME NEW i, NEW a \in Word, NEW b \in Word
    PROVE  dispatch_op(i, a, b) \in Word \cup {NoWrite}
<1> DEFINE s == b % XLEN
           sa == Signed(a, XLEN)
           sb == Signed(b, XLEN)
           r == dispatch_op(i, a, b)
<1>1. a \in Nat /\ b \in Nat /\ sa \in Int /\ sb \in Int
  BY WordFacts, Widths, SignedInt
<1>2. s \in Nat /\ 2 ^ s \in Nat /\ 2 ^ s >= 1
  BY <1>1, Widths, ShiftAmount
<1> HIDE DEF s, sa, sb
<1>3. Trunc(a + b, XLEN) \in Word /\ Trunc(a - b, XLEN) \in Word
  BY <1>1, TruncWord
<1>4. Trunc(a * 2 ^ s, XLEN) \in Word
  BY <1>1, <1>2, TruncWord
<1>5. a \div 2 ^ s \in Word /\ Trunc(sa \div 2 ^ s, XLEN) \in Word
  BY <1>1, <1>2, ShiftWord, DivMod, TruncWord
<1>6. Bool(sa < sb) \in Word /\ Bool(a < b) \in Word
  BY BoolWord
<1>7. BitXor(a, b) \in Word /\ BitOr(a, b) \in Word /\ BitAnd(a, b) \in Word
  BY BitOps
<1>8. funct3(i) \in 0..7
  BY FieldTypes
<1>9. CASE funct3(i) \in {0, 1}
  <2>1. r \in {Trunc(a + b, XLEN), Trunc(a - b, XLEN), Trunc(a * 2 ^ s, XLEN), NoWrite}
    BY <1>9 DEF dispatch_op, ByFunct7, s, sa, sb
  <2> HIDE DEF r
  <2> QED
    BY <1>3, <1>4, <2>1 DEF r
<1>10. CASE funct3(i) \in {2, 3}
  <2>1. r \in {Bool(sa < sb), Bool(a < b)}
    BY <1>10 DEF dispatch_op, ByFunct7, s, sa, sb
  <2> HIDE DEF r
  <2> QED
    BY <1>6, <2>1 DEF r
<1>11. CASE funct3(i) \in {4, 6, 7}
  <2>1. r \in {BitXor(a, b), BitOr(a, b), BitAnd(a, b)}
    BY <1>11 DEF dispatch_op, ByFunct7, s, sa, sb
  <2> HIDE DEF r
  <2> QED
    BY <1>7, <2>1 DEF r
<1>12. CASE funct3(i) = 5
  <2>1. r \in {a \div 2 ^ s, Trunc(sa \div 2 ^ s, XLEN), NoWrite}
    BY <1>12 DEF dispatch_op, ByFunct7, s, sa, sb
  <2> HIDE DEF r
  <2> QED
    BY <1>5, <2>1 DEF r
<1> QED
  BY <1>8, <1>9, <1>10, <1>11, <1>12

\* The immediate and the shift amount taken from it.
LEMMA ImmInt ==
    ASSUME NEW i, NEW n \in Nat, n >= 1
    PROVE  /\ immI(i) \in Int /\ immI(i) % n \in Nat
           /\ 2 ^ (immI(i) % n) \in Nat /\ 2 ^ (immI(i) % n) >= 1
           /\ Trunc(immI(i), XLEN) \in Word
BY ImmediateTypes, ShiftAmount, TruncWord

\* op_imm.c returns a register's value or raises an exception.
LEMMA ResultOpImm ==
    ASSUME NEW i, NEW a \in Word
    PROVE  dispatch_op_imm(i, a) \in Word \cup {Illegal}
<1> DEFINE imm == immI(i)
           s == imm % XLEN
           b == Trunc(imm, XLEN)
           sa == Signed(a, XLEN)
           sb == Signed(b, XLEN)
           r == dispatch_op_imm(i, a)
<1>0. XLEN \in Nat /\ XLEN >= 1
  BY Widths
<1>1. a \in Nat /\ imm \in Int /\ sa \in Int
  BY <1>0, WordFacts, SignedInt, ImmInt
<1>2. s \in Nat /\ 2 ^ s \in Nat /\ 2 ^ s >= 1
  BY <1>0, ImmInt
<1> HIDE DEF s, sa, sb, b, imm
<1>3. Trunc(a + imm, XLEN) \in Word
  BY <1>1, TruncWord
<1>4. Trunc(a * 2 ^ s, XLEN) \in Word
  BY <1>1, <1>2, TruncWord
<1>5. a \div 2 ^ s \in Word /\ Trunc(sa \div 2 ^ s, XLEN) \in Word
  BY <1>1, <1>2, ShiftWord, DivMod, TruncWord
<1>6. Bool(sa < sb) \in Word /\ Bool(a < b) \in Word
  BY BoolWord
<1>7. BitXor(a, b) \in Word /\ BitOr(a, b) \in Word /\ BitAnd(a, b) \in Word
  BY BitOps
<1>8. funct3(i) \in 0..7
  BY FieldTypes
<1>9. CASE funct3(i) \in {0, 1}
  <2>1. r \in {Trunc(a + imm, XLEN), Trunc(a * 2 ^ s, XLEN)}
    BY <1>9 DEF dispatch_op_imm, s, sa, sb, b, imm
  <2> HIDE DEF r
  <2> QED
    BY <1>3, <1>4, <2>1 DEF r
<1>10. CASE funct3(i) \in {2, 3}
  <2>1. r \in {Bool(sa < sb), Bool(a < b)}
    BY <1>10 DEF dispatch_op_imm, s, sa, sb, b, imm
  <2> HIDE DEF r
  <2> QED
    BY <1>6, <2>1 DEF r
<1>11. CASE funct3(i) \in {4, 6, 7}
  <2>1. r \in {BitXor(a, b), BitOr(a, b), BitAnd(a, b)}
    BY <1>11 DEF dispatch_op_imm, s, sa, sb, b, imm
  <2> HIDE DEF r
  <2> QED
    BY <1>7, <2>1 DEF r
<1>12. CASE funct3(i) = 5
  <2>1. r \in {a \div 2 ^ s, Trunc(sa \div 2 ^ s, XLEN), Illegal}
    BY <1>12 DEF dispatch_op_imm, ByImm, s, sa, sb, b, imm
  <2> HIDE DEF r
  <2> QED
    BY <1>5, <2>1 DEF r
<1> QED
  BY <1>8, <1>9, <1>10, <1>11, <1>12

\* op_imm_32.c returns a register's value or raises an exception.
LEMMA ResultOpImm32 ==
    ASSUME NEW i, NEW a \in Word
    PROVE  dispatch_op_imm_32(i, a) \in Word \cup {Illegal}
<1> DEFINE imm == immI(i)
           s == imm % W
           ta == Trunc(a, W)
           sa == Signed(a, W)
           r == dispatch_op_imm_32(i, a)
<1>0. W \in Nat /\ W >= 1
  BY Widths
<1>1. a \in Nat
  BY WordFacts
<1>2. imm \in Int /\ sa \in Int /\ ta \in Int
  <2>1. a \in Int
    BY <1>1
  <2> QED
    BY <2>1, <1>0, SignedInt, TruncType, ImmInt
<1>3. s \in Nat /\ 2 ^ s \in Nat /\ 2 ^ s >= 1
  BY <1>0, ImmInt
<1> HIDE DEF s, sa, ta, imm
<1>4. ta \div 2 ^ s \in Int /\ sa \div 2 ^ s \in Int
  BY <1>2, <1>3, DivMod
<1>5. /\ Extend(a + imm, W) \in Word /\ Extend(ta * 2 ^ s, W) \in Word
      /\ Extend(ta \div 2 ^ s, W) \in Word /\ Extend(sa \div 2 ^ s, W) \in Word
  <2>1. a + imm \in Int /\ ta * 2 ^ s \in Int
    BY <1>1, <1>2, <1>3
  <2> QED
    BY <2>1, <1>0, <1>4, ExtendWord
<1>6. CASE funct3(i) \in {0, 1}
  <2>1. r \in {Extend(a + imm, W), Extend(ta * 2 ^ s, W)}
    BY <1>6 DEF dispatch_op_imm_32, s, sa, ta, imm
  <2> HIDE DEF r
  <2> QED
    BY <1>5, <2>1 DEF r
<1>7. CASE funct3(i) = 5
  <2>1. r \in {Extend(ta \div 2 ^ s, W), Extend(sa \div 2 ^ s, W), Illegal}
    BY <1>7 DEF dispatch_op_imm_32, ByImm, s, sa, ta, imm
  <2> HIDE DEF r
  <2> QED
    BY <1>5, <2>1 DEF r
<1>8. CASE funct3(i) \notin {0, 1, 5}
  BY <1>8 DEF dispatch_op_imm_32
<1> QED
  BY <1>6, <1>7, <1>8

\* op_32.c returns a register's value, none, or raises an exception.
LEMMA ResultOp32 ==
    ASSUME NEW i, NEW a \in Word, NEW b \in Word
    PROVE  dispatch_op_32(i, a, b) \in Word \cup {NoWrite, Illegal}
<1> DEFINE h == W \div 2
           s == b % W
           u == b % h
           ta == Trunc(a, W)
           sa == Signed(a, W)
           r == dispatch_op_32(i, a, b)
<1>0. W \in Nat /\ W >= 1
  BY Widths
<1>1. a \in Nat /\ b \in Nat /\ h \in Nat /\ h >= 1
  BY WordFacts, Widths
<1>2. sa \in Int /\ ta \in Int /\ a \in Int /\ b \in Int
  <2>1. a \in Int /\ b \in Int
    BY <1>1
  <2> QED
    BY <2>1, <1>0, SignedInt, TruncType
<1>3. s \in Nat /\ 2 ^ s \in Nat /\ 2 ^ s >= 1
  BY <1>0, <1>2, ShiftAmount
<1>4. u \in Nat /\ 2 ^ u \in Nat /\ 2 ^ u >= 1
  <2> HIDE DEF h
  <2> QED
    BY <1>1, <1>2, ShiftAmount
<1> HIDE DEF s, sa, ta, u
<1>5. ta \div 2 ^ s \in Int /\ sa \div 2 ^ u \in Int
  BY <1>2, <1>3, <1>4, DivMod
<1>6. /\ Extend(a + b, W) \in Word /\ Extend(a - b, W) \in Word /\ Extend(ta * 2 ^ s, W) \in Word
      /\ Extend(ta \div 2 ^ s, W) \in Word /\ Extend(sa \div 2 ^ u, W) \in Word
  <2>1. a + b \in Int /\ a - b \in Int /\ ta * 2 ^ s \in Int
    BY <1>1, <1>2, <1>3
  <2> QED
    BY <2>1, <1>0, <1>5, ExtendWord
<1>7. CASE funct3(i) \in {0, 1}
  <2>1. r \in {Extend(a + b, W), Extend(a - b, W), Extend(ta * 2 ^ s, W), NoWrite}
    BY <1>7 DEF dispatch_op_32, ByFunct7, s, sa, ta, u
  <2> HIDE DEF r
  <2> QED
    BY <1>6, <2>1 DEF r
<1>8. CASE funct3(i) = 5
  <2>1. r \in {Extend(ta \div 2 ^ s, W), Extend(sa \div 2 ^ u, W), NoWrite}
    BY <1>8 DEF dispatch_op_32, ByFunct7, s, sa, ta, u
  <2> HIDE DEF r
  <2> QED
    BY <1>6, <2>1 DEF r
<1>9. CASE funct3(i) \notin {0, 1, 5}
  BY <1>9 DEF dispatch_op_32
<1> QED
  BY <1>7, <1>8, <1>9

---------------------------------------------------------------------------
(* Values cut and extended to a register, and their bits.                  *)

\* The digits of a value cut by Trunc.
LEMMA DigitOf == ASSUME NEW x \in Int, NEW n \in Nat, NEW k \in Nat
                 PROVE  Digit(Trunc(x, n), k) = IF k < n THEN Digit(x, k) ELSE 0
BY DigitTrunc DEF Trunc

\* The bits of a value that has been extended to a register.
LEMMA ExtendDigit ==
    ASSUME NEW x \in Int, NEW n \in Nat, n >= 1, NEW k \in 0..(XLEN - 1)
    PROVE  Digit(Extend(x, n), k) = IF k < n THEN Digit(x, k) ELSE Digit(x, n - 1)
<1> DEFINE s == Signed(x, n)
<1>1. s \in Int /\ k \in Nat /\ k < XLEN /\ XLEN \in Nat
  BY SignedInt, Widths
<1>2. Digit(s, k) = IF k < n THEN Digit(x, k) ELSE Digit(x, n - 1)
  BY <1>1, DigitSigned
<1>3. Digit(Trunc(s, XLEN), k) = Digit(s, k)
  <2> HIDE DEF s
  <2> QED
    BY <1>1, DigitOf
<1> QED
  BY <1>2, <1>3 DEF Extend

\* 0 extended is 0.
LEMMA ExtendZero == ASSUME NEW n \in Nat, n >= 1 PROVE Extend(0, n) = 0
<1>1. 2 ^ n \in Nat /\ 2 ^ n >= 1 /\ n - 1 \in Nat
  BY PowPos
<1>2. 2 ^ (n - 1) \in Nat /\ 2 ^ (n - 1) >= 1
  BY <1>1, PowPos
<1> DEFINE m == 2 ^ n
           h == 2 ^ (n - 1)
           x == 2 ^ XLEN
<1>3. m \in Nat /\ m >= 1 /\ h \in Nat /\ h >= 1 /\ x \in Nat /\ x >= 1
  BY <1>1, <1>2, Widths
<1>4. Trunc(0, n) = 0 % m /\ Trunc(0, XLEN) = 0 % x
  BY DEF Trunc
<1> HIDE DEF m, h, x
<1>5. 0 % m = 0 /\ 0 % x = 0
  BY <1>3, ModSmall
<1>6. sign_extend(0, n) = IF 0 >= h THEN 0 - m ELSE 0
  BY DEF sign_extend, h, m
<1>7. sign_extend(0, n) = 0
  BY <1>3, <1>6
<1> QED
  BY <1>4, <1>5, <1>7 DEF Extend, Signed

\* A number of n bits is not changed by cutting it to n bits.
LEMMA TruncSmall == ASSUME NEW n \in Nat, NEW x \in Nat, x < 2 ^ n PROVE Trunc(x, n) = x
<1> DEFINE m == 2 ^ n
<1>1. m \in Nat /\ x < m
  BY PowPos
<1> HIDE DEF m
<1>2. x % m = x
  BY <1>1, ModSmall
<1> QED
  BY <1>2 DEF Trunc, m

\* A value cut to m bits and then to n <= m.
LEMMA TruncTrunc ==
    ASSUME NEW x \in Int, NEW n \in Nat, NEW m \in Nat, n <= m
    PROVE  Trunc(Trunc(x, m), n) = Trunc(x, n)
<1> DEFINE a == 2 ^ n
           b == 2 ^ (m - n)
<1>1. a \in Nat /\ a >= 1 /\ b \in Nat /\ b >= 1 /\ 2 ^ m = a * b
  <2>1. m - n \in Nat /\ 2 ^ m = 2 ^ n * 2 ^ (m - n)
    BY PowSplit
  <2> QED
    BY <2>1, PowPos
<1>2. (x % (a * b)) % a = x % a
  <2> HIDE DEF a, b
  <2> QED
    BY <1>1, DivDiv
<1> QED
  BY <1>1, <1>2 DEF Trunc

\* r is the register that the n-bit value of x is extended to.
Delivers(r, x, n) == r \in Word /\ Trunc(r, n) = Trunc(x, n) /\ SignFilled(r, n)

\* A value that is sign-extended from n bits,
LEMMA ExtendDelivers ==
    ASSUME NEW x \in Int, NEW n \in Nat, n >= 1, n <= XLEN
    PROVE  Delivers(Extend(x, n), x, n)
<1> DEFINE r == Extend(x, n)
           s == Signed(x, n)
<1>1. r \in Word
  BY ExtendWord
<1>2. s \in Int /\ s % 2 ^ n = x % 2 ^ n /\ XLEN \in Nat
  BY SignedInt, SignedType, Widths
<1>3. Trunc(r, n) = Trunc(x, n)
  <2>1. r = Trunc(s, XLEN)
    BY DEF Extend
  <2> HIDE DEF s, r
  <2>2. Trunc(Trunc(s, XLEN), n) = Trunc(s, n)
    BY <1>2, TruncTrunc
  <2> QED
    BY <1>2, <2>1, <2>2 DEF Trunc
<1>4. \A k \in 0..(XLEN - 1) : Digit(r, k) = IF k < n THEN Digit(x, k) ELSE Digit(x, n - 1)
  BY ExtendDigit
<1>5. SignFilled(r, n)
  <2> HIDE DEF r
  <2>1. n - 1 \in 0..(XLEN - 1) /\ n - 1 < n
    BY <1>2
  <2>2. \A k \in n..(XLEN - 1) : k \in 0..(XLEN - 1) /\ ~(k < n)
    BY <1>2
  <2> QED
    BY <1>4, <2>1, <2>2 DEF SignFilled, Bits
<1> QED
  BY <1>1, <1>3, <1>5 DEF Delivers

\* and one that is cut to a register.
LEMMA TruncDelivers ==
    ASSUME NEW x \in Int
    PROVE  Delivers(Trunc(x, XLEN), x, XLEN)
<1>1. XLEN \in Nat
  BY Widths
<1>2. Trunc(Trunc(x, XLEN), XLEN) = Trunc(x, XLEN)
  BY <1>1, TruncTrunc
<1>3. XLEN..(XLEN - 1) = {}
  BY <1>1
<1> QED
  BY <1>2, <1>3, TruncWord DEF Delivers, SignFilled

\* The bits of a value that has been cut.
LEMMA TruncBits ==
    ASSUME NEW x \in Int, NEW n \in Nat
    PROVE  Bits(Trunc(x, n), n) = Bits(x, n)
<1>1. \A k \in 0..(n - 1) : k \in Nat /\ k < n
  OBVIOUS
<1>2. \A k \in 0..(n - 1) : Digit(Trunc(x, n), k) = Digit(x, k)
  BY <1>1, DigitOf
<1> QED
  BY <1>2 DEF Bits

\* xor, or and and, at any width.
LEMMA BitwiseResult ==
    ASSUME NEW a \in Int, NEW b \in Int, NEW n \in Nat, n <= XLEN
    PROVE  /\ Bits(BitXor(a, b), n) = (Bits(a, n) \cup Bits(b, n)) \ (Bits(a, n) \cap Bits(b, n))
           /\ Bits(BitOr(a, b), n) = Bits(a, n) \cup Bits(b, n)
           /\ Bits(BitAnd(a, b), n) = Bits(a, n) \cap Bits(b, n)
<1> DEFINE x == BitXor(a, b)
           o == BitOr(a, b)
           c == BitAnd(a, b)
<1>1. \A k \in 0..(XLEN - 1) : Digit(a, k) \in {0, 1} /\ Digit(b, k) \in {0, 1}
  BY DigitType, Widths
<1>2. /\ Bits(x, XLEN) = {k \in 0..(XLEN - 1) : Digit(a, k) # Digit(b, k)}
      /\ Bits(o, XLEN) = {k \in 0..(XLEN - 1) : Digit(a, k) = 1 \/ Digit(b, k) = 1}
      /\ Bits(c, XLEN) = {k \in 0..(XLEN - 1) : Digit(a, k) = 1 /\ Digit(b, k) = 1}
  BY BitOps
<1> HIDE DEF x, o, c
<1>3. \A k \in 0..(n - 1) : k \in 0..(XLEN - 1)
  BY Widths
<1>4. \A k \in 0..(n - 1) : /\ Digit(x, k) = 1 <=> Digit(a, k) # Digit(b, k)
                            /\ Digit(o, k) = 1 <=> Digit(a, k) = 1 \/ Digit(b, k) = 1
                            /\ Digit(c, k) = 1 <=> Digit(a, k) = 1 /\ Digit(b, k) = 1
  BY <1>2, <1>3 DEF Bits
<1>5. \A k \in 0..(n - 1) : Digit(a, k) \in {0, 1} /\ Digit(b, k) \in {0, 1}
  BY <1>1, <1>3
<1>6. Bits(x, n) = (Bits(a, n) \cup Bits(b, n)) \ (Bits(a, n) \cap Bits(b, n))
  BY <1>4, <1>5 DEF Bits
<1>7. Bits(o, n) = Bits(a, n) \cup Bits(b, n) /\ Bits(c, n) = Bits(a, n) \cap Bits(b, n)
  BY <1>4 DEF Bits
<1> QED
  BY <1>6, <1>7 DEF x, o, c

\* Trunc gives an integer.
LEMMA TruncInt == ASSUME NEW x \in Int, NEW n \in Nat PROVE Trunc(x, n) \in Int
<1>1. Trunc(x, n) \in Nat
  BY TruncType
<1> QED
  BY <1>1

\* Sums and differences wrap around.
LEMMA TruncAdd ==
    ASSUME NEW a \in Int, NEW b \in Int, NEW n \in Nat
    PROVE  /\ Trunc(Trunc(a, n) + Trunc(b, n), n) = Trunc(a + b, n)
           /\ Trunc(Trunc(a, n) - Trunc(b, n), n) = Trunc(a - b, n)
<1> DEFINE m == 2 ^ n
           qa == a \div m
           qb == b \div m
           ra == a % m
           rb == b % m
<1>1. m \in Nat /\ m >= 1
  BY PowPos
<1> HIDE DEF m
<1>2. qa \in Int /\ ra \in Int /\ a = m * qa + ra /\ qb \in Int /\ rb \in Int /\ b = m * qb + rb
  BY <1>1, DivMod
<1> HIDE DEF qa, qb, ra, rb
<1>3. a + b = (ra + rb) + m * (qa + qb) /\ a - b = (ra - rb) + m * (qa - qb)
  BY <1>1, <1>2
<1>4. ((ra + rb) + m * (qa + qb)) % m = (ra + rb) % m
  <2>1. ra + rb \in Int /\ qa + qb \in Int
    BY <1>2
  <2> QED
    BY <1>1, <2>1, ModShift
<1>5. ((ra - rb) + m * (qa - qb)) % m = (ra - rb) % m
  <2>1. ra - rb \in Int /\ qa - qb \in Int
    BY <1>2
  <2> QED
    BY <1>1, <2>1, ModShift
<1>6. (ra + rb) % m = (a + b) % m /\ (ra - rb) % m = (a - b) % m
  BY <1>3, <1>4, <1>5
<1> QED
  BY <1>6 DEF Trunc, ra, rb, m

\* Products wrap around.
LEMMA TruncMul ==
    ASSUME NEW a \in Int, NEW b \in Int, NEW n \in Nat
    PROVE  Trunc(Trunc(a, n) * Trunc(b, n), n) = Trunc(a * b, n)
<1> DEFINE m == 2 ^ n
           qa == a \div m
           qb == b \div m
           ra == a % m
           rb == b % m
<1>1. m \in Nat /\ m >= 1
  BY PowPos
<1> HIDE DEF m
<1>2. qa \in Int /\ ra \in Int /\ a = m * qa + ra /\ qb \in Int /\ rb \in Int /\ b = m * qb + rb
  BY <1>1, DivMod
<1> HIDE DEF qa, qb, ra, rb
<1>3. a * b = ra * b + m * (qa * b)
  <2>1. a * b = (m * qa + ra) * b
    BY <1>2
  <2>2. (m * qa + ra) * b = ra * b + m * (qa * b)
    BY <1>1, <1>2
  <2> QED
    BY <2>1, <2>2
<1>4. ra * b = ra * rb + m * (ra * qb)
  <2>1. ra * b = ra * (m * qb + rb)
    BY <1>2
  <2>2. ra * (m * qb + rb) = ra * rb + m * (ra * qb)
    BY <1>1, <1>2
  <2> QED
    BY <2>1, <2>2
<1>5. qa * b \in Int /\ ra * b \in Int /\ ra * rb \in Int /\ ra * qb \in Int
  BY <1>2
<1>6. (ra * b + m * (qa * b)) % m = (ra * b) % m
  BY <1>1, <1>5, ModShift
<1>7. (ra * rb + m * (ra * qb)) % m = (ra * rb) % m
  BY <1>1, <1>5, ModShift
<1>8. (ra * rb) % m = (a * b) % m
  BY <1>3, <1>4, <1>6, <1>7
<1> QED
  BY <1>8 DEF Trunc, ra, rb, m

\* Two numbers of n bits are congruent when they are equal.
LEMMA SameTrunc ==
    ASSUME NEW x \in Int, NEW y \in Int, NEW n \in Nat, Trunc(x, n) = Trunc(y, n)
    PROVE  Congruent(x, y, n)
<1> DEFINE m == 2 ^ n
<1>1. m \in Nat /\ m >= 1
  BY PowPos
<1>2. x % m = y % m
  BY DEF Trunc
<1> HIDE DEF m
<1>3. (x - y) % m = 0
  BY <1>1, <1>2, ModEqual
<1> QED
  BY <1>3 DEF Congruent, m

---------------------------------------------------------------------------
(* The integer instructions.                                               *)

\* The two widths that instructions compute at.
OpWidths == {XLEN, W}

\* Both are positive and at most XLEN.
LEMMA WidthFacts ==
    ASSUME NEW n \in OpWidths
    PROVE  n \in Nat /\ n >= 4 /\ n >= 1 /\ n <= XLEN /\ XLEN \in Nat
BY Widths DEF OpWidths

\* The widths are powers of two, so that a shift amount can be read off the
\* low bits of a register.
LEMMA WidthPower ==
    ASSUME NEW n \in OpWidths
    PROVE  \E k \in Nat : n = 2 ^ k /\ k <= n
<1>1. PICK e \in 0..ByteBits : ByteBits = 2 ^ e
  BY DatapathAssumption
<1>2. ByteBits \in Nat /\ ByteBits >= 1 /\ e \in Nat /\ e <= ByteBits
  BY Widths, <1>1
<1>3. 2 ^ (e + 3) = 2 ^ e * 8 /\ 2 ^ (e + 2) = 2 ^ e * 4
  <2>1. 2 ^ 3 = 8 /\ 2 ^ 2 = 4 /\ 3 \in Nat /\ 2 \in Nat
    OBVIOUS
  <2>2. 2 ^ (e + 3) = 2 ^ e * 2 ^ 3
    BY <1>2, <2>1, PowAdd, Zenon
  <2>3. 2 ^ (e + 2) = 2 ^ e * 2 ^ 2
    BY <1>2, <2>1, PowAdd, Zenon
  <2> QED
    BY <2>1, <2>2, <2>3
<1>4. XLEN = 2 ^ (e + 3) /\ W = 2 ^ (e + 2)
  <2> DEFINE p == 2 ^ e
  <2>1. p = ByteBits
    BY <1>1
  <2>2. 2 ^ (e + 3) = p * 8 /\ 2 ^ (e + 2) = p * 4
    BY <1>3
  <2> HIDE DEF p
  <2>3. p * 8 = XLEN /\ p * 4 = W
    BY <1>2, <2>1 DEF XLEN, W
  <2> QED
    BY <2>2, <2>3
<1>5. e + 3 \in Nat /\ e + 2 \in Nat /\ e + 3 <= XLEN /\ e + 2 <= W
  BY <1>2 DEF XLEN, W
<1> QED
  BY <1>4, <1>5 DEF OpWidths

\* The shift amount depends on the low bits only.
LEMMA ShiftMod ==
    ASSUME NEW n \in OpWidths, NEW x \in Int
    PROVE  Trunc(x, n) % n = x % n
<1>1. PICK k \in Nat : n = 2 ^ k /\ k <= n
  BY WidthPower
<1>2. n \in Nat /\ n >= 1
  BY WidthFacts
<1> DEFINE c == 2 ^ (n - k)
<1>3. n - k \in Nat /\ 2 ^ n = 2 ^ k * c
  BY <1>1, <1>2, PowSplit
<1>4. c \in Nat /\ c >= 1
  BY <1>3, PowPos
<1>5. 2 ^ n = n * c
  BY <1>1, <1>3
<1> HIDE DEF c
<1>6. (x % (n * c)) % n = x % n
  BY <1>2, <1>4, DivDiv
<1> QED
  BY <1>5, <1>6 DEF Trunc

\* The branches of IntegerResult.
LEMMA IntegerBranches ==
    ASSUME NEW alt, NEW a, NEW b, NEW r, NEW n
    PROVE  /\ IntegerResult(0, alt, a, b, r, n) <=> Congruent(r, IF alt THEN a - b ELSE a + b, n)
           /\ IntegerResult(1, alt, a, b, r, n) <=>
                 Bits(r, n) = {k + (b % n) : k \in Bits(a, n)} \cap 0..(n - 1)
           /\ IntegerResult(2, alt, a, b, r, n) <=> \/ r = 1 /\ Value(a, n) < Value(b, n)
                                                    \/ r = 0 /\ Value(a, n) >= Value(b, n)
           /\ IntegerResult(3, alt, a, b, r, n) <=> \/ r = 1 /\ Number(Bits(a, n)) < Number(Bits(b, n))
                                                    \/ r = 0 /\ Number(Bits(a, n)) >= Number(Bits(b, n))
           /\ IntegerResult(4, alt, a, b, r, n) <=>
                 Bits(r, n) = (Bits(a, n) \cup Bits(b, n)) \ (Bits(a, n) \cap Bits(b, n))
           /\ IntegerResult(5, alt, a, b, r, n) <=>
                 Bits(r, n) = {k \in 0..(n - 1) : \/ k + (b % n) \in Bits(a, n)
                                                  \/ alt /\ k + (b % n) >= n /\ n - 1 \in Bits(a, n)}
           /\ IntegerResult(6, alt, a, b, r, n) <=> Bits(r, n) = Bits(a, n) \cup Bits(b, n)
           /\ IntegerResult(7, alt, a, b, r, n) <=> Bits(r, n) = Bits(a, n) \cap Bits(b, n)
<1>1. IntegerResult(0, alt, a, b, r, n) <=> Congruent(r, IF alt THEN a - b ELSE a + b, n)
  BY DEF IntegerResult
<1>2. IntegerResult(1, alt, a, b, r, n) <=>
                 Bits(r, n) = {k + (b % n) : k \in Bits(a, n)} \cap 0..(n - 1)
  BY DEF IntegerResult
<1>3. IntegerResult(2, alt, a, b, r, n) <=> \/ r = 1 /\ Value(a, n) < Value(b, n)
                                            \/ r = 0 /\ Value(a, n) >= Value(b, n)
  BY DEF IntegerResult
<1>4. IntegerResult(3, alt, a, b, r, n) <=> \/ r = 1 /\ Number(Bits(a, n)) < Number(Bits(b, n))
                                            \/ r = 0 /\ Number(Bits(a, n)) >= Number(Bits(b, n))
  BY DEF IntegerResult
<1>5. IntegerResult(4, alt, a, b, r, n) <=>
                 Bits(r, n) = (Bits(a, n) \cup Bits(b, n)) \ (Bits(a, n) \cap Bits(b, n))
  BY DEF IntegerResult
<1>6. IntegerResult(5, alt, a, b, r, n) <=>
                 Bits(r, n) = {k \in 0..(n - 1) : \/ k + (b % n) \in Bits(a, n)
                                                  \/ alt /\ k + (b % n) >= n /\ n - 1 \in Bits(a, n)}
  BY DEF IntegerResult
<1>7. IntegerResult(6, alt, a, b, r, n) <=> Bits(r, n) = Bits(a, n) \cup Bits(b, n)
  BY DEF IntegerResult
<1>8. IntegerResult(7, alt, a, b, r, n) <=> Bits(r, n) = Bits(a, n) \cap Bits(b, n)
  BY DEF IntegerResult
<1> QED
  BY <1>1, <1>2, <1>3, <1>4, <1>5, <1>6, <1>7, <1>8, Zenon

\* r is what an integer instruction of width n leaves in rd.
IntOK(f3, alt, a, b, r, n) ==
    /\ r \in Word
    /\ IntegerResult(f3, alt, Trunc(a, n), Trunc(b, n), Trunc(r, n), n)
    /\ SignFilled(r, n)

\* add, sub, addi and their word forms.
LEMMA IntAdd ==
    ASSUME NEW n \in OpWidths, NEW a \in Int, NEW b \in Int, NEW alt \in BOOLEAN, NEW r,
           Delivers(r, IF alt THEN a - b ELSE a + b, n)
    PROVE  IntOK(0, alt, a, b, r, n)
<1> DEFINE A == Trunc(a, n)
           B == Trunc(b, n)
           v == IF alt THEN a - b ELSE a + b
           V == IF alt THEN A - B ELSE A + B
<1>1. n \in Nat /\ v \in Int
  BY WidthFacts
<1>2. A \in Int /\ B \in Int
  BY <1>1, TruncInt
<1>3. V \in Int /\ Trunc(V, n) = Trunc(v, n)
  <2>1. Trunc(A + B, n) = Trunc(a + b, n) /\ Trunc(A - B, n) = Trunc(a - b, n)
    BY <1>1, TruncAdd
  <2> HIDE DEF A, B
  <2> QED
    BY <1>2, <2>1
<1>4. Trunc(r, n) = Trunc(v, n) /\ r \in Word /\ SignFilled(r, n)
  BY DEF Delivers
<1> HIDE DEF v, V
<1>5. Trunc(v, n) \in Int /\ Trunc(Trunc(v, n), n) = Trunc(v, n)
  BY <1>1, TruncInt, TruncTrunc
<1>6. Congruent(Trunc(r, n), V, n)
  <2> DEFINE t == Trunc(v, n)
  <2>1. t \in Int /\ Trunc(t, n) = Trunc(V, n)
    BY <1>3, <1>5
  <2> HIDE DEF t
  <2>2. Congruent(t, V, n)
    BY <1>1, <1>3, <2>1, SameTrunc
  <2> QED
    BY <1>4, <2>2 DEF t
<1>7. IntegerResult(0, alt, A, B, Trunc(r, n), n)
  BY <1>6, IntegerBranches, Zenon DEF V
<1> QED
  BY <1>4, <1>7 DEF IntOK

\* sll, slli and their word forms.
LEMMA IntSll ==
    ASSUME NEW n \in OpWidths, NEW a \in Int, NEW b \in Int, NEW alt, NEW r,
           NEW x \in Int, Trunc(x, n) = Trunc(a, n), Delivers(r, x * 2 ^ (b % n), n)
    PROVE  IntOK(1, alt, a, b, r, n)
<1> DEFINE A == Trunc(a, n)
           B == Trunc(b, n)
           s == b % n
           v == x * 2 ^ s
           R == Trunc(r, n)
<1>1. n \in Nat /\ n >= 1
  BY WidthFacts
<1>2. s \in Nat /\ 2 ^ s \in Nat /\ B % n = s
  BY <1>1, ShiftAmount, ShiftMod
<1> HIDE DEF s
<1>3. v \in Int
  BY <1>2
<1>4. R = Trunc(v, n) /\ r \in Word /\ SignFilled(r, n)
  BY DEF Delivers, s
<1>5. Bits(R, n) = Bits(v, n)
  <2> HIDE DEF v
  <2> QED
    BY <1>1, <1>3, <1>4, TruncBits
<1>6. Bits(A, n) = Bits(x, n)
  <2>1. Bits(Trunc(x, n), n) = Bits(x, n)
    BY <1>1, TruncBits
  <2> QED
    BY <2>1
<1>7. \A k \in 0..(n - 1) : Digit(v, k) = IF k >= s THEN Digit(x, k - s) ELSE 0
  <2>1. \A k \in 0..(n - 1) : k \in Nat
    OBVIOUS
  <2> QED
    BY <1>2, <2>1, DigitShl
<1> HIDE DEF v
<1>8. Bits(v, n) = {k + s : k \in Bits(x, n)} \cap 0..(n - 1)
  <2>1. ASSUME NEW k \in Bits(v, n) PROVE k \in {j + s : j \in Bits(x, n)} \cap 0..(n - 1)
    <3>1. k \in 0..(n - 1) /\ Digit(v, k) = 1
      BY DEF Bits
    <3>2. k >= s /\ Digit(x, k - s) = 1
      BY <3>1, <1>7
    <3>3. k - s \in 0..(n - 1) /\ (k - s) + s = k
      BY <3>1, <3>2, <1>1, <1>2
    <3>4. k - s \in Bits(x, n)
      BY <3>2, <3>3 DEF Bits
    <3> QED
      BY <3>1, <3>3, <3>4
  <2>2. ASSUME NEW k \in {j + s : j \in Bits(x, n)} \cap 0..(n - 1) PROVE k \in Bits(v, n)
    <3>1. PICK j \in Bits(x, n) : k = j + s
      BY <2>2
    <3>2. j \in 0..(n - 1) /\ Digit(x, j) = 1
      BY DEF Bits
    <3>3. k >= s /\ k - s = j /\ k \in 0..(n - 1)
      BY <3>1, <3>2, <1>1, <1>2
    <3>4. Digit(v, k) = 1
      BY <3>2, <3>3, <1>7
    <3> QED
      BY <3>3, <3>4 DEF Bits
  <2> QED
    BY <2>1, <2>2
<1>9. IntegerResult(1, alt, A, B, R, n)
  <2>1. Bits(R, n) = {k + (B % n) : k \in Bits(A, n)} \cap 0..(n - 1)
    <3> HIDE DEF A, B, R
    <3> QED
      BY <1>2, <1>5, <1>6, <1>8
  <2> HIDE DEF A, B, R
  <2> QED
    BY <2>1, IntegerBranches, Zenon
<1> QED
  BY <1>4, <1>9 DEF IntOK

\* The result of a comparison, as a register's value.
LEMMA ZeroOrOne ==
    ASSUME NEW r \in {0, 1}
    PROVE  r \in Word /\ SignFilled(r, XLEN) /\ Trunc(r, XLEN) = r
<1>1. r \in Word
  BY WordFacts
<1>2. r \in Nat /\ r < 2 ^ XLEN /\ XLEN \in Nat
  BY <1>1, WordFacts, Widths
<1>3. XLEN..(XLEN - 1) = {}
  BY <1>2
<1> QED
  BY <1>1, <1>2, <1>3, TruncSmall DEF SignFilled

\* slt and slti.
LEMMA IntSlt ==
    ASSUME NEW a \in Int, NEW b \in Int, NEW alt, NEW r,
           r = Bool(Signed(a, XLEN) < Signed(b, XLEN))
    PROVE  IntOK(2, alt, a, b, r, XLEN)
<1> DEFINE A == Trunc(a, XLEN)
           B == Trunc(b, XLEN)
           sa == Signed(a, XLEN)
           sb == Signed(b, XLEN)
<1>1. XLEN \in Nat /\ XLEN >= 1
  BY Widths
<1>2. A \in Int /\ B \in Int /\ Trunc(A, XLEN) = A /\ Trunc(B, XLEN) = B
  BY <1>1, TruncType, TruncTrunc
<1>3. Value(A, XLEN) = sa /\ Value(B, XLEN) = sb
  <2>1. Value(A, XLEN) = Signed(A, XLEN) /\ Value(B, XLEN) = Signed(B, XLEN)
    <3> HIDE DEF A, B
    <3> QED
      BY <1>1, <1>2, ValueSigned
  <2> QED
    BY <1>2, <2>1 DEF Signed
<1>4. sa \in Int /\ sb \in Int
  BY <1>1, SignedInt
<1> HIDE DEF A, B, sa, sb
<1>5. r \in {0, 1} /\ (\/ r = 1 /\ Value(A, XLEN) < Value(B, XLEN)
                       \/ r = 0 /\ Value(A, XLEN) >= Value(B, XLEN))
  BY <1>3, <1>4 DEF Bool, sa, sb
<1>6. r \in Word /\ SignFilled(r, XLEN) /\ Trunc(r, XLEN) = r
  BY <1>5, ZeroOrOne
<1>7. IntegerResult(2, alt, A, B, r, XLEN)
  BY <1>5, IntegerBranches, Zenon
<1> QED
  BY <1>6, <1>7 DEF IntOK, A, B

\* sltu and sltiu.
LEMMA IntSltu ==
    ASSUME NEW a \in Word, NEW b \in Word, NEW alt, NEW r, r = Bool(a < b)
    PROVE  IntOK(3, alt, a, b, r, XLEN)
<1>1. XLEN \in Nat /\ a \in Nat /\ a < 2 ^ XLEN /\ b \in Nat /\ b < 2 ^ XLEN
  BY Widths, WordFacts
<1>2. Trunc(a, XLEN) = a /\ Trunc(b, XLEN) = b
  BY <1>1, TruncSmall
<1>3. Number(Bits(a, XLEN)) = a /\ Number(Bits(b, XLEN)) = b
  <2>1. a \in Int /\ b \in Int
    BY <1>1
  <2>2. Number(Bits(a, XLEN)) = a % 2 ^ XLEN /\ Number(Bits(b, XLEN)) = b % 2 ^ XLEN
    BY <1>1, <2>1, NumberBits
  <2> QED
    BY <1>2, <2>2 DEF Trunc
<1> DEFINE na == Number(Bits(a, XLEN))
           nb == Number(Bits(b, XLEN))
<1>4. r \in {0, 1} /\ ((r = 1 /\ a < b) \/ (r = 0 /\ a >= b))
  BY <1>1 DEF Bool
<1>5. (r = 1 /\ na < nb) \/ (r = 0 /\ na >= nb)
  BY <1>3, <1>4, Zenon
<1>6. r \in Word /\ SignFilled(r, XLEN) /\ Trunc(r, XLEN) = r
  BY <1>4, ZeroOrOne
<1>7. IntegerResult(3, alt, a, b, r, XLEN)
  BY <1>5, IntegerBranches, Zenon
<1> QED
  BY <1>2, <1>6, <1>7 DEF IntOK

\* A register's value at its full width.
LEMMA WordDelivers == ASSUME NEW r \in Word PROVE Delivers(r, r, XLEN)
<1>1. XLEN..(XLEN - 1) = {}
  BY Widths
<1> QED
  BY <1>1 DEF Delivers, SignFilled

\* xor, or and and, with a register or an immediate.
LEMMA IntBitwise ==
    ASSUME NEW a \in Int, NEW b \in Int, NEW alt
    PROVE  /\ IntOK(4, alt, a, b, BitXor(a, b), XLEN)
           /\ IntOK(6, alt, a, b, BitOr(a, b), XLEN)
           /\ IntOK(7, alt, a, b, BitAnd(a, b), XLEN)
<1> DEFINE A == Trunc(a, XLEN)
           B == Trunc(b, XLEN)
           x == BitXor(a, b)
           o == BitOr(a, b)
           c == BitAnd(a, b)
<1>1. XLEN \in Nat /\ XLEN <= XLEN
  BY Widths
<1>2. x \in Word /\ o \in Word /\ c \in Word
  BY BitOps
<1>3. /\ Bits(x, XLEN) = (Bits(a, XLEN) \cup Bits(b, XLEN)) \ (Bits(a, XLEN) \cap Bits(b, XLEN))
      /\ Bits(o, XLEN) = Bits(a, XLEN) \cup Bits(b, XLEN)
      /\ Bits(c, XLEN) = Bits(a, XLEN) \cap Bits(b, XLEN)
  BY <1>1, BitwiseResult
<1>4. Bits(A, XLEN) = Bits(a, XLEN) /\ Bits(B, XLEN) = Bits(b, XLEN)
  BY <1>1, TruncBits
<1> HIDE DEF A, B, x, o, c
<1>5. \A r \in Word : SignFilled(r, XLEN) /\ Trunc(r, XLEN) = r
  <2> SUFFICES ASSUME NEW r \in Word PROVE SignFilled(r, XLEN) /\ Trunc(r, XLEN) = r
    OBVIOUS
  <2>1. r \in Nat /\ r < 2 ^ XLEN
    BY WordFacts
  <2> QED
    BY <1>1, <2>1, TruncSmall, WordDelivers DEF Delivers
<1>6. IntegerResult(4, alt, A, B, x, XLEN)
  BY <1>3, <1>4, IntegerBranches, Zenon
<1>7. IntegerResult(6, alt, A, B, o, XLEN)
  BY <1>3, <1>4, IntegerBranches, Zenon
<1>8. IntegerResult(7, alt, A, B, c, XLEN)
  BY <1>3, <1>4, IntegerBranches, Zenon
<1>9. /\ IntegerResult(4, alt, A, B, Trunc(x, XLEN), XLEN)
      /\ IntegerResult(6, alt, A, B, Trunc(o, XLEN), XLEN)
      /\ IntegerResult(7, alt, A, B, Trunc(c, XLEN), XLEN)
  BY <1>2, <1>5, <1>6, <1>7, <1>8, Zenon
<1> QED
  BY <1>2, <1>5, <1>9, Zenon DEF IntOK, A, B, x, o, c

\* srl, srli and their word forms.
LEMMA IntSrl ==
    ASSUME NEW n \in OpWidths, NEW a \in Int, NEW b \in Int, NEW r,
           Delivers(r, Trunc(a, n) \div 2 ^ (b % n), n)
    PROVE  IntOK(5, FALSE, a, b, r, n)
<1> DEFINE A == Trunc(a, n)
           B == Trunc(b, n)
           s == b % n
           v == A \div 2 ^ s
           R == Trunc(r, n)
<1>1. n \in Nat /\ n >= 1
  BY WidthFacts
<1>2. s \in Nat /\ 2 ^ s \in Nat /\ 2 ^ s >= 1 /\ B % n = s
  BY <1>1, ShiftAmount, ShiftMod
<1>3. A \in Int /\ A \in Nat /\ A < 2 ^ n
  BY <1>1, TruncType
<1>4. R = Trunc(v, n) /\ r \in Word /\ SignFilled(r, n)
  BY DEF Delivers
<1> HIDE DEF s, A, B
<1>5. v \in Int
  BY <1>2, <1>3, DivMod
<1>6. Bits(R, n) = Bits(v, n)
  <2> HIDE DEF v
  <2> QED
    BY <1>1, <1>4, <1>5, TruncBits
<1>7. \A k \in 0..(n - 1) : Digit(v, k) = Digit(A, k + s)
  <2>1. \A k \in 0..(n - 1) : k \in Nat
    OBVIOUS
  <2> QED
    BY <1>2, <1>3, <2>1, DigitShr
<1>8. \A k \in Nat : k >= n => Digit(A, k) = 0
  BY <1>1, <1>3, DigitSmall
<1> HIDE DEF v, R
<1>9. Bits(v, n) = {k \in 0..(n - 1) : k + s \in Bits(A, n)}
  <2>1. ASSUME NEW k \in 0..(n - 1) PROVE Digit(v, k) = 1 <=> k + s \in Bits(A, n)
    <3>1. k + s \in Nat
      BY <1>2
    <3>2. k + s < n => (k + s \in Bits(A, n) <=> Digit(A, k + s) = 1)
      BY <3>1, <1>1 DEF Bits
    <3>3. k + s >= n => k + s \notin Bits(A, n) /\ Digit(A, k + s) = 0
      BY <3>1, <1>1, <1>8 DEF Bits
    <3>4. Digit(v, k) = Digit(A, k + s)
      BY <1>7
    <3> QED
      BY <3>1, <3>2, <3>3, <3>4, <1>1
  <2> QED
    BY <2>1 DEF Bits
<1>10. IntegerResult(5, FALSE, A, B, R, n)
  <2>1. Bits(R, n) = {k \in 0..(n - 1) : \/ k + (B % n) \in Bits(A, n)
                                         \/ FALSE /\ k + (B % n) >= n /\ n - 1 \in Bits(A, n)}
    BY <1>2, <1>6, <1>9
  <2> QED
    BY <2>1, IntegerBranches, Zenon
<1> QED
  BY <1>4, <1>10 DEF IntOK, A, B, R

\* sra, srai and sraiw.
LEMMA IntSra ==
    ASSUME NEW n \in OpWidths, NEW a \in Int, NEW b \in Int, NEW r,
           Delivers(r, Signed(a, n) \div 2 ^ (b % n), n)
    PROVE  IntOK(5, TRUE, a, b, r, n)
<1> DEFINE A == Trunc(a, n)
           B == Trunc(b, n)
           s == b % n
           x == Signed(a, n)
           v == x \div 2 ^ s
           R == Trunc(r, n)
<1>1. n \in Nat /\ n >= 1 /\ n - 1 \in Nat
  BY WidthFacts
<1>2. s \in Nat /\ 2 ^ s \in Nat /\ 2 ^ s >= 1 /\ B % n = s
  BY <1>1, ShiftAmount, ShiftMod
<1>3. x \in Int /\ \A k \in Nat : Digit(x, k) = IF k < n THEN Digit(a, k) ELSE Digit(a, n - 1)
  BY <1>1, SignedInt, DigitSigned
<1>4. R = Trunc(v, n) /\ r \in Word /\ SignFilled(r, n)
  BY DEF Delivers
<1>5. Bits(A, n) = Bits(a, n)
  BY <1>1, TruncBits
<1> HIDE DEF s, A, B, x
<1>6. v \in Int
  BY <1>2, <1>3, DivMod
<1>7. Bits(R, n) = Bits(v, n)
  <2> HIDE DEF v
  <2> QED
    BY <1>1, <1>4, <1>6, TruncBits
<1>8. \A k \in 0..(n - 1) : Digit(v, k) = Digit(x, k + s)
  <2>1. \A k \in 0..(n - 1) : k \in Nat
    OBVIOUS
  <2> QED
    BY <1>2, <1>3, <2>1, DigitShr
<1> HIDE DEF v, R
<1>9. Bits(v, n) = {k \in 0..(n - 1) : k + s \in Bits(a, n) \/ (k + s >= n /\ n - 1 \in Bits(a, n))}
  <2>1. ASSUME NEW k \in 0..(n - 1)
        PROVE  Digit(v, k) = 1 <=> k + s \in Bits(a, n) \/ (k + s >= n /\ n - 1 \in Bits(a, n))
    <3>1. k + s \in Nat
      BY <1>2
    <3>2. k + s < n => (k + s \in Bits(a, n) <=> Digit(a, k + s) = 1)
      BY <3>1, <1>1 DEF Bits
    <3>3. k + s >= n => k + s \notin Bits(a, n)
      BY <3>1, <1>1 DEF Bits
    <3>4. n - 1 \in Bits(a, n) <=> Digit(a, n - 1) = 1
      BY <1>1 DEF Bits
    <3>5. Digit(v, k) = IF k + s < n THEN Digit(a, k + s) ELSE Digit(a, n - 1)
      BY <3>1, <1>3, <1>8
    <3> QED
      BY <3>1, <3>2, <3>3, <3>4, <3>5, <1>1
  <2> QED
    BY <2>1 DEF Bits
<1>10. IntegerResult(5, TRUE, A, B, R, n)
  <2>1. Bits(R, n) = {k \in 0..(n - 1) : \/ k + (B % n) \in Bits(A, n)
                                         \/ TRUE /\ k + (B % n) >= n /\ n - 1 \in Bits(A, n)}
    BY <1>2, <1>5, <1>7, <1>9
  <2> QED
    BY <2>1, IntegerBranches, Zenon
<1> QED
  BY <1>4, <1>10 DEF IntOK, A, B, R

\* The shift instructions with an immediate: their funct7 is in its top bits.
LEMMA ImmFunct7 ==
    ASSUME NEW i
    PROVE  /\ funct7(i) \in {0, 1} => immI(i) \div 64 = 0
           /\ funct7(i) \in {32, 33} => immI(i) \div 64 = 16
<1> DEFINE A == Placed(i, 20, 5, 0)
           B == Placed(i, 25, 7, 5)
           S == Placed(i, 20, 12, 0)
           x == Field(i, 20, 12)
<1>1. rs2(i) = Number(A)
  BY FieldAtZero DEF rs2
<1>2. funct7(i) * 32 = Number(B)
  <2>1. Field(i, 25, 7) * 2 ^ 5 = Number(B)
    BY FieldShift, Zenon
  <2>2. 2 ^ 5 = 32
    OBVIOUS
  <2> HIDE DEF B
  <2> QED
    BY <2>1, <2>2 DEF funct7
<1>3. A \in SUBSET (0..(12 - 1)) /\ B \in SUBSET (0..(12 - 1)) /\ A \cap B = {} /\ A \cup B = S
  BY DEF Placed
<1>4. Number(S) = Number(A) + Number(B)
  <2> DEFINE n == 12
  <2>1. n \in Nat /\ A \in SUBSET (0..(n - 1)) /\ B \in SUBSET (0..(n - 1))
    BY <1>3
  <2>2. A \cap B = {} /\ A \cup B = S
    BY <1>3
  <2> HIDE DEF A, B, S, n
  <2>3. Number(A \cup B) = Number(A) + Number(B)
    BY <2>1, <2>2, NumberUnion
  <2> QED
    BY <2>2, <2>3
<1>5. x = Number(S)
  <2> DEFINE b == 12
  <2>1. b \in Nat
    OBVIOUS
  <2> HIDE DEF b
  <2>2. Field(i, 20, b) = Number(Placed(i, 20, b, 0))
    BY <2>1, FieldAtZero
  <2> QED
    BY <2>2 DEF b
<1>6. x = rs2(i) + funct7(i) * 32 /\ rs2(i) \in 0..31 /\ funct7(i) \in 0..127
  <2> HIDE DEF A, B, S, x
  <2> QED
    BY <1>1, <1>2, <1>4, <1>5, FieldTypes
<1>7. immI(i) = IF x >= 2048 THEN x - 4096 ELSE x
  <2>1. 2 ^ 11 = 2048 /\ 2 ^ 12 = 4096
    BY SMT
  <2> HIDE DEF x
  <2> QED
    BY <2>1, SMT DEF immI, sign_extend, x
<1> HIDE DEF x
<1> DEFINE g == funct7(i)
           t == rs2(i)
<1>8. x = t + g * 32 /\ t \in 0..31
  BY <1>6
<1> HIDE DEF g, t
<1>9. g \in {0, 1} => x >= 0 /\ x < 64 /\ x \in Int
  BY <1>8
<1>10. g \in {32, 33} => x >= 1024 /\ x < 1088 /\ x \in Int
  BY <1>8, SMT
<1>11. g \in {0, 1} => immI(i) \div 64 = 0
  BY <1>7, <1>9, SMT
<1>12. g \in {32, 33} => immI(i) \div 64 = 16
  BY <1>7, <1>10, SMT
<1> QED
  BY <1>11, <1>12 DEF g

\* op.c computes the operation that funct3 and funct7 name.
LEMMA OpValue ==
    ASSUME NEW i, NEW a \in Word, NEW b \in Word, NEW alt \in BOOLEAN, alt <=> funct7(i) = 32,
           funct7(i) = 0 \/ (funct7(i) = 32 /\ funct3(i) \in {0, 5})
    PROVE  IntOK(funct3(i), alt, a, b, dispatch_op(i, a, b), XLEN)
<1> DEFINE f == funct3(i)
           r == dispatch_op(i, a, b)
           s == b % XLEN
<1>1. f \in 0..7 /\ XLEN \in OpWidths /\ XLEN \in Nat /\ XLEN >= 1
  BY FieldTypes, Widths DEF OpWidths
<1>2. a \in Nat /\ a \in Int /\ b \in Nat /\ b \in Int /\ a < 2 ^ XLEN
  BY WordFacts
<1>3. s \in Nat /\ 2 ^ s \in Nat /\ 2 ^ s >= 1
  BY <1>1, <1>2, ShiftAmount
<1>4. CASE f = 0
  <2> DEFINE v == IF alt THEN a - b ELSE a + b
  <2>1. r = Trunc(v, XLEN)
    <3>1. CASE alt
      BY <1>4, <3>1 DEF dispatch_op, ByFunct7
    <3>2. CASE ~alt
      BY <1>4, <3>2 DEF dispatch_op, ByFunct7
    <3> QED
      BY <3>1, <3>2
  <2>2. v \in Int
    BY <1>2
  <2>3. Delivers(r, v, XLEN)
    <3> HIDE DEF v, r
    <3> QED
      BY <2>1, <2>2, TruncDelivers
  <2> HIDE DEF r
  <2>4. IntOK(0, alt, a, b, r, XLEN)
    BY <1>1, <1>2, <2>3, IntAdd
  <2> QED
    BY <1>4, <2>4 DEF r, f
<1>5. CASE f = 1
  <2>1. r = Trunc(a * 2 ^ s, XLEN)
    BY <1>5 DEF dispatch_op
  <2> HIDE DEF r
  <2>2. a * 2 ^ s \in Int
    BY <1>2, <1>3
  <2>3. Delivers(r, a * 2 ^ s, XLEN)
    BY <2>1, <2>2, TruncDelivers
  <2>4. IntOK(1, alt, a, b, r, XLEN)
    BY <1>1, <1>2, <2>3, IntSll
  <2> QED
    BY <1>5, <2>4 DEF r, f
<1>6. CASE f = 2
  <2>1. r = Bool(Signed(a, XLEN) < Signed(b, XLEN))
    BY <1>6 DEF dispatch_op
  <2> HIDE DEF r
  <2>2. IntOK(2, alt, a, b, r, XLEN)
    BY <1>2, <2>1, IntSlt
  <2> QED
    BY <1>6, <2>2 DEF r, f
<1>7. CASE f = 3
  <2>1. r = Bool(a < b)
    BY <1>7 DEF dispatch_op
  <2> HIDE DEF r
  <2>2. IntOK(3, alt, a, b, r, XLEN)
    BY <2>1, IntSltu
  <2> QED
    BY <1>7, <2>2 DEF r, f
<1>8. CASE f \in {4, 6, 7}
  <2>1. /\ f = 4 => r = BitXor(a, b)
        /\ f = 6 => r = BitOr(a, b)
        /\ f = 7 => r = BitAnd(a, b)
    BY DEF dispatch_op
  <2> HIDE DEF r
  <2>2. /\ IntOK(4, alt, a, b, BitXor(a, b), XLEN)
        /\ IntOK(6, alt, a, b, BitOr(a, b), XLEN)
        /\ IntOK(7, alt, a, b, BitAnd(a, b), XLEN)
    BY <1>2, IntBitwise
  <2> QED
    BY <1>8, <2>1, <2>2, Zenon DEF r, f
<1>9. CASE f = 5 /\ alt
  <2>1. r = Trunc(Signed(a, XLEN) \div 2 ^ s, XLEN)
    BY <1>9 DEF dispatch_op, ByFunct7
  <2> HIDE DEF r
  <2>2. Signed(a, XLEN) \div 2 ^ s \in Int
    BY <1>1, <1>2, <1>3, SignedInt, DivMod
  <2>3. Delivers(r, Signed(a, XLEN) \div 2 ^ s, XLEN)
    BY <2>1, <2>2, TruncDelivers
  <2>4. IntOK(5, TRUE, a, b, r, XLEN)
    BY <1>1, <1>2, <2>3, IntSra
  <2>5. alt = TRUE
    BY <1>9
  <2> QED
    BY <1>9, <2>4, <2>5, Zenon DEF r, f
<1>10. CASE f = 5 /\ ~alt
  <2>1. r = a \div 2 ^ s
    BY <1>10 DEF dispatch_op, ByFunct7
  <2> HIDE DEF r
  <2>2. r \in Word
    BY <1>3, <2>1, ShiftWord
  <2>3. Trunc(a, XLEN) = a
    BY <1>1, <1>2, TruncSmall
  <2>4. Delivers(r, Trunc(a, XLEN) \div 2 ^ s, XLEN)
    BY <2>1, <2>2, <2>3, WordDelivers
  <2>5. IntOK(5, FALSE, a, b, r, XLEN)
    BY <1>1, <1>2, <2>4, IntSrl
  <2>6. alt = FALSE
    BY <1>10
  <2> QED
    BY <1>10, <2>5, <2>6, Zenon DEF r, f
<1> QED
  BY <1>1, <1>4, <1>5, <1>6, <1>7, <1>8, <1>9, <1>10

\* So does op_32.c, sraw apart,
LEMMA Op32Value ==
    ASSUME NEW i, NEW a \in Word, NEW b \in Word, NEW alt \in BOOLEAN, alt <=> funct7(i) = 32,
           funct3(i) \in {0, 1, 5}, funct7(i) = 0 \/ (funct7(i) = 32 /\ funct3(i) = 0)
    PROVE  IntOK(funct3(i), alt, a, b, dispatch_op_32(i, a, b), W)
<1> DEFINE f == funct3(i)
           r == dispatch_op_32(i, a, b)
           s == b % W
           ta == Trunc(a, W)
<1>1. W \in OpWidths /\ W \in Nat /\ W >= 1 /\ W <= XLEN
  BY Widths DEF OpWidths
<1>2. a \in Nat /\ a \in Int /\ b \in Nat /\ b \in Int
  BY WordFacts
<1>3. s \in Nat /\ 2 ^ s \in Nat /\ 2 ^ s >= 1
  BY <1>1, <1>2, ShiftAmount
<1>4. ta \in Int /\ Trunc(ta, W) = ta
  BY <1>1, <1>2, TruncInt, TruncTrunc
<1>5. CASE f = 0
  <2> DEFINE v == IF alt THEN a - b ELSE a + b
  <2>1. r = Extend(v, W)
    <3>1. CASE alt
      BY <1>5, <3>1 DEF dispatch_op_32, ByFunct7
    <3>2. CASE ~alt
      BY <1>5, <3>2 DEF dispatch_op_32, ByFunct7
    <3> QED
      BY <3>1, <3>2
  <2>2. v \in Int
    BY <1>2
  <2>3. Delivers(r, v, W)
    <3> HIDE DEF v, r
    <3> QED
      BY <1>1, <2>1, <2>2, ExtendDelivers
  <2> HIDE DEF r
  <2>4. IntOK(0, alt, a, b, r, W)
    BY <1>1, <1>2, <2>3, IntAdd
  <2> QED
    BY <1>5, <2>4 DEF r, f
<1>6. CASE f = 1
  <2>1. r = Extend(ta * 2 ^ s, W)
    BY <1>6 DEF dispatch_op_32
  <2> HIDE DEF r, ta
  <2>2. ta * 2 ^ s \in Int
    BY <1>3, <1>4
  <2>3. Delivers(r, ta * 2 ^ s, W)
    BY <1>1, <2>1, <2>2, ExtendDelivers
  <2>4. Trunc(ta, W) = Trunc(a, W)
    BY <1>4 DEF ta
  <2>5. IntOK(1, alt, a, b, r, W)
    BY <1>1, <1>2, <1>4, <2>3, <2>4, IntSll
  <2> QED
    BY <1>6, <2>5 DEF r, f
<1>7. CASE f = 5
  <2>0. ~alt
    BY <1>7
  <2>1. r = Extend(ta \div 2 ^ s, W)
    BY <1>7, <2>0 DEF dispatch_op_32, ByFunct7
  <2> HIDE DEF r
  <2>2. ta \div 2 ^ s \in Int
    <3> HIDE DEF ta
    <3> QED
      BY <1>3, <1>4, DivMod
  <2>3. Delivers(r, ta \div 2 ^ s, W)
    <3> HIDE DEF ta
    <3> QED
      BY <1>1, <2>1, <2>2, ExtendDelivers
  <2>4. IntOK(5, FALSE, a, b, r, W)
    BY <1>1, <1>2, <2>3, IntSrl
  <2>5. alt = FALSE
    BY <2>0
  <2> QED
    BY <1>7, <2>4, <2>5, Zenon DEF r, f
<1> QED
  BY <1>5, <1>6, <1>7

\* An immediate and the register it is sign-extended to have the same low bits.
LEMMA IntImm ==
    ASSUME NEW f, NEW alt, NEW a, NEW b \in Int, NEW r, NEW n \in OpWidths, IntOK(f, alt, a, b, r, n)
    PROVE  IntOK(f, alt, a, Trunc(b, XLEN), r, n)
<1>1. Trunc(Trunc(b, XLEN), n) = Trunc(b, n)
  BY WidthFacts, TruncTrunc
<1> QED
  BY <1>1 DEF IntOK

\* and op_imm.c, with the immediate extended to a register,
LEMMA OpImmValue ==
    ASSUME NEW i, NEW a \in Word, NEW alt \in BOOLEAN,
           alt <=> funct3(i) = 5 /\ funct7(i) \in {32, 33},
           funct3(i) = 5 => funct7(i) \in {0, 1, 32, 33}
    PROVE  IntOK(funct3(i), alt, a, Trunc(immI(i), XLEN), dispatch_op_imm(i, a), XLEN)
<1> DEFINE f == funct3(i)
           r == dispatch_op_imm(i, a)
           imm == immI(i)
           s == imm % XLEN
           b == Trunc(imm, XLEN)
<1>1. f \in 0..7 /\ XLEN \in OpWidths /\ XLEN \in Nat /\ XLEN >= 1
  BY FieldTypes, Widths DEF OpWidths
<1>2. a \in Nat /\ a \in Int /\ a < 2 ^ XLEN /\ imm \in Int
  BY WordFacts, ImmediateTypes
<1>3. s \in Nat /\ 2 ^ s \in Nat /\ 2 ^ s >= 1
  BY <1>1, <1>2, ShiftAmount
<1>4. b \in Word /\ b \in Int
  <2>1. b \in Word
    BY <1>2, TruncWord
  <2> QED
    BY <2>1, WordFacts
<1>5. CASE f = 0
  <2> DEFINE v == IF alt THEN a - imm ELSE a + imm
  <2>1. r = Trunc(v, XLEN)
    BY <1>5 DEF dispatch_op_imm
  <2>2. v \in Int
    <3> HIDE DEF imm
    <3> QED
      BY <1>2
  <2>3. Delivers(r, v, XLEN)
    <3> HIDE DEF v, r
    <3> QED
      BY <2>1, <2>2, TruncDelivers
  <2> HIDE DEF r, imm
  <2>4. IntOK(0, alt, a, imm, r, XLEN)
    BY <1>1, <1>2, <2>3, IntAdd
  <2>5. IntOK(0, alt, a, b, r, XLEN)
    BY <1>1, <1>2, <2>4, IntImm
  <2> QED
    BY <1>5, <2>5 DEF r, f, imm
<1>6. CASE f = 1
  <2>1. r = Trunc(a * 2 ^ s, XLEN)
    BY <1>6 DEF dispatch_op_imm
  <2> HIDE DEF r, imm
  <2>2. a * 2 ^ s \in Int
    BY <1>2, <1>3
  <2>3. Delivers(r, a * 2 ^ s, XLEN)
    BY <2>1, <2>2, TruncDelivers
  <2>4. IntOK(1, alt, a, imm, r, XLEN)
    BY <1>1, <1>2, <2>3, IntSll
  <2>5. IntOK(1, alt, a, b, r, XLEN)
    BY <1>1, <1>2, <2>4, IntImm
  <2> QED
    BY <1>6, <2>5 DEF r, f, imm
<1>7. CASE f = 2
  <2>1. r = Bool(Signed(a, XLEN) < Signed(b, XLEN))
    BY <1>7 DEF dispatch_op_imm
  <2> HIDE DEF r, b
  <2>2. IntOK(2, alt, a, b, r, XLEN)
    BY <1>2, <1>4, <2>1, IntSlt
  <2> QED
    BY <1>7, <2>2 DEF r, f, b
<1>8. CASE f = 3
  <2>1. r = Bool(a < b)
    BY <1>8 DEF dispatch_op_imm
  <2> HIDE DEF r, b
  <2>2. IntOK(3, alt, a, b, r, XLEN)
    BY <1>4, <2>1, IntSltu
  <2> QED
    BY <1>8, <2>2 DEF r, f, b
<1>9. CASE f \in {4, 6, 7}
  <2>1. /\ f = 4 => r = BitXor(a, b)
        /\ f = 6 => r = BitOr(a, b)
        /\ f = 7 => r = BitAnd(a, b)
    BY DEF dispatch_op_imm
  <2> HIDE DEF r, b
  <2>2. /\ IntOK(4, alt, a, b, BitXor(a, b), XLEN)
        /\ IntOK(6, alt, a, b, BitOr(a, b), XLEN)
        /\ IntOK(7, alt, a, b, BitAnd(a, b), XLEN)
    BY <1>2, <1>4, IntBitwise
  <2> QED
    BY <1>9, <2>1, <2>2, Zenon DEF r, f, b
<1>10. CASE f = 5 /\ alt
  <2>0. imm \div 64 = 16
    BY <1>10, ImmFunct7
  <2>1. r = Trunc(Signed(a, XLEN) \div 2 ^ s, XLEN)
    BY <1>10, <2>0 DEF dispatch_op_imm, ByImm
  <2> HIDE DEF r, imm
  <2>2. Signed(a, XLEN) \div 2 ^ s \in Int
    BY <1>1, <1>2, <1>3, SignedInt, DivMod
  <2>3. Delivers(r, Signed(a, XLEN) \div 2 ^ s, XLEN)
    BY <2>1, <2>2, TruncDelivers
  <2>4. IntOK(5, TRUE, a, imm, r, XLEN)
    BY <1>1, <1>2, <2>3, IntSra
  <2>5. IntOK(5, TRUE, a, b, r, XLEN)
    BY <1>1, <1>2, <2>4, IntImm
  <2>6. alt = TRUE
    BY <1>10
  <2> QED
    BY <1>10, <2>5, <2>6, Zenon DEF r, f, imm
<1>11. CASE f = 5 /\ ~alt
  <2>0. imm \div 64 = 0
    BY <1>11, ImmFunct7
  <2>1. r = a \div 2 ^ s
    BY <1>11, <2>0 DEF dispatch_op_imm, ByImm
  <2> HIDE DEF r, imm
  <2>2. r \in Word
    BY <1>3, <2>1, ShiftWord
  <2>3. Trunc(a, XLEN) = a
    BY <1>1, <1>2, TruncSmall
  <2>4. Delivers(r, Trunc(a, XLEN) \div 2 ^ s, XLEN)
    BY <2>1, <2>2, <2>3, WordDelivers
  <2>5. IntOK(5, FALSE, a, imm, r, XLEN)
    BY <1>1, <1>2, <2>4, IntSrl
  <2>6. IntOK(5, FALSE, a, b, r, XLEN)
    BY <1>1, <1>2, <2>5, IntImm
  <2>7. alt = FALSE
    BY <1>11
  <2> QED
    BY <1>11, <2>6, <2>7, Zenon DEF r, f, imm
<1> QED
  BY <1>1, <1>5, <1>6, <1>7, <1>8, <1>9, <1>10, <1>11

\* and op_imm_32.c.
LEMMA OpImm32Value ==
    ASSUME NEW i, NEW a \in Word, NEW alt \in BOOLEAN,
           alt <=> funct3(i) = 5 /\ funct7(i) \in {32, 33},
           \/ funct3(i) = 0
           \/ funct3(i) \in {1, 5} /\ funct7(i) = 0
           \/ funct3(i) = 5 /\ funct7(i) = 32
    PROVE  IntOK(funct3(i), alt, a, Trunc(immI(i), XLEN), dispatch_op_imm_32(i, a), W)
<1> DEFINE f == funct3(i)
           r == dispatch_op_imm_32(i, a)
           imm == immI(i)
           s == imm % W
           b == Trunc(imm, XLEN)
           ta == Trunc(a, W)
<1>1. W \in OpWidths /\ W \in Nat /\ W >= 1 /\ W <= XLEN
  BY Widths DEF OpWidths
<1>2. a \in Nat /\ a \in Int /\ imm \in Int
  BY WordFacts, ImmediateTypes
<1>3. s \in Nat /\ 2 ^ s \in Nat /\ 2 ^ s >= 1
  BY <1>1, <1>2, ShiftAmount
<1>4. ta \in Int /\ Trunc(ta, W) = ta
  BY <1>1, <1>2, TruncInt, TruncTrunc
<1>5. CASE f = 0
  <2> DEFINE v == IF alt THEN a - imm ELSE a + imm
  <2>1. r = Extend(v, W)
    BY <1>5 DEF dispatch_op_imm_32
  <2>2. v \in Int
    <3> HIDE DEF imm
    <3> QED
      BY <1>2
  <2>3. Delivers(r, v, W)
    <3> HIDE DEF v, r
    <3> QED
      BY <1>1, <2>1, <2>2, ExtendDelivers
  <2> HIDE DEF r, imm
  <2>4. IntOK(0, alt, a, imm, r, W)
    BY <1>1, <1>2, <2>3, IntAdd
  <2>5. IntOK(0, alt, a, b, r, W)
    BY <1>1, <1>2, <2>4, IntImm
  <2> QED
    BY <1>5, <2>5 DEF r, f, imm
<1>6. CASE f = 1
  <2>1. r = Extend(ta * 2 ^ s, W)
    BY <1>6 DEF dispatch_op_imm_32
  <2> HIDE DEF r, ta, imm
  <2>2. ta * 2 ^ s \in Int
    BY <1>3, <1>4
  <2>3. Delivers(r, ta * 2 ^ s, W)
    BY <1>1, <2>1, <2>2, ExtendDelivers
  <2>4. Trunc(ta, W) = Trunc(a, W)
    BY <1>4 DEF ta
  <2>5. IntOK(1, alt, a, imm, r, W)
    BY <1>1, <1>2, <1>4, <2>3, <2>4, IntSll
  <2>6. IntOK(1, alt, a, b, r, W)
    BY <1>1, <1>2, <2>5, IntImm
  <2> QED
    BY <1>6, <2>6 DEF r, f, imm
<1>7. CASE f = 5 /\ ~alt
  <2>0. imm \div 64 = 0
    BY <1>7, ImmFunct7
  <2>1. r = Extend(ta \div 2 ^ s, W)
    BY <1>7, <2>0 DEF dispatch_op_imm_32, ByImm
  <2> HIDE DEF r, imm
  <2>2. ta \div 2 ^ s \in Int
    <3> HIDE DEF ta
    <3> QED
      BY <1>3, <1>4, DivMod
  <2>3. Delivers(r, ta \div 2 ^ s, W)
    <3> HIDE DEF ta
    <3> QED
      BY <1>1, <2>1, <2>2, ExtendDelivers
  <2>4. IntOK(5, FALSE, a, imm, r, W)
    BY <1>1, <1>2, <2>3, IntSrl
  <2>5. IntOK(5, FALSE, a, b, r, W)
    BY <1>1, <1>2, <2>4, IntImm
  <2>6. alt = FALSE
    BY <1>7
  <2> QED
    BY <1>7, <2>5, <2>6, Zenon DEF r, f, imm
<1>8. CASE f = 5 /\ alt
  <2>0. imm \div 64 = 16
    BY <1>8, ImmFunct7
  <2> DEFINE sa == Signed(a, W)
  <2>1. r = Extend(sa \div 2 ^ s, W)
    BY <1>8, <2>0 DEF dispatch_op_imm_32, ByImm
  <2> HIDE DEF r, imm
  <2>2. sa \div 2 ^ s \in Int
    BY <1>1, <1>2, <1>3, SignedInt, DivMod
  <2>3. Delivers(r, sa \div 2 ^ s, W)
    <3> HIDE DEF sa
    <3> QED
      BY <1>1, <2>1, <2>2, ExtendDelivers
  <2>4. IntOK(5, TRUE, a, imm, r, W)
    BY <1>1, <1>2, <2>3, IntSra
  <2>5. IntOK(5, TRUE, a, b, r, W)
    BY <1>1, <1>2, <2>4, IntImm
  <2>6. alt = TRUE
    BY <1>8
  <2> QED
    BY <1>8, <2>5, <2>6, Zenon DEF r, f, imm
<1> QED
  BY <1>5, <1>6, <1>7, <1>8

---------------------------------------------------------------------------
(* Products and C division.                                                *)

\* Products of numbers that are not negative.
LEMMA ProductGrows ==
    ASSUME NEW x \in Nat, NEW y \in Nat, y >= 1
    PROVE  x * y \in Nat /\ x <= x * y
OBVIOUS

\* Multiplying keeps the order.
LEMMA ProductOrder ==
    ASSUME NEW x \in Int, NEW y \in Int, NEW m \in Nat, x <= y
    PROVE  x * m <= y * m
OBVIOUS

\* The quotient of a number between two multiples of m.
LEMMA DivBetween ==
    ASSUME NEW p \in Int, NEW m \in Nat, m >= 1, NEW low \in Int, NEW high \in Int,
           low * m <= p, p < high * m
    PROVE  p \div m \in Int /\ low <= p \div m /\ p \div m < high
<1> DEFINE q == p \div m
           r == p % m
<1>1. q \in Int /\ r \in Nat /\ r < m /\ p = m * q + r
  BY DivMod
<1> HIDE DEF q, r
<1>2. q < high
  <2> SUFFICES ASSUME high <= q PROVE FALSE
    BY <1>1
  <2>1. high * m <= q * m
    BY <1>1, ProductOrder
  <2> QED
    BY <1>1, <2>1
<1>3. low <= q
  <2> SUFFICES ASSUME q + 1 <= low PROVE FALSE
    BY <1>1
  <2>1. (q + 1) * m <= low * m
    BY <1>1, ProductOrder
  <2>2. (q + 1) * m = m * q + m
    BY <1>1
  <2> QED
    BY <1>1, <2>1, <2>2
<1> QED
  BY <1>1, <1>2, <1>3 DEF q

\* Shifting a product to the right by n gives its upper half.
LEMMA DivHalf ==
    ASSUME NEW p \in Int, NEW n \in Nat
    PROVE  p \div 2 ^ n \in Int /\ UpperHalf(p \div 2 ^ n, p, n)
<1> DEFINE m == 2 ^ n
           q == p \div m
           r == p % m
<1>1. m \in Nat /\ m >= 1
  BY PowPos
<1> HIDE DEF m
<1>2. q \in Int /\ r \in Nat /\ r < m /\ p = m * q + r
  BY <1>1, DivMod
<1> HIDE DEF q, r
<1>3. q * m <= p /\ p < (q + 1) * m
  BY <1>1, <1>2
<1> QED
  BY <1>2, <1>3 DEF UpperHalf, q, m

\* C division.
DivFacts(a, b, q, rem) ==
    /\ q \in Int /\ rem \in Int
    /\ a = b * q + rem
    /\ Abs(rem) < Abs(b)
    /\ rem = 0 \/ (rem < 0) = (a < 0)
    /\ Abs(q) <= Abs(a)
    /\ Abs(q) = Abs(a) /\ a # 0 => b \in {1, -1}
    /\ q > 0 => (a < 0) = (b < 0)

\* C division rounds towards zero: the remainder is smaller than the divisor
\* and has the sign of the dividend.
LEMMA DivFactsHold ==
    ASSUME NEW a \in Int, NEW b \in Int, b # 0
    PROVE  DivFacts(a, b, Div(a, b), Rem(a, b))
<1> DEFINE x == Abs(a)
           y == Abs(b)
           q0 == x \div y
           r0 == x % y
           q == Div(a, b)
           rem == Rem(a, b)
<1>1. x \in Nat /\ y \in Nat /\ y >= 1 /\ x \in Int
  BY DEF Abs
<1>2. /\ a < 0 => x = -a
      /\ a >= 0 => x = a
      /\ b < 0 => y = -b
      /\ b >= 0 => y = b
  BY DEF Abs
<1> HIDE DEF x, y
<1>3. q0 \in Int /\ r0 \in Nat /\ r0 < y /\ x = y * q0 + r0
  BY <1>1, DivMod
<1>4. q = IF (a < 0) = (b < 0) THEN q0 ELSE -q0
  BY DEF Div, x, y
<1>5. rem = a - b * q
  BY DEF Rem
<1> HIDE DEF q0, r0, q, rem
<1>6. q0 \in Nat
  <2> SUFFICES ASSUME q0 + 1 <= 0 PROVE FALSE
    BY <1>3
  <2>1. (q0 + 1) * y <= 0 * y
    BY <1>1, <1>3, ProductOrder
  <2>2. (q0 + 1) * y = y * q0 + y /\ 0 * y = 0
    BY <1>1, <1>3
  <2> QED
    BY <1>1, <1>3, <2>1, <2>2
<1>7. q0 * y \in Nat /\ q0 <= q0 * y /\ q0 * y = y * q0
  BY <1>1, <1>6, ProductGrows
<1>8. q0 <= x
  BY <1>1, <1>3, <1>6, <1>7
<1>9. q0 = x /\ x # 0 => y = 1
  <2> SUFFICES ASSUME q0 = x, x # 0, y - 1 >= 1 PROVE FALSE
    BY <1>1
  <2>1. q0 * (y - 1) \in Nat /\ q0 <= q0 * (y - 1)
    BY <1>1, <1>6, ProductGrows
  <2>2. q0 * (y - 1) = q0 * y - q0
    BY <1>1, <1>6
  <2> QED
    BY <1>1, <1>3, <1>6, <1>7, <2>1, <2>2
<1>10. q \in Int
  BY <1>4, <1>6
<1>11. b * q \in Int /\ b * q = IF a < 0 THEN -(y * q0) ELSE y * q0
  <2>1. CASE a < 0 /\ b < 0
    <3>1. q = q0 /\ b = -y
      BY <1>1, <1>2, <1>4, <2>1
    <3>2. (-y) * q0 = -(y * q0)
      BY <1>1, <1>6
    <3> QED
      BY <1>7, <2>1, <3>1, <3>2
  <2>2. CASE a < 0 /\ b >= 0
    <3>1. q = -q0 /\ b = y
      BY <1>1, <1>2, <1>4, <2>2
    <3>2. y * (-q0) = -(y * q0)
      BY <1>1, <1>6
    <3> QED
      BY <1>7, <2>2, <3>1, <3>2
  <2>3. CASE a >= 0 /\ b < 0
    <3>1. q = -q0 /\ b = -y
      BY <1>1, <1>2, <1>4, <2>3
    <3>2. (-y) * (-q0) = y * q0
      BY <1>1, <1>6
    <3> QED
      BY <1>7, <2>3, <3>1, <3>2
  <2>4. CASE a >= 0 /\ b >= 0
    <3>1. q = q0 /\ b = y
      BY <1>1, <1>2, <1>4, <2>4
    <3> QED
      BY <1>7, <2>4, <3>1
  <2> QED
    BY <2>1, <2>2, <2>3, <2>4
<1> DEFINE p == y * q0
           t == b * q
<1>12. p \in Nat /\ t \in Int /\ t = (IF a < 0 THEN -p ELSE p) /\ x = p + r0 /\ rem = a - t
  BY <1>3, <1>5, <1>7, <1>11
<1> HIDE DEF p, t
<1>13. rem = IF a < 0 THEN -r0 ELSE r0
  BY <1>1, <1>2, <1>3, <1>12
<1>14. rem \in Int /\ a = t + rem /\ Abs(rem) < y /\ (rem = 0 \/ (rem < 0) = (a < 0))
  BY <1>3, <1>12, <1>13 DEF Abs
<1>15. Abs(q) = q0 /\ (q > 0 => (a < 0) = (b < 0))
  BY <1>4, <1>6 DEF Abs
<1>16. y = 1 => b \in {1, -1}
  BY <1>2
<1>17. x = Abs(a) /\ y = Abs(b) /\ (a # 0 => x # 0)
  BY <1>2 DEF x, y
<1>18. Abs(q) <= x /\ (Abs(q) = x /\ a # 0 => b \in {1, -1})
  BY <1>8, <1>9, <1>15, <1>16, <1>17
<1> QED
  BY <1>10, <1>14, <1>15, <1>17, <1>18 DEF DivFacts, q, rem, t

\* 2^n and its half.
LEMMA Halves ==
    ASSUME NEW n \in Nat, n >= 1
    PROVE  /\ 2 ^ n = 2 * 2 ^ (n - 1) /\ 2 ^ n \in Nat /\ 2 ^ n >= 2
           /\ 2 ^ (n - 1) \in Nat /\ 2 ^ (n - 1) >= 1
<1>1. n - 1 \in Nat /\ 2 ^ n = 2 * 2 ^ (n - 1)
  BY PowPred
<1>2. 2 ^ (n - 1) \in Nat /\ 2 ^ (n - 1) >= 1
  BY <1>1, PowPos
<1> DEFINE h == 2 ^ (n - 1)
<1> HIDE DEF h
<1>3. 2 * h \in Nat /\ 2 * h >= 2
  BY <1>2 DEF h
<1> QED
  BY <1>1, <1>2, <1>3 DEF h

\* The value of a truncated number, and that of a delivered one.
LEMMA ValueTrunc ==
    ASSUME NEW x \in Int, NEW n \in Nat, n >= 1
    PROVE  Value(Trunc(x, n), n) = Signed(x, n)
<1> DEFINE t == Trunc(x, n)
<1>1. t \in Int /\ Trunc(t, n) = t
  BY TruncInt, TruncTrunc
<1> HIDE DEF t
<1>2. Value(t, n) = Signed(t, n)
  BY <1>1, ValueSigned
<1> QED
  BY <1>1, <1>2 DEF Signed, t

\* The value of a result that is in the signed range.
LEMMA ValueDelivered ==
    ASSUME NEW n \in Nat, n >= 1, NEW x, SignedRange(x, n), NEW r, Delivers(r, x, n)
    PROVE  Value(Trunc(r, n), n) = x
<1>1. x \in Int
  BY DEF SignedRange
<1>2. Trunc(r, n) = Trunc(x, n)
  BY DEF Delivers
<1>3. Value(Trunc(x, n), n) = Signed(x, n)
  BY <1>1, ValueTrunc
<1>4. Signed(x, n) = x
  BY <1>1, SignedIs
<1> QED
  BY <1>2, <1>3, <1>4

\* A number is 0 modulo 2^n when its value is.
LEMMA SignedZero ==
    ASSUME NEW x \in Int, NEW n \in Nat, n >= 1
    PROVE  Signed(x, n) = 0 <=> Trunc(x, n) = 0
<1> DEFINE s == Signed(x, n)
           m == 2 ^ n
<1>1. SignedRange(s, n) /\ s % m = x % m
  BY SignedType
<1>2. m \in Nat /\ m >= 1
  BY PowPos
<1>3. 0 % m = 0
  BY <1>2, ModSmall
<1>4. SignedRange(0, n)
  BY Halves DEF SignedRange
<1>5. s % m = 0 % m => s = 0
  <2> DEFINE z == 0
  <2>1. SignedRange(z, n)
    BY <1>4
  <2> HIDE DEF z, s
  <2>2. s % m = z % m => s = z
    BY <1>1, <2>1, SignedUnique DEF m
  <2> QED
    BY <2>2 DEF z
<1> HIDE DEF s, m
<1>6. s = 0 <=> x % m = 0
  BY <1>1, <1>3, <1>5
<1> QED
  BY <1>6 DEF s, m, Trunc

\* The product of two signed numbers,
LEMMA SignedProduct ==
    ASSUME NEW h \in Nat, h >= 1, NEW x \in Int, -h <= x, x < h,
           NEW y \in Int, -h <= y, y < h
    PROVE  x * y \in Int /\ -(h * h) <= x * y /\ x * y <= h * h /\ h * h \in Nat
<1>1. x * y \in Int /\ h * h \in Nat
  OBVIOUS
<1>2. -(h * h) <= x * y /\ x * y <= h * h
  <2>1. (h - x) * (h + y) >= 0 /\ (h + x) * (h - y) >= 0 /\ (h - x) * (h - y) >= 0 /\ (h + x) * (h + y) >= 0
    <3>1. h - x \in Nat /\ h + x \in Nat /\ h - y \in Nat /\ h + y \in Nat
      OBVIOUS
    <3>2. \A u, v \in Nat : u * v >= 0
      OBVIOUS
    <3> QED
      BY <3>1, <3>2
  <2>2. /\ (h - x) * (h + y) = h * h + h * y - x * h - x * y
        /\ (h + x) * (h - y) = h * h - h * y + x * h - x * y
        /\ (h - x) * (h - y) = h * h - h * y - x * h + x * y
        /\ (h + x) * (h + y) = h * h + h * y + x * h + x * y
    OBVIOUS
  <2> DEFINE p == x * y
             hh == h * h
             hy == h * y
             xh == x * h
  <2>3. p \in Int /\ hh \in Int /\ hy \in Int /\ xh \in Int
    OBVIOUS
  <2>4. /\ hh + hy - xh - p >= 0 /\ hh - hy + xh - p >= 0
        /\ hh - hy - xh + p >= 0 /\ hh + hy + xh + p >= 0
    BY <2>1, <2>2
  <2> HIDE DEF p, hh, hy, xh
  <2>5. -hh <= p /\ p <= hh
    BY <2>3, <2>4
  <2> QED
    BY <2>5 DEF p, hh
<1> QED
  BY <1>1, <1>2

\* and that of a signed and an unsigned one.
LEMMA MixedProduct ==
    ASSUME NEW h \in Nat, h >= 1, NEW m \in Nat, m >= 1, NEW x \in Int, -h <= x, x < h,
           NEW y \in Nat, y < m
    PROVE  x * y \in Int /\ (-h) * m <= x * y /\ x * y < h * m
<1>1. x * y \in Int
  OBVIOUS
<1>2. (-h) * y <= x * y /\ x * y <= h * y
  BY ProductOrder
<1>3. h * y <= h * m - h
  <2>1. y * h <= (m - 1) * h
    BY ProductOrder
  <2>2. y * h = h * y /\ (m - 1) * h = h * m - h
    OBVIOUS
  <2> QED
    BY <2>1, <2>2
<1>4. (-h) * y = -(h * y) /\ (-h) * m = -(h * m) /\ h * y \in Int /\ h * m \in Int
  OBVIOUS
<1> QED
  BY <1>1, <1>2, <1>3, <1>4

\* The upper half of a product is in the signed range.
LEMMA HighRange ==
    ASSUME NEW n \in Nat, n >= 1, NEW p \in Int,
           (-(2 ^ (n - 1))) * 2 ^ n <= p, p < 2 ^ (n - 1) * 2 ^ n
    PROVE  SignedRange(p \div 2 ^ n, n)
<1> DEFINE h == 2 ^ (n - 1)
           m == 2 ^ n
<1>1. h \in Int /\ -h \in Int /\ m \in Nat /\ m >= 1
  BY Halves
<1> HIDE DEF h, m
<1>2. p \div m \in Int /\ -h <= p \div m /\ p \div m < h
  BY <1>1, DivBetween DEF h, m
<1> QED
  BY <1>2 DEF SignedRange, h, m

\* The upper halves of the three products fit the register.
LEMMA HighHalves ==
    ASSUME NEW n \in Nat, n >= 1, NEW x, SignedRange(x, n), NEW y, SignedRange(y, n),
           NEW u \in Nat, u < 2 ^ n, NEW v \in Nat, v < 2 ^ n
    PROVE  /\ SignedRange((x * y) \div 2 ^ n, n)
           /\ SignedRange((x * u) \div 2 ^ n, n)
           /\ (u * v) \div 2 ^ n \in Nat /\ (u * v) \div 2 ^ n < 2 ^ n
<1> DEFINE h == 2 ^ (n - 1)
           m == 2 ^ n
<1>1. h \in Nat /\ h >= 1 /\ m = 2 * h /\ m \in Nat /\ m >= 2
  BY Halves
<1>2. x \in Int /\ -h <= x /\ x < h /\ y \in Int /\ -h <= y /\ y < h
  BY DEF SignedRange
<1>3. u < m /\ v < m
  OBVIOUS
<1> HIDE DEF h, m
<1>4. x * y \in Int /\ (-h) * m <= x * y /\ x * y < h * m
  <2>1. x * y \in Int /\ -(h * h) <= x * y /\ x * y <= h * h /\ h * h \in Nat
    BY <1>1, <1>2, SignedProduct
  <2>2. h * m = h * h + h * h /\ (-h) * m = -(h * h + h * h)
    BY <1>1
  <2>3. h * h >= 1
    BY <1>1, ProductGrows
  <2> QED
    BY <2>1, <2>2, <2>3
<1>5. x * u \in Int /\ (-h) * m <= x * u /\ x * u < h * m
  <2>1. m >= 1
    BY <1>1
  <2> QED
    BY <1>1, <1>2, <1>3, <2>1, MixedProduct
<1>6. u * v \in Int /\ 0 * m <= u * v /\ u * v < m * m
  <2>1. u * v \in Nat /\ 0 * m = 0
    BY <1>1
  <2>2. -m <= u /\ m >= 1
    BY <1>1
  <2>3. u * v < m * m
    BY <1>1, <1>3, <2>2, MixedProduct
  <2> QED
    BY <2>1, <2>3
<1>7. SignedRange((x * y) \div 2 ^ n, n)
  BY <1>4, HighRange DEF h, m
<1>8. SignedRange((x * u) \div 2 ^ n, n)
  BY <1>5, HighRange DEF h, m
<1>9. (u * v) \div m \in Int /\ 0 <= (u * v) \div m /\ (u * v) \div m < m
  <2> DEFINE z == 0
             p == u * v
  <2>1. m >= 1 /\ m \in Int /\ z \in Int /\ z * m <= p /\ p < m * m /\ p \in Int
    BY <1>1, <1>6
  <2> HIDE DEF z, p
  <2>2. p \div m \in Int /\ z <= p \div m /\ p \div m < m
    BY <1>1, <2>1, DivBetween
  <2> QED
    BY <2>2 DEF z, p
<1> QED
  BY <1>7, <1>8, <1>9 DEF m

\* A quotient that does not overflow, and every remainder, fit the register.
LEMMA DivRange ==
    ASSUME NEW n \in Nat, n >= 1, NEW x, SignedRange(x, n), NEW y, SignedRange(y, n), y # 0
    PROVE  /\ ~(x = -(2 ^ (n - 1)) /\ y = -1) => SignedRange(Div(x, y), n)
           /\ SignedRange(Rem(x, y), n)
<1> DEFINE h == 2 ^ (n - 1)
           q == Div(x, y)
           rem == Rem(x, y)
<1>1. h \in Nat /\ h >= 1
  BY Halves
<1>2. x \in Int /\ -h <= x /\ x < h /\ y \in Int /\ -h <= y /\ y < h
  BY DEF SignedRange
<1>3. DivFacts(x, y, q, rem)
  BY <1>2, DivFactsHold
<1> HIDE DEF h, q, rem
<1>4. rem \in Int /\ -h <= rem /\ rem < h
  BY <1>1, <1>2, <1>3 DEF DivFacts, Abs
<1>5. ~(x = -h /\ y = -1) => q \in Int /\ -h <= q /\ q < h
  <2>1. q \in Int /\ -h <= q /\ q <= h
    BY <1>1, <1>2, <1>3 DEF DivFacts, Abs
  <2>2. q = h => x = -h /\ y = -1
    <3> SUFFICES ASSUME q = h PROVE x = -h /\ y = -1
      OBVIOUS
    <3>1. Abs(q) = h /\ q > 0
      BY <1>1 DEF Abs
    <3>2. x = -h /\ Abs(x) = h
      BY <1>1, <1>2, <1>3, <3>1 DEF DivFacts, Abs
    <3>3. y \in {1, -1} /\ y < 0
      BY <1>1, <1>3, <3>1, <3>2 DEF DivFacts
    <3> QED
      BY <3>2, <3>3
  <2> QED
    BY <1>1, <2>1, <2>2
<1> QED
  BY <1>4, <1>5 DEF SignedRange, h, q, rem

---------------------------------------------------------------------------
(* The instructions of m_extension.c.                                      *)

\* r is what an instruction of m_extension.c of width n leaves in rd.
MulOK(f3, a, b, r, n) ==
    /\ r \in Word
    /\ MulDivResult(f3, Trunc(a, n), Trunc(b, n), Trunc(r, n), n)
    /\ SignFilled(r, n)

\* The branches of MulDivResult.
LEMMA MulBranches ==
    ASSUME NEW a, NEW b, NEW r, NEW n
    PROVE  /\ MulDivResult(0, a, b, r, n) <=> Congruent(r, a * b, n)
           /\ MulDivResult(1, a, b, r, n) <=> UpperHalf(Value(r, n), Value(a, n) * Value(b, n), n)
           /\ MulDivResult(2, a, b, r, n) <=> UpperHalf(Value(r, n), Value(a, n) * b, n)
           /\ MulDivResult(3, a, b, r, n) <=> UpperHalf(r, a * b, n)
           /\ MulDivResult(4, a, b, r, n) <=>
                 IF b = 0 THEN Value(r, n) = -1
                 ELSE IF Value(a, n) = -(2 ^ (n - 1)) /\ Value(b, n) = -1
                 THEN Value(r, n) = -(2 ^ (n - 1))
                 ELSE Quotient(Value(r, n), Value(a, n), Value(b, n))
           /\ MulDivResult(5, a, b, r, n) <=> IF b = 0 THEN r = 2 ^ n - 1 ELSE Quotient(r, a, b)
           /\ MulDivResult(6, a, b, r, n) <=>
                 IF b = 0 THEN r = a
                 ELSE /\ Abs(Value(r, n)) < Abs(Value(b, n))
                      /\ Value(r, n) = 0 \/ (Value(r, n) < 0) = (Value(a, n) < 0)
                      /\ Divides(Value(b, n), Value(a, n) - Value(r, n))
           /\ MulDivResult(7, a, b, r, n) <=>
                 IF b = 0 THEN r = a ELSE r < b /\ Divides(b, a - r)
<1>1. MulDivResult(0, a, b, r, n) <=> Congruent(r, a * b, n)
  BY DEF MulDivResult
<1>2. MulDivResult(1, a, b, r, n) <=> UpperHalf(Value(r, n), Value(a, n) * Value(b, n), n)
  BY DEF MulDivResult
<1>3. MulDivResult(2, a, b, r, n) <=> UpperHalf(Value(r, n), Value(a, n) * b, n)
  BY DEF MulDivResult
<1>4. MulDivResult(3, a, b, r, n) <=> UpperHalf(r, a * b, n)
  BY DEF MulDivResult
<1>5. MulDivResult(4, a, b, r, n) <=>
                 IF b = 0 THEN Value(r, n) = -1
                 ELSE IF Value(a, n) = -(2 ^ (n - 1)) /\ Value(b, n) = -1
                 THEN Value(r, n) = -(2 ^ (n - 1))
                 ELSE Quotient(Value(r, n), Value(a, n), Value(b, n))
  BY DEF MulDivResult
<1>6. MulDivResult(5, a, b, r, n) <=> IF b = 0 THEN r = 2 ^ n - 1 ELSE Quotient(r, a, b)
  BY DEF MulDivResult
<1>7. MulDivResult(6, a, b, r, n) <=>
                 IF b = 0 THEN r = a
                 ELSE /\ Abs(Value(r, n)) < Abs(Value(b, n))
                      /\ Value(r, n) = 0 \/ (Value(r, n) < 0) = (Value(a, n) < 0)
                      /\ Divides(Value(b, n), Value(a, n) - Value(r, n))
  BY DEF MulDivResult
<1>8. MulDivResult(7, a, b, r, n) <=>
                 IF b = 0 THEN r = a ELSE r < b /\ Divides(b, a - r)
  BY DEF MulDivResult
<1> QED
  BY <1>1, <1>2, <1>3, <1>4, <1>5, <1>6, <1>7, <1>8, Zenon

\* mul and mulw.
LEMMA MulLow ==
    ASSUME NEW n \in OpWidths, NEW a \in Int, NEW b \in Int, NEW x \in Int, NEW y \in Int, NEW r,
           Trunc(x, n) = Trunc(a, n), Trunc(y, n) = Trunc(b, n), Delivers(r, x * y, n)
    PROVE  MulOK(0, a, b, r, n)
<1> DEFINE A == Trunc(a, n)
           B == Trunc(b, n)
           R == Trunc(r, n)
           p == x * y
<1>1. n \in Nat /\ p \in Int
  BY WidthFacts
<1>2. Trunc(A * B, n) = Trunc(p, n)
  <2>1. Trunc(Trunc(x, n) * Trunc(y, n), n) = Trunc(p, n)
    BY <1>1, TruncMul
  <2> QED
    BY <2>1
<1>3. R = Trunc(p, n) /\ r \in Word /\ SignFilled(r, n)
  BY DEF Delivers
<1>4. A * B \in Int
  <2>1. A \in Int /\ B \in Int
    BY <1>1, TruncInt
  <2> HIDE DEF A, B
  <2> QED
    BY <2>1
<1> HIDE DEF p
<1>5. R \in Int /\ Trunc(R, n) = Trunc(p, n)
  BY <1>1, <1>3, TruncInt, TruncTrunc
<1> HIDE DEF A, B, R
<1>6. Congruent(R, A * B, n)
  <2> DEFINE q == A * B
  <2>1. q \in Int /\ Trunc(R, n) = Trunc(q, n)
    BY <1>2, <1>4, <1>5
  <2> HIDE DEF q
  <2>2. Congruent(R, q, n)
    BY <1>1, <1>5, <2>1, SameTrunc
  <2> QED
    BY <2>2 DEF q
<1>7. MulDivResult(0, A, B, R, n)
  BY <1>6, MulBranches, Zenon
<1> QED
  BY <1>3, <1>7 DEF MulOK, A, B, R

\* mulh, mulhsu and mulhu.
LEMMA MulHigh ==
    ASSUME NEW a \in Word, NEW b \in Word
    PROVE  /\ MulOK(1, a, b, Trunc((Signed(a, XLEN) * Signed(b, XLEN)) \div 2 ^ XLEN, XLEN), XLEN)
           /\ MulOK(2, a, b, Trunc((Signed(a, XLEN) * b) \div 2 ^ XLEN, XLEN), XLEN)
           /\ MulOK(3, a, b, Trunc((a * b) \div 2 ^ XLEN, XLEN), XLEN)
<1> DEFINE n == XLEN
           sa == Signed(a, n)
           sb == Signed(b, n)
           m == 2 ^ n
<1>1. n \in Nat /\ n >= 1 /\ a \in Nat /\ b \in Nat /\ a < m /\ b < m /\ a \in Int /\ b \in Int
  BY Widths, WordFacts
<1>2. SignedRange(sa, n) /\ SignedRange(sb, n)
  BY <1>1, SignedType
<1>3. sa \in Int /\ sb \in Int
  BY <1>2 DEF SignedRange
<1>4. Trunc(a, n) = a /\ Trunc(b, n) = b /\ Value(a, n) = sa /\ Value(b, n) = sb
  BY <1>1, TruncSmall, ValueSigned
<1>5. /\ SignedRange((sa * sb) \div m, n)
      /\ SignedRange((sa * b) \div m, n)
      /\ (a * b) \div m \in Nat /\ (a * b) \div m < m
  <2> HIDE DEF n, sa, sb
  <2> QED
    BY <1>1, <1>2, HighHalves
<1>6. \A x : SignedRange(x, n) => Delivers(Trunc(x, n), x, n) /\ Value(Trunc(Trunc(x, n), n), n) = x
  <2> SUFFICES ASSUME NEW x, SignedRange(x, n)
               PROVE  Delivers(Trunc(x, n), x, n) /\ Value(Trunc(Trunc(x, n), n), n) = x
    OBVIOUS
  <2>1. x \in Int
    BY DEF SignedRange
  <2>2. Delivers(Trunc(x, n), x, n)
    BY <2>1, TruncDelivers
  <2> HIDE DEF n
  <2> QED
    BY <1>1, <2>2, ValueDelivered
<1> HIDE DEF n, sa, sb
<1>7. /\ UpperHalf((sa * sb) \div m, sa * sb, n)
      /\ UpperHalf((sa * b) \div m, sa * b, n)
      /\ UpperHalf((a * b) \div m, a * b, n)
  <2>1. sa * sb \in Int /\ sa * b \in Int /\ a * b \in Int
    BY <1>1, <1>3
  <2> QED
    BY <1>1, <2>1, DivHalf
<1> HIDE DEF m
<1>8. ASSUME NEW x, SignedRange(x, n), UpperHalf(x, sa * sb, n)
      PROVE  MulOK(1, a, b, Trunc(x, n), n)
  <2> DEFINE r == Trunc(x, n)
             R == Trunc(r, n)
  <2>1. Delivers(r, x, n) /\ Value(R, n) = x
    BY <1>6, <1>8
  <2> HIDE DEF r, R
  <2>2. MulDivResult(1, a, b, R, n)
    BY <1>4, <1>8, <2>1, MulBranches, Zenon
  <2> QED
    BY <1>4, <2>1, <2>2 DEF MulOK, Delivers, r, R
<1>9. ASSUME NEW x, SignedRange(x, n), UpperHalf(x, sa * b, n)
      PROVE  MulOK(2, a, b, Trunc(x, n), n)
  <2> DEFINE r == Trunc(x, n)
             R == Trunc(r, n)
  <2>1. Delivers(r, x, n) /\ Value(R, n) = x
    BY <1>6, <1>9
  <2> HIDE DEF r, R
  <2>2. MulDivResult(2, a, b, R, n)
    BY <1>4, <1>9, <2>1, MulBranches, Zenon
  <2> QED
    BY <1>4, <2>1, <2>2 DEF MulOK, Delivers, r, R
<1>10. ASSUME NEW x \in Nat, x < m, UpperHalf(x, a * b, n)
       PROVE  MulOK(3, a, b, Trunc(x, n), n)
  <2> DEFINE r == Trunc(x, n)
  <2>1. r = x
    BY <1>1, <1>10, TruncSmall DEF m
  <2>2. Delivers(r, x, n)
    BY <1>10, TruncDelivers DEF n
  <2> HIDE DEF r
  <2>3. Trunc(r, n) = r
    BY <2>1 DEF r
  <2>4. MulDivResult(3, a, b, r, n)
    BY <1>10, <2>1, MulBranches, Zenon
  <2> QED
    BY <1>4, <2>2, <2>3, <2>4 DEF MulOK, Delivers, r
<1>11. /\ MulOK(1, a, b, Trunc((sa * sb) \div m, n), n)
       /\ MulOK(2, a, b, Trunc((sa * b) \div m, n), n)
       /\ MulOK(3, a, b, Trunc((a * b) \div m, n), n)
  BY <1>5, <1>7, <1>8, <1>9, <1>10
<1> QED
  BY <1>11 DEF n, sa, sb, m

\* A multiple is divided without a remainder.
LEMMA Multiple ==
    ASSUME NEW b \in Int, b # 0, NEW q \in Int
    PROVE  Divides(b, b * q)
<1> DEFINE y == Abs(b)
           k == IF b < 0 THEN -q ELSE q
<1>1. y \in Nat /\ y >= 1 /\ k \in Int
  BY DEF Abs
<1>2. b * q = k * y
  <2>1. CASE b < 0
    <3>1. y = -b /\ k = -q
      BY <2>1 DEF Abs
    <3>2. b * q = (-q) * (-b)
      OBVIOUS
    <3> QED
      BY <3>1, <3>2
  <2>2. CASE b >= 0
    <3>1. y = b /\ k = q
      BY <2>2 DEF Abs
    <3>2. b * q = q * b
      OBVIOUS
    <3> QED
      BY <3>1, <3>2
  <2> QED
    BY <2>1, <2>2
<1> HIDE DEF y, k
<1>3. (k * y) % y = 0
  BY <1>1, MulDivCancel
<1> QED
  BY <1>2, <1>3 DEF Divides, y

\* All bits set: -1, or the largest number.
LEMMA AllOnes ==
    ASSUME NEW n \in OpWidths
    PROVE  /\ Delivers(2 ^ XLEN - 1, -1, n)
           /\ Trunc(2 ^ XLEN - 1, n) = 2 ^ n - 1
           /\ SignedRange(-1, n)
<1> DEFINE r == 2 ^ XLEN - 1
           x == -1
           m == 2 ^ n
           M == 2 ^ XLEN
<1>1. n \in Nat /\ n >= 1 /\ n <= XLEN /\ XLEN \in Nat /\ XLEN >= 1 /\ x \in Int /\ XLEN <= XLEN
  BY WidthFacts
<1>2. m \in Nat /\ m >= 2 /\ M \in Nat /\ M >= 2
  BY <1>1, Halves
<1>3. SignedRange(x, n) /\ SignedRange(x, XLEN)
  BY <1>1, Halves DEF SignedRange
<1>4. Trunc(x, n) = m - 1 /\ Trunc(x, XLEN) = r
  <2> HIDE DEF m, M
  <2>1. x = m * (-1) + (m - 1) /\ x = M * (-1) + (M - 1) /\ m - 1 \in Nat /\ M - 1 \in Nat /\ x \in Int
    BY <1>2
  <2> DEFINE r1 == m - 1
             r2 == M - 1
             q == -1
  <2>2. r1 \in Nat /\ r1 < m /\ r2 \in Nat /\ r2 < M /\ q \in Int /\ x = m * q + r1 /\ x = M * q + r2 /\ m >= 1 /\ M >= 1
    BY <1>2, <2>1
  <2> HIDE DEF r1, r2, q, x
  <2>3. x % m = r1 /\ x % M = r2
    BY <1>1, <1>2, <2>2, DivModUnique
  <2> QED
    BY <2>3 DEF r1, r2, Trunc, m, M
<1>5. Signed(x, n) = x
  <2> HIDE DEF x
  <2> QED
    BY <1>1, <1>3, SignedIs
<1>6. Extend(x, n) = r
  BY <1>4, <1>5 DEF Extend
<1>7. Delivers(Extend(x, n), x, n)
  <2> HIDE DEF x
  <2> QED
    BY <1>1, ExtendDelivers
<1>8. Trunc(r, n) = Trunc(x, n)
  BY <1>6, <1>7 DEF Delivers
<1> QED
  BY <1>3, <1>4, <1>6, <1>7, <1>8

\* div and divw, with division by zero and the division that overflows.
LEMMA DivSigned ==
    ASSUME NEW n \in OpWidths, NEW a \in Int, NEW b \in Int, NEW r,
           NEW sa, sa = Signed(a, n), NEW sb, sb = Signed(b, n),
           NEW overflow \in BOOLEAN, overflow <=> sa = -(2 ^ (n - 1)) /\ sb = -1,
           IF overflow THEN Delivers(r, sa, n)
           ELSE IF sb = 0 THEN r = 2 ^ XLEN - 1 ELSE Delivers(r, Div(sa, sb), n)
    PROVE  MulOK(4, a, b, r, n)
<1> DEFINE A == Trunc(a, n)
           B == Trunc(b, n)
           R == Trunc(r, n)
           low == -(2 ^ (n - 1))
<1>1. n \in Nat /\ n >= 1
  BY WidthFacts
<1>2. SignedRange(sa, n) /\ SignedRange(sb, n) /\ sa \in Int /\ sb \in Int
  BY <1>1, SignedType DEF SignedRange
<1>3. Value(A, n) = sa /\ Value(B, n) = sb /\ (B = 0 <=> sb = 0)
  BY <1>1, ValueTrunc, SignedZero
<1> HIDE DEF A, B
<1>4. CASE overflow
  <2>1. sb # 0 /\ sa = low /\ sb = -1
    BY <1>4
  <2>2. Value(R, n) = low
    BY <1>1, <1>2, <1>4, <2>1, ValueDelivered
  <2> HIDE DEF R
  <2>3. MulDivResult(4, A, B, R, n)
    BY <1>3, <2>1, <2>2, MulBranches, Zenon
  <2> QED
    BY <1>4, <2>3 DEF MulOK, Delivers, A, B, R
<1>5. CASE ~overflow /\ sb = 0
  <2> DEFINE x == -1
  <2>1. Delivers(r, x, n) /\ SignedRange(x, n)
    BY <1>5, AllOnes
  <2> HIDE DEF x
  <2>2. Value(R, n) = x
    BY <1>1, <2>1, ValueDelivered
  <2> HIDE DEF R
  <2>3. MulDivResult(4, A, B, R, n)
    BY <1>3, <1>5, <2>2, MulBranches, Zenon DEF x
  <2> QED
    BY <2>1, <2>3 DEF MulOK, Delivers, A, B, R
<1>6. CASE ~overflow /\ sb # 0
  <2> DEFINE q == Div(sa, sb)
             rem == Rem(sa, sb)
  <2>1. DivFacts(sa, sb, q, rem) /\ SignedRange(q, n)
    BY <1>1, <1>2, <1>6, DivFactsHold, DivRange
  <2>2. Delivers(r, q, n)
    BY <1>6
  <2>3. Value(R, n) = q
    BY <1>1, <2>1, <2>2, ValueDelivered
  <2> HIDE DEF q, rem, R
  <2>4. Quotient(q, sa, sb)
    <3>1. sa - q * sb = rem
      <4>1. q * sb = sb * q /\ sb * q \in Int
        BY <1>2, <2>1 DEF DivFacts
      <4> DEFINE t == sb * q
      <4>2. t \in Int /\ sa = t + rem /\ q * sb = t /\ rem \in Int
        BY <2>1, <4>1 DEF DivFacts
      <4> HIDE DEF t
      <4> QED
        BY <1>2, <4>2
    <3>2. Abs(rem) < Abs(sb) /\ (rem = 0 \/ (rem < 0) = (sa < 0))
      BY <2>1 DEF DivFacts
    <3> QED
      BY <3>1, <3>2, Zenon DEF Quotient
  <2>5. MulDivResult(4, A, B, R, n)
    BY <1>3, <1>6, <2>3, <2>4, MulBranches, Zenon
  <2> QED
    BY <2>2, <2>5 DEF MulOK, Delivers, A, B, R
<1> QED
  BY <1>4, <1>5, <1>6

\* rem and remw, with the same two cases.
LEMMA RemSigned ==
    ASSUME NEW n \in OpWidths, NEW a \in Int, NEW b \in Int, NEW r,
           NEW sa, sa = Signed(a, n), NEW sb, sb = Signed(b, n),
           NEW overflow \in BOOLEAN, overflow <=> sa = -(2 ^ (n - 1)) /\ sb = -1,
           IF overflow THEN r = 0
           ELSE IF sb = 0 THEN Delivers(r, a, n) ELSE Delivers(r, Rem(sa, sb), n)
    PROVE  MulOK(6, a, b, r, n)
<1> DEFINE A == Trunc(a, n)
           B == Trunc(b, n)
           R == Trunc(r, n)
           sr == Value(R, n)
<1>1. n \in Nat /\ n >= 1 /\ n <= XLEN
  BY WidthFacts
<1>2. SignedRange(sa, n) /\ SignedRange(sb, n) /\ sa \in Int /\ sb \in Int
  BY <1>1, SignedType DEF SignedRange
<1>3. Value(A, n) = sa /\ Value(B, n) = sb /\ (B = 0 <=> sb = 0)
  BY <1>1, ValueTrunc, SignedZero
<1> HIDE DEF A, B
<1>4. CASE overflow
  <2> DEFINE z == 0
  <2>1. sb # 0 /\ sb = -1
    BY <1>4
  <2>2. Delivers(r, z, n) /\ SignedRange(z, n) /\ z = 0
    <3>1. Extend(0, n) = 0
      BY <1>1, ExtendZero
    <3>2. Delivers(Extend(z, n), z, n)
      <4>1. z \in Int
        OBVIOUS
      <4> HIDE DEF z
      <4> QED
        BY <1>1, <4>1, ExtendDelivers
    <3> QED
      BY <1>1, <1>4, <3>1, <3>2, Halves DEF SignedRange
  <2> HIDE DEF z
  <2>3. sr = 0
    BY <1>1, <2>2, ValueDelivered
  <2>4. Abs(0) < Abs(sb) /\ Divides(sb, sa - 0)
    <3>1. Abs(0) = 0 /\ Abs(sb) = 1
      <4>1. Abs(0) = 0
        BY DEF Abs
      <4>2. sb + 1 = 0 /\ sb \in Int
        BY <1>2, <2>1
      <4>3. Abs(sb) = 1
        BY <4>2 DEF Abs
      <4> QED
        BY <4>1, <4>3
    <3>2. sa - 0 = sb * (-sa) /\ -sa \in Int
      BY <1>2, <2>1
    <3>3. Divides(sb, sb * (-sa))
      BY <1>2, <2>1, <3>2, Multiple
    <3>4. Abs(0) < Abs(sb)
      BY <3>1
    <3>5. Divides(sb, sa - 0)
      BY <3>2, <3>3, Zenon
    <3> QED
      BY <3>4, <3>5
  <2> HIDE DEF R, sr
  <2>5. MulDivResult(6, A, B, R, n)
    BY <1>3, <2>1, <2>3, <2>4, MulBranches, Zenon DEF sr
  <2> QED
    BY <2>2, <2>5 DEF MulOK, Delivers, A, B, R
<1>5. CASE ~overflow /\ sb = 0
  <2>1. R = A
    BY <1>5 DEF Delivers, A
  <2> HIDE DEF R, sr
  <2>2. MulDivResult(6, A, B, R, n)
    BY <1>3, <1>5, <2>1, MulBranches, Zenon
  <2> QED
    BY <1>5, <2>2 DEF MulOK, Delivers, A, B, R
<1>6. CASE ~overflow /\ sb # 0
  <2> DEFINE q == Div(sa, sb)
             rem == Rem(sa, sb)
  <2>1. DivFacts(sa, sb, q, rem) /\ SignedRange(rem, n)
    BY <1>1, <1>2, <1>6, DivFactsHold, DivRange
  <2>2. Delivers(r, rem, n)
    BY <1>6
  <2>3. sr = rem
    BY <1>1, <2>1, <2>2, ValueDelivered
  <2> HIDE DEF q, rem, R, sr
  <2>4. Divides(sb, sa - rem)
    <3>1. Divides(sb, sb * q) /\ sb * q \in Int
      BY <1>2, <1>6, <2>1, Multiple DEF DivFacts
    <3> DEFINE t == sb * q
    <3>2. t \in Int /\ sa = t + rem /\ rem \in Int /\ Divides(sb, t)
      BY <2>1, <3>1 DEF DivFacts
    <3> HIDE DEF t
    <3>3. sa - rem = t
      BY <3>2
    <3> QED
      BY <3>2, <3>3
  <2>5. Abs(rem) < Abs(sb) /\ (rem = 0 \/ (rem < 0) = (sa < 0))
    BY <2>1 DEF DivFacts
  <2>6. MulDivResult(6, A, B, R, n)
    BY <1>3, <1>6, <2>3, <2>4, <2>5, MulBranches, Zenon DEF sr
  <2> QED
    BY <2>2, <2>6 DEF MulOK, Delivers, A, B, R
<1> QED
  BY <1>4, <1>5, <1>6

\* The unsigned quotient and remainder of numbers of n bits.
LEMMA UnsignedFacts ==
    ASSUME NEW n \in Nat, NEW a \in Nat, a < 2 ^ n, NEW b \in Nat, b # 0
    PROVE  /\ a \div b \in Nat /\ a \div b < 2 ^ n /\ Quotient(a \div b, a, b)
           /\ a % b \in Nat /\ a % b < 2 ^ n /\ a % b < b /\ Divides(b, a - (a % b))
<1> DEFINE m == 2 ^ n
           q == a \div b
           r == a % b
<1>1. m \in Nat /\ a < m /\ b >= 1 /\ b \in Int /\ a \in Int
  BY PowPos
<1> HIDE DEF m
<1>2. q \in Int /\ r \in Nat /\ r < b /\ a = b * q + r
  BY <1>1, DivMod
<1> HIDE DEF q, r
<1>3. q \in Nat
  <2> SUFFICES ASSUME q + 1 <= 0 PROVE FALSE
    BY <1>2
  <2>1. (q + 1) * b <= 0 * b
    BY <1>1, <1>2, ProductOrder
  <2>2. (q + 1) * b = b * q + b /\ 0 * b = 0
    BY <1>1, <1>2
  <2> QED
    BY <1>1, <1>2, <2>1, <2>2
<1>4. q * b \in Nat /\ q <= q * b /\ q * b = b * q
  BY <1>1, <1>3, ProductGrows
<1> DEFINE t == b * q
<1>5. t \in Nat /\ q <= t /\ a = t + r /\ q * b = t
  BY <1>2, <1>4
<1>6. Divides(b, t)
  BY <1>1, <1>2, Multiple
<1> HIDE DEF t
<1>7. q < m /\ r < m /\ a - r = t /\ a - q * b = r
  BY <1>1, <1>2, <1>3, <1>5
<1>8. Abs(r) < Abs(b) /\ (r = 0 \/ (r < 0) = (a < 0))
  BY <1>1, <1>2 DEF Abs
<1>9. Quotient(q, a, b)
  BY <1>7, <1>8, Zenon DEF Quotient
<1> QED
  BY <1>2, <1>3, <1>6, <1>7, <1>9 DEF q, r, m

\* divu and divuw.
LEMMA DivUnsigned ==
    ASSUME NEW n \in OpWidths, NEW a \in Int, NEW b \in Int, NEW r,
           IF Trunc(b, n) = 0 THEN r = 2 ^ XLEN - 1
                              ELSE Delivers(r, Trunc(a, n) \div Trunc(b, n), n)
    PROVE  MulOK(5, a, b, r, n)
<1> DEFINE A == Trunc(a, n)
           B == Trunc(b, n)
           R == Trunc(r, n)
<1>1. n \in Nat
  BY WidthFacts
<1>2. A \in Nat /\ A < 2 ^ n /\ B \in Nat
  BY <1>1, TruncType
<1>3. IF B = 0 THEN r = 2 ^ XLEN - 1 ELSE Delivers(r, A \div B, n)
  OBVIOUS
<1> HIDE DEF A, B
<1>4. CASE B = 0
  <2>1. r \in Word /\ SignFilled(r, n) /\ R = 2 ^ n - 1
    BY <1>3, <1>4, AllOnes DEF Delivers
  <2> HIDE DEF R
  <2>2. MulDivResult(5, A, B, R, n)
    <3> DEFINE most == 2 ^ n - 1
    <3>1. MulDivResult(5, A, B, R, n) <=> IF B = 0 THEN R = most ELSE Quotient(R, A, B)
      BY MulBranches, Zenon
    <3> QED
      BY <1>4, <2>1, <3>1
  <2> QED
    BY <2>1, <2>2 DEF MulOK, A, B, R
<1>5. CASE B # 0
  <2> DEFINE q == A \div B
  <2>1. q \in Nat /\ q < 2 ^ n /\ Quotient(q, A, B)
    BY <1>1, <1>2, <1>5, UnsignedFacts
  <2>2. Delivers(r, q, n)
    BY <1>3, <1>5
  <2> HIDE DEF q
  <2>3. R = q
    BY <1>1, <2>1, <2>2, TruncSmall DEF Delivers
  <2> HIDE DEF R
  <2>4. MulDivResult(5, A, B, R, n)
    BY <1>5, <2>1, <2>3, MulBranches, Zenon
  <2> QED
    BY <2>2, <2>4 DEF MulOK, Delivers, A, B, R
<1> QED
  BY <1>4, <1>5

\* remu and remuw.
LEMMA RemUnsigned ==
    ASSUME NEW n \in OpWidths, NEW a \in Int, NEW b \in Int, NEW r,
           IF Trunc(b, n) = 0 THEN Delivers(r, a, n)
                              ELSE Delivers(r, Trunc(a, n) % Trunc(b, n), n)
    PROVE  MulOK(7, a, b, r, n)
<1> DEFINE A == Trunc(a, n)
           B == Trunc(b, n)
           R == Trunc(r, n)
<1>1. n \in Nat
  BY WidthFacts
<1>2. A \in Nat /\ A < 2 ^ n /\ B \in Nat
  BY <1>1, TruncType
<1>3. IF B = 0 THEN Delivers(r, a, n) ELSE Delivers(r, A % B, n)
  OBVIOUS
<1>4. CASE B = 0
  <2>1. Delivers(r, a, n) /\ R = A
    BY <1>3, <1>4 DEF Delivers
  <2> HIDE DEF R, A, B
  <2>2. MulDivResult(7, A, B, R, n)
    BY <1>4, <2>1, MulBranches, Zenon
  <2> QED
    BY <2>1, <2>2 DEF MulOK, Delivers, A, B, R
<1>5. CASE B # 0
  <2> HIDE DEF A, B
  <2> DEFINE q == A % B
  <2>1. q \in Nat /\ q < 2 ^ n /\ q < B /\ Divides(B, A - q)
    BY <1>1, <1>2, <1>5, UnsignedFacts
  <2>2. Delivers(r, q, n)
    BY <1>3, <1>5
  <2> HIDE DEF q
  <2>3. R = q
    BY <1>1, <2>1, <2>2, TruncSmall DEF Delivers
  <2> HIDE DEF R
  <2>4. MulDivResult(7, A, B, R, n)
    BY <1>5, <2>1, <2>3, MulBranches, Zenon
  <2> QED
    BY <2>2, <2>4 DEF MulOK, Delivers, A, B, R
<1> QED
  BY <1>4, <1>5

\* m_extension.c computes the operation that funct3 names.
LEMMA MopValue ==
    ASSUME NEW i, NEW a \in Word, NEW b \in Word
    PROVE  MulOK(funct3(i), a, b, dispatch_m_op(i, a, b), XLEN)
<1> DEFINE f == funct3(i)
           r == dispatch_m_op(i, a, b)
           n == XLEN
           sa == Signed(a, n)
           sb == Signed(b, n)
           overflow == sa = -(2 ^ (n - 1)) /\ sb = -1
<1>1. f \in 0..7 /\ n \in OpWidths /\ n \in Nat /\ n >= 1
  BY FieldTypes, Widths DEF OpWidths
<1>2. a \in Nat /\ b \in Nat /\ a \in Int /\ b \in Int /\ a < 2 ^ n /\ b < 2 ^ n
  BY WordFacts
<1>3. Trunc(a, n) = a /\ Trunc(b, n) = b
  BY <1>1, <1>2, TruncSmall
<1>4. sa \in Int /\ sb \in Int /\ (sb = 0 <=> b = 0)
  BY <1>1, <1>2, <1>3, SignedInt, SignedZero
<1>5. overflow \in BOOLEAN
  OBVIOUS
<1>6. Delivers(a, a, n)
  BY WordDelivers
<1>7. CASE f = 0
  <2>1. r = Trunc(a * b, n)
    BY <1>7 DEF dispatch_m_op
  <2>2. Delivers(r, a * b, n)
    <3>1. a * b \in Int
      BY <1>2
    <3> QED
      BY <2>1, <3>1, TruncDelivers
  <2> HIDE DEF r, n
  <2>3. MulOK(0, a, b, r, n)
    BY <1>1, <1>2, <2>2, MulLow
  <2> QED
    BY <1>7, <2>3 DEF f, r, n
<1>8. CASE f \in {1, 2, 3}
  <2>1. /\ f = 1 => r = Trunc((sa * sb) \div 2 ^ XLEN, XLEN)
        /\ f = 2 => r = Trunc((sa * b) \div 2 ^ XLEN, XLEN)
        /\ f = 3 => r = Trunc((a * b) \div 2 ^ XLEN, XLEN)
    <3>1. f = 1 => r = Trunc((sa * sb) \div 2 ^ XLEN, XLEN)
      BY DEF dispatch_m_op
    <3>2. f = 2 => r = Trunc((sa * b) \div 2 ^ XLEN, XLEN)
      BY DEF dispatch_m_op
    <3>3. f = 3 => r = Trunc((a * b) \div 2 ^ XLEN, XLEN)
      BY DEF dispatch_m_op
    <3> QED
      BY <3>1, <3>2, <3>3
  <2> HIDE DEF r, f
  <2>2. (f = 1 => MulOK(f, a, b, r, n)) /\ (f = 2 => MulOK(f, a, b, r, n))
          /\ (f = 3 => MulOK(f, a, b, r, n))
    BY <2>1, MulHigh, Zenon
  <2> QED
    BY <1>8, <2>2 DEF r, f
<1>9. CASE f = 4
  <2>1. r = IF overflow THEN a ELSE IF b = 0 THEN 2 ^ XLEN - 1 ELSE Trunc(Div(sa, sb), XLEN)
    BY <1>9 DEF dispatch_m_op
  <2>2. IF overflow THEN Delivers(r, sa, n)
        ELSE IF sb = 0 THEN r = 2 ^ XLEN - 1 ELSE Delivers(r, Div(sa, sb), n)
    <3>1. Delivers(a, sa, n)
      <4>1. Trunc(sa, n) = Trunc(a, n)
        BY <1>1, <1>2, SignedType DEF Trunc
      <4> QED
        BY <1>6, <4>1 DEF Delivers
    <3>2. sb # 0 => Delivers(Trunc(Div(sa, sb), n), Div(sa, sb), n)
      BY <1>4, DivInt, TruncDelivers
    <3> HIDE DEF r, overflow, sa, sb, n
    <3> QED
      BY <1>4, <2>1, <3>1, <3>2 DEF n
  <2> HIDE DEF r, n
  <2>3. MulOK(4, a, b, r, n)
    BY <1>1, <1>2, <1>5, <2>2, DivSigned
  <2> QED
    BY <1>9, <2>3 DEF f, r, n
<1>10. CASE f = 5
  <2>1. r = IF b = 0 THEN 2 ^ XLEN - 1 ELSE a \div b
    BY <1>10 DEF dispatch_m_op
  <2>2. b # 0 => Delivers(a \div b, a \div b, n)
    <3>1. b # 0 => b >= 1
      BY <1>2
    <3> QED
      BY <1>2, <3>1, DivisionWord, WordDelivers
  <2> HIDE DEF r, n
  <2>3. IF Trunc(b, n) = 0 THEN r = 2 ^ XLEN - 1
                           ELSE Delivers(r, Trunc(a, n) \div Trunc(b, n), n)
    BY <1>3, <2>1, <2>2
  <2>4. MulOK(5, a, b, r, n)
    BY <1>1, <1>2, <2>3, DivUnsigned
  <2> QED
    BY <1>10, <2>4 DEF f, r, n
<1>11. CASE f = 6
  <2>1. r = IF overflow THEN 0 ELSE IF b = 0 THEN a ELSE Trunc(Rem(sa, sb), XLEN)
    BY <1>11 DEF dispatch_m_op
  <2>2. IF overflow THEN r = 0
        ELSE IF sb = 0 THEN Delivers(r, a, n) ELSE Delivers(r, Rem(sa, sb), n)
    <3>1. sb # 0 => Delivers(Trunc(Rem(sa, sb), n), Rem(sa, sb), n)
      BY <1>4, DivInt, TruncDelivers
    <3> HIDE DEF r, overflow, sa, sb, n
    <3> QED
      BY <1>4, <1>6, <2>1, <3>1 DEF n
  <2> HIDE DEF r, n
  <2>3. MulOK(6, a, b, r, n)
    BY <1>1, <1>2, <1>5, <2>2, RemSigned
  <2> QED
    BY <1>11, <2>3 DEF f, r, n
<1>12. CASE f = 7
  <2>1. r = IF b = 0 THEN a ELSE a % b
    BY <1>12 DEF dispatch_m_op
  <2>2. b # 0 => Delivers(a % b, a % b, n)
    <3>1. b # 0 => b >= 1
      BY <1>2
    <3> QED
      BY <1>2, <3>1, DivisionWord, WordDelivers
  <2> HIDE DEF r, n
  <2>3. IF Trunc(b, n) = 0 THEN Delivers(r, a, n)
                           ELSE Delivers(r, Trunc(a, n) % Trunc(b, n), n)
    BY <1>3, <1>6, <2>1, <2>2
  <2>4. MulOK(7, a, b, r, n)
    BY <1>1, <1>2, <2>3, RemUnsigned
  <2> QED
    BY <1>12, <2>4 DEF f, r, n
<1>13. f \in {0, 1, 2, 3, 4, 5, 6, 7}
  BY <1>1
<1> QED
  BY <1>7, <1>8, <1>9, <1>10, <1>11, <1>12, <1>13

\* So do its word instructions.
LEMMA Mop32Value ==
    ASSUME NEW i, NEW a \in Word, NEW b \in Word, funct3(i) \notin {1, 2, 3}
    PROVE  MulOK(funct3(i), a, b, dispatch_m_op_32(i, a, b), W)
<1> DEFINE f == funct3(i)
           r == dispatch_m_op_32(i, a, b)
           n == W
           ua == Trunc(a, n)
           ub == Trunc(b, n)
           sa == Signed(a, n)
           sb == Signed(b, n)
           overflow == sa = -(2 ^ (n - 1)) /\ sb = -1
<1>1. f \in 0..7 /\ n \in OpWidths /\ n \in Nat /\ n >= 1 /\ n <= XLEN
  BY FieldTypes, Widths DEF OpWidths
<1>2. a \in Int /\ b \in Int
  BY WordFacts
<1>3. ua \in Nat /\ ua < 2 ^ n /\ ub \in Nat /\ ub < 2 ^ n /\ Trunc(ua, n) = Trunc(a, n)
  BY <1>1, <1>2, TruncType, TruncTrunc
<1>4. sa \in Int /\ sb \in Int
  BY <1>1, <1>2, SignedInt
<1>5. overflow \in BOOLEAN
  OBVIOUS
<1>6. Trunc(sa, n) = Trunc(a, n) /\ Trunc(sb, n) = Trunc(b, n)
  BY <1>1, <1>2, SignedType DEF Trunc
<1>7. \A x \in Int : Delivers(Extend(x, n), x, n)
  <2> HIDE DEF n
  <2> QED
    BY <1>1, ExtendDelivers
<1>8. CASE f = 0
  <2>1. r = Extend(sa * sb, n)
    BY <1>8 DEF dispatch_m_op_32
  <2> HIDE DEF r, n, sa, sb
  <2>2. Delivers(r, sa * sb, n)
    <3>1. sa * sb \in Int
      BY <1>4
    <3> QED
      BY <1>7, <2>1, <3>1
  <2>3. MulOK(0, a, b, r, n)
    BY <1>1, <1>2, <1>4, <1>6, <2>2, MulLow
  <2> QED
    BY <1>8, <2>3 DEF f, r, n
<1>9. CASE f = 4
  <2>1. r = IF overflow THEN Extend(sa, n)
            ELSE IF sb = 0 THEN 2 ^ XLEN - 1 ELSE Extend(Div(sa, sb), n)
    BY <1>9 DEF dispatch_m_op_32
  <2>2. IF overflow THEN Delivers(r, sa, n)
        ELSE IF sb = 0 THEN r = 2 ^ XLEN - 1 ELSE Delivers(r, Div(sa, sb), n)
    <3>1. Delivers(Extend(sa, n), sa, n)
      BY <1>4, <1>7
    <3>2. sb # 0 => Delivers(Extend(Div(sa, sb), n), Div(sa, sb), n)
      BY <1>4, <1>7, DivInt
    <3> HIDE DEF r, overflow, sa, sb, n
    <3> QED
      BY <2>1, <3>1, <3>2
  <2> HIDE DEF r, n
  <2>3. MulOK(4, a, b, r, n)
    BY <1>1, <1>2, <1>5, <2>2, DivSigned
  <2> QED
    BY <1>9, <2>3 DEF f, r, n
<1>10. CASE f = 5
  <2>1. r = IF ub = 0 THEN 2 ^ XLEN - 1 ELSE Extend(ua \div ub, n)
    BY <1>10 DEF dispatch_m_op_32
  <2> HIDE DEF r, n
  <2>2. ub # 0 => Delivers(Extend(ua \div ub, n), ua \div ub, n)
    <3> HIDE DEF ua, ub
    <3>1. ub # 0 => ua \div ub \in Int
      BY <1>1, <1>3, UnsignedFacts
    <3> QED
      BY <1>7, <3>1
  <2>3. IF ub = 0 THEN r = 2 ^ XLEN - 1 ELSE Delivers(r, ua \div ub, n)
    <3> HIDE DEF ua, ub
    <3> QED
      BY <2>1, <2>2
  <2>4. MulOK(5, a, b, r, n)
    BY <1>1, <1>2, <2>3, DivUnsigned
  <2> QED
    BY <1>10, <2>4 DEF f, r, n
<1>11. CASE f = 6
  <2>1. r = IF overflow THEN 0
            ELSE IF sb = 0 THEN Extend(sa, n) ELSE Extend(Rem(sa, sb), n)
    BY <1>11 DEF dispatch_m_op_32
  <2>2. IF overflow THEN r = 0
        ELSE IF sb = 0 THEN Delivers(r, a, n) ELSE Delivers(r, Rem(sa, sb), n)
    <3>1. Delivers(Extend(sa, n), a, n)
      BY <1>4, <1>6, <1>7 DEF Delivers
    <3>2. sb # 0 => Delivers(Extend(Rem(sa, sb), n), Rem(sa, sb), n)
      BY <1>4, <1>7, DivInt
    <3> HIDE DEF r, overflow, sa, sb, n
    <3> QED
      BY <2>1, <3>1, <3>2
  <2> HIDE DEF r, n
  <2>3. MulOK(6, a, b, r, n)
    BY <1>1, <1>2, <1>5, <2>2, RemSigned
  <2> QED
    BY <1>11, <2>3 DEF f, r, n
<1>12. CASE f = 7
  <2>1. r = IF ub = 0 THEN Extend(ua, n) ELSE Extend(ua % ub, n)
    BY <1>12 DEF dispatch_m_op_32
  <2> HIDE DEF r, n
  <2>2. ub # 0 => Delivers(Extend(ua % ub, n), ua % ub, n)
    <3> HIDE DEF ua, ub
    <3>1. ub # 0 => ua % ub \in Int
      BY <1>1, <1>3, UnsignedFacts
    <3> QED
      BY <1>7, <3>1
  <2>3. Delivers(Extend(ua, n), a, n)
    <3>1. ua \in Int
      BY <1>3
    <3> QED
      BY <1>3, <1>7, <3>1 DEF Delivers
  <2>4. IF ub = 0 THEN Delivers(r, a, n) ELSE Delivers(r, ua % ub, n)
    <3> HIDE DEF ua, ub
    <3> QED
      BY <2>1, <2>2, <2>3
  <2>5. MulOK(7, a, b, r, n)
    BY <1>1, <1>2, <2>4, RemUnsigned
  <2> QED
    BY <1>12, <2>5 DEF f, r, n
<1>13. f \in {0, 4, 5, 6, 7}
  BY <1>1
<1> QED
  BY <1>8, <1>9, <1>10, <1>11, <1>12, <1>13
===============================================================================
