------------------------ MODULE F4MatrixReducerProofs ------------------------
(***************************************************************************)
(* F4MatrixReducer for any matrices, any modulus and any number of columns *)
(* and rows: sums of products stay within their bound, threads agree on    *)
(* the pivots they claim, and the result is in reduced row echelon form.   *)
(*                                                                         *)
(* What a loop computes is argued about by the first turn that would go    *)
(* wrong, since the provers have no induction.                             *)
(***************************************************************************)
EXTENDS F4MatrixReducer, FiniteSetTheorems, SequenceTheorems, WellFoundedInduction,
        TLAPS

(* Numbers *)

LEMMA MinIsLeast ==
  ASSUME NEW S, S \subseteq Nat, S # {}
  PROVE  Min(S) \in S /\ \A n \in S : Min(S) <= n
<1>1. PICK m \in S : \A n \in S : <<n, m>> \notin OpToRel(<, Nat)
  BY NatLessThanWellFounded, WFMin
<1>2. ASSUME NEW n \in S
      PROVE  m <= n
  <2>1. m \in Nat /\ n \in Nat
    OBVIOUS
  <2>2. ~(n < m)
    BY <1>1, <2>1 DEF OpToRel
  <2> QED
    BY <2>1, <2>2
<1> QED
  BY <1>1, <1>2 DEF Min

(* What holds before a loop and is kept by each turn holds throughout. *)
LEMMA EachTurn ==
  ASSUME NEW n \in Nat, NEW T, 0 \in T, \A k \in 1..n : k - 1 \in T => k \in T
  PROVE  0..n \subseteq T
<1> SUFFICES ASSUME (0..n) \ T # {}
             PROVE  FALSE
  OBVIOUS
<1> DEFINE k == Min((0..n) \ T)
<1>1. k \in (0..n) \ T /\ \A i \in (0..n) \ T : k <= i
  BY MinIsLeast
<1>2. k # 0 /\ k \in 1..n
  BY <1>1
<1>3. k - 1 \in 0..n /\ ~(k <= k - 1)
  BY <1>2
<1>4. k - 1 \in T
  BY <1>1, <1>3
<1> QED
  BY <1>1, <1>2, <1>4

(* The loop that F describes, up to its n-th turn *)
LoopSoFar(after, F, x, n) ==
  after = [k \in 0..n |-> IF k = 0 THEN x ELSE F[k][after[k - 1]]]

LEMMA LoopExists ==
  ASSUME NEW F, NEW x, NEW n \in Nat
  PROVE  \E after : LoopSoFar(after, F, x, n)
<1> DEFINE T == {k \in 0..n : \E after : LoopSoFar(after, F, x, k)}
<1>1. 0 \in T
  <2>1. LoopSoFar([k \in 0..0 |-> x], F, x, 0)
    BY DEF LoopSoFar
  <2> QED
    BY <2>1
<1>2. ASSUME NEW k \in 1..n, k - 1 \in T
      PROVE  k \in T
  <2>1. PICK before : LoopSoFar(before, F, x, k - 1)
    BY <1>2
  <2> DEFINE after == [i \in 0..k |-> IF i = k THEN F[k][before[k - 1]] ELSE before[i]]
  <2>2. \A i \in 0..(k - 1) : before[i] = IF i = 0 THEN x ELSE F[i][before[i - 1]]
    BY <2>1 DEF LoopSoFar
  <2>3. \A i \in 0..k : after[i] = IF i = 0 THEN x ELSE F[i][after[i - 1]]
    <3> SUFFICES ASSUME NEW i \in 0..k
                 PROVE  after[i] = IF i = 0 THEN x ELSE F[i][after[i - 1]]
      OBVIOUS
    <3>1. CASE i = k
      <4>1. k - 1 \in 0..k /\ k - 1 # k /\ i # 0
        BY <1>2, <3>1
      <4> QED
        BY <3>1, <4>1
    <3>2. CASE i \in 1..(k - 1)
      <4>1. i - 1 \in 0..k /\ i - 1 # k /\ i # k /\ i # 0 /\ i \in 0..(k - 1)
        BY <3>2
      <4> QED
        BY <2>2, <4>1
    <3>3. CASE i = 0 /\ i # k
      BY <2>2, <3>3
    <3> QED
      BY <3>1, <3>2, <3>3
  <2>4. LoopSoFar(after, F, x, k)
    BY <2>3 DEF LoopSoFar
  <2> QED
    BY <2>4
<1> HIDE DEF T
<1>3. 0..n \subseteq T
  BY <1>1, <1>2, EachTurn
<1> QED
  BY <1>3 DEF T

(* A loop's turns, one by one *)
LEMMA LoopTurns ==
  ASSUME NEW F, NEW x, NEW n \in Nat
  PROVE  \E after :
           /\ after[0] = x
           /\ \A k \in 1..n : after[k] = F[k][after[k - 1]]
           /\ Folded(F, x, n) = after[n]
<1> DEFINE after == CHOOSE a : a = [k \in 0..n |-> IF k = 0 THEN x ELSE F[k][a[k - 1]]]
<1>1. after = [k \in 0..n |-> IF k = 0 THEN x ELSE F[k][after[k - 1]]]
  <2>1. \E a : a = [k \in 0..n |-> IF k = 0 THEN x ELSE F[k][a[k - 1]]]
    <3>1. PICK a : LoopSoFar(a, F, x, n)
      BY LoopExists
    <3> QED
      BY <3>1 DEF LoopSoFar
  <2> QED
    BY <2>1, Zenon
<1>2. Folded(F, x, n) = after[n]
  BY DEF Folded
<1> HIDE DEF after
<1>3. after[0] = x /\ \A k \in 1..n : after[k] = F[k][after[k - 1]]
  BY <1>1
<1> QED
  BY <1>2, <1>3

-----------------------------------------------------------------------------
(* Arithmetic modulo the modulus *)

LEMMA Remainders ==
  /\ Modulus \in Nat /\ Modulus > 1 /\ 0 \in Scalar /\ 1 \in Scalar
  /\ \A a \in Nat : a % Modulus \in Scalar
  /\ \A a \in Scalar : a % Modulus = a
<1>1. Modulus \in Nat /\ Modulus > 1
  BY ModulusAssumption
<1>2. \A a \in Nat : a % Modulus \in 0..Modulus - 1
  BY <1>1
<1>3. \A a \in 0..Modulus - 1 : a % Modulus = a
  BY <1>1
<1> QED
  BY <1>1, <1>2, <1>3 DEF Scalar

LEMMA RemainderIs ==
  ASSUME NEW n \in Nat, n > 0, NEW j \in Int, NEW r \in 0..n - 1
  PROVE  (j * n + r) % n = r
<1> DEFINE x == j * n + r
           q == x \div n
           s == x % n
<1>1. q \in Int /\ s \in 0..n - 1 /\ x = q * n + s
  OBVIOUS
<1>2. (j - q) * n = s - r
  BY <1>1
<1>3. j - q >= 1 => (j - q) * n >= n
  BY <1>1
<1>4. j - q <= -1 => (j - q) * n <= -n
  BY <1>1
<1>5. j - q = 0
  BY <1>1, <1>2, <1>3, <1>4
<1> QED
  BY <1>1, <1>2, <1>5

(* Scalars other than 0 are invertible, as the modulus is prime: of all the
   products with a, the least that is not 0 divides the modulus. *)
LEMMA InverseExists ==
  ASSUME NEW a \in Scalar, a # 0
  PROVE  ModularInverse(a) \in Scalar /\ (a * ModularInverse(a)) % Modulus = 1
<1> DEFINE M == Modulus
           T == {x \in 1..(M - 1) : \E b \in Scalar : (a * b) % M = x}
           g == Min(T)
<1>1. M \in Nat /\ M > 1 /\ a \in 1..(M - 1)
  BY Remainders DEF Scalar
<1>2. g \in T /\ \A x \in T : g <= x
  <2>1. (a * 1) % M = a
    BY <1>1, Remainders
  <2>2. a \in T
    BY <1>1, <2>1, Remainders
  <2>3. T \subseteq Nat
    BY <1>1
  <2> HIDE DEF T
  <2> QED
    BY <2>2, <2>3, MinIsLeast
<1>3. PICK b \in Scalar : (a * b) % M = g
  BY <1>2
<1> DEFINE q == M \div g
           r == M % g
           s == (a * b) \div M
<1>4. g \in 1..(M - 1) /\ b \in Nat
  BY <1>1, <1>2, <1>3 DEF Scalar
<1>5. q \in Nat /\ r \in 0..(g - 1) /\ M = q * g + r
  BY <1>1, <1>4
<1>6. s \in Int /\ a * b = s * M + g
  BY <1>1, <1>3, <1>4
<1>7. r = 0
  <2> SUFFICES ASSUME r # 0
               PROVE  FALSE
    OBVIOUS
  <2> DEFINE c == (-(q * b)) % M
             j == (-(q * b)) \div M
  <2>1. c \in Scalar /\ c \in Int /\ j \in Int /\ -(q * b) = j * M + c
    BY <1>1, <1>4, <1>5 DEF Scalar
  <2>2. a * c = (-(1 + q * s + a * j)) * M + r
    <3> HIDE DEF M, q, r, s, c, j, g
    <3>1. a * c = a * (-(q * b) - j * M)
      BY <1>1, <1>4, <1>5, <2>1
    <3>2. a * c = -(q * (a * b)) - (a * j) * M
      BY <1>1, <1>4, <1>5, <2>1, <3>1
    <3>3. q * (a * b) = (q * s) * M + q * g
      BY <1>1, <1>4, <1>5, <1>6
    <3>4. q * g = M - r
      BY <1>1, <1>4, <1>5
    <3> QED
      BY <1>1, <1>4, <1>5, <1>6, <2>1, <3>2, <3>3, <3>4
  <2>3. (a * c) % M = r
    <3>1. (-(1 + q * s + a * j)) \in Int /\ r \in 0..(M - 1)
      BY <1>1, <1>4, <1>5, <1>6, <2>1
    <3> HIDE DEF M, q, r, s, c, j, g
    <3>2. PICK m : m = -(1 + q * s + a * j)
      OBVIOUS
    <3>3. M > 0 /\ m \in Int /\ a * c = m * M + r
      BY <1>1, <2>2, <3>1, <3>2
    <3>4. (m * M + r) % M = r
      BY <1>1, <3>1, <3>3, RemainderIs
    <3> QED
      BY <3>3, <3>4
  <2>4. r \in T /\ r < g
    <3>1. r \in 1..(M - 1) /\ r < g
      BY <1>1, <1>4, <1>5
    <3> HIDE DEF M, q, r, s, c, j, g
    <3> QED
      BY <2>1, <2>3, <3>1
  <2> HIDE DEF T
  <2> QED
    BY <1>2, <1>4, <1>5, <2>4
<1>8. g = 1
  <2> HIDE DEF g
  <2>1. g \in 2..(M - 1) => M % g # 0
    BY ModulusAssumption
  <2> QED
    BY <1>1, <1>4, <1>7, <2>1
<1> QED
  BY <1>3, <1>8 DEF ModularInverse

-----------------------------------------------------------------------------
(* Sorting: the number of the elements before an element tells it from others. *)

Below(S, R, x) == {y \in S : <<y, x>> \in R}

TotalOrder(S, R) ==
  /\ \A x \in S : <<x, x>> \notin R
  /\ \A x, y, z \in S : <<x, y>> \in R /\ <<y, z>> \in R => <<x, z>> \in R
  /\ \A x, y \in S : x # y => <<x, y>> \in R \/ <<y, x>> \in R

(* Each element of s is in the place that the number of those before it gives. *)
Placed(s, S, R) ==
  /\ DOMAIN s = 1..Cardinality(S)
  /\ \A i \in 1..Cardinality(S) : s[i] \in S /\ Cardinality(Below(S, R, s[i])) = i - 1

LEMMA Places ==
  ASSUME NEW S, IsFiniteSet(S), NEW R,
         TotalOrder(S, R)
  PROVE  /\ Cardinality(S) \in Nat
         /\ \A x \in S : Cardinality(Below(S, R, x)) \in Nat
         /\ \A x, y \in S :
              <<x, y>> \in R => Cardinality(Below(S, R, x)) < Cardinality(Below(S, R, y))
         /\ \A i \in 1..Cardinality(S) : \E x \in S : Cardinality(Below(S, R, x)) = i - 1
<1> DEFINE place == [x \in S |-> Cardinality(Below(S, R, x)) + 1]
<1>1. Cardinality(S) \in Nat
  BY FS_CardinalityType
<1>2. \A x \in S : Below(S, R, x) \in SUBSET S
  BY DEF Below
<1>3. ASSUME NEW x \in S
      PROVE  /\ IsFiniteSet(Below(S, R, x))
             /\ Cardinality(Below(S, R, x)) \in 0..(Cardinality(S) - 1)
  <2>1. Below(S, R, x) \in SUBSET (S \ {x})
    BY DEF Below, TotalOrder
  <2>2. IsFiniteSet(S \ {x}) /\ Cardinality(S \ {x}) = Cardinality(S) - 1
    BY FS_RemoveElement
  <2>3. IsFiniteSet(Below(S, R, x)) /\ Cardinality(Below(S, R, x)) <= Cardinality(S) - 1
    BY <2>1, <2>2, FS_Subset
  <2>4. Cardinality(Below(S, R, x)) \in Nat
    BY <2>3, FS_CardinalityType
  <2> QED
    BY <1>1, <2>3, <2>4
<1>4. ASSUME NEW x \in S, NEW y \in S, <<x, y>> \in R
      PROVE  Cardinality(Below(S, R, x)) < Cardinality(Below(S, R, y))
  <2>1. Below(S, R, x) \in SUBSET (Below(S, R, y) \ {x}) /\ x \in Below(S, R, y)
    BY <1>4 DEF Below, TotalOrder
  <2>2. /\ IsFiniteSet(Below(S, R, y) \ {x})
        /\ Cardinality(Below(S, R, y) \ {x}) = Cardinality(Below(S, R, y)) - 1
    BY <1>3, <2>1, FS_RemoveElement
  <2>3. Cardinality(Below(S, R, x)) <= Cardinality(Below(S, R, y)) - 1
    BY <2>1, <2>2, FS_Subset
  <2> QED
    BY <1>3, <2>3
<1>5. place \in [S -> 1..Cardinality(S)]
  BY <1>1, <1>3
<1>6. \A x, y \in S : place[x] = place[y] => x = y
  <2> SUFFICES ASSUME NEW x \in S, NEW y \in S, x # y
               PROVE  place[x] # place[y]
    OBVIOUS
  <2>1. /\ place[x] = Cardinality(Below(S, R, x)) + 1
        /\ place[y] = Cardinality(Below(S, R, y)) + 1
    OBVIOUS
  <2>2. Cardinality(Below(S, R, x)) \in Nat /\ Cardinality(Below(S, R, y)) \in Nat
    BY <1>1, <1>3
  <2>3. <<x, y>> \in R \/ <<y, x>> \in R
    BY DEF TotalOrder
  <2>4. Cardinality(Below(S, R, x)) # Cardinality(Below(S, R, y))
    BY <1>4, <2>2, <2>3
  <2> HIDE DEF place
  <2> QED
    BY <2>1, <2>2, <2>4
<1>7. place \in Injection(S, 1..Cardinality(S))
  BY <1>5, <1>6 DEF Injection, IsInjective
<1>8. IsFiniteSet(1..Cardinality(S)) /\ Cardinality(1..Cardinality(S)) = Cardinality(S)
  BY <1>1, FS_Interval
<1>9. place \in Surjection(S, 1..Cardinality(S))
  BY <1>7, <1>8, FS_Injection
<1>10. ASSUME NEW i \in 1..Cardinality(S)
       PROVE  \E x \in S : Cardinality(Below(S, R, x)) = i - 1
  <2>1. PICK x \in S : place[x] = i
    BY <1>9 DEF Surjection
  <2> QED
    BY <1>3, <2>1
<1> QED
  BY <1>1, <1>3, <1>4, <1>10

(* A sequence in which each element has its place lists each once, in order. *)
LEMMA PlacedInOrder ==
  ASSUME NEW S, IsFiniteSet(S), NEW R,
         TotalOrder(S, R),
         NEW s, Placed(s, S, R)
  PROVE  /\ \A x \in S : \E i \in DOMAIN s : s[i] = x
         /\ \A i, j \in DOMAIN s : i < j => <<s[i], s[j]>> \in R
<1>1. /\ Cardinality(S) \in Nat
      /\ \A x \in S : Cardinality(Below(S, R, x)) \in Nat
      /\ \A x, y \in S :
           <<x, y>> \in R => Cardinality(Below(S, R, x)) < Cardinality(Below(S, R, y))
  BY Places
<1>2. ASSUME NEW x \in S
      PROVE  \E i \in DOMAIN s : s[i] = x
  <2>1. PICK i : i = Cardinality(Below(S, R, x)) + 1
    OBVIOUS
  <2>2. i \in DOMAIN s /\ i \in 1..Cardinality(S)
    <3>1. Below(S, R, x) \in SUBSET (S \ {x})
      BY DEF Below, TotalOrder
    <3>2. IsFiniteSet(S \ {x}) /\ Cardinality(S \ {x}) = Cardinality(S) - 1
      BY FS_RemoveElement
    <3>3. Cardinality(Below(S, R, x)) <= Cardinality(S) - 1
      BY <3>1, <3>2, FS_Subset
    <3> QED
      BY <1>1, <2>1, <3>3 DEF Placed
  <2>3. s[i] \in S /\ Cardinality(Below(S, R, s[i])) = i - 1
    BY <2>2 DEF Placed
  <2>4. Cardinality(Below(S, R, s[i])) = Cardinality(Below(S, R, x))
    BY <1>1, <2>1, <2>3
  <2>5. <<s[i], x>> \notin R /\ <<x, s[i]>> \notin R
    BY <1>1, <2>3, <2>4
  <2>6. s[i] = x
    BY <2>3, <2>5 DEF TotalOrder
  <2> QED
    BY <2>2, <2>6
<1>3. ASSUME NEW i \in DOMAIN s, NEW j \in DOMAIN s, i < j
      PROVE  <<s[i], s[j]>> \in R
  <2>1. /\ i \in Int /\ j \in Int
        /\ s[i] \in S /\ Cardinality(Below(S, R, s[i])) = i - 1
        /\ s[j] \in S /\ Cardinality(Below(S, R, s[j])) = j - 1
    BY <1>1 DEF Placed
  <2>2. Cardinality(Below(S, R, s[i])) < Cardinality(Below(S, R, s[j]))
    BY <1>3, <2>1
  <2>3. s[i] # s[j] /\ <<s[j], s[i]>> \notin R
    BY <1>1, <2>1, <2>2
  <2> QED
    BY <2>1, <2>3 DEF TotalOrder
<1> QED
  BY <1>2, <1>3

(* InOrder(S, Before) of pairs and InOrder(S, <) of numbers *)
LEMMA PairsInOrder ==
  ASSUME NEW S, S \subseteq Nat \X Nat, IsFiniteSet(S)
  PROVE  \A s : s = [i \in 1..Cardinality(S) |->
                       CHOOSE x \in S : Cardinality({y \in S : Before(y, x)}) = i - 1] =>
           /\ Cardinality(S) \in Nat
           /\ s \in [1..Cardinality(S) -> S]
           /\ \A x \in S : \E i \in DOMAIN s : s[i] = x
           /\ \A i, j \in DOMAIN s : i < j => Before(s[i], s[j])
<1>1. PICK R : R = {p \in S \X S : Before(p[1], p[2])}
  OBVIOUS
<1>2. /\ \A x \in S : x[1] \in Nat /\ x[2] \in Nat /\ x = <<x[1], x[2]>>
      /\ \A x, y \in S : <<x, y>> \in R <=> Before(x, y)
  BY <1>1
<1>3. /\ \A x \in S : <<x, x>> \notin R
      /\ \A x, y \in S : x # y => <<x, y>> \in R \/ <<y, x>> \in R
  BY <1>2 DEF Before
<1>4. \A x, y, z \in S : <<x, y>> \in R /\ <<y, z>> \in R => <<x, z>> \in R
  BY <1>2 DEF Before
<1>ordered. TotalOrder(S, R)
  BY <1>3, <1>4 DEF TotalOrder
<1>5. /\ Cardinality(S) \in Nat
      /\ \A i \in 1..Cardinality(S) : \E x \in S : Cardinality(Below(S, R, x)) = i - 1
  BY <1>ordered, Places
<1>6. \A x \in S : {y \in S : Before(y, x)} = Below(S, R, x)
  BY <1>2 DEF Below
<1> SUFFICES
      ASSUME NEW s,
             DOMAIN s = 1..Cardinality(S),
             \A T : (\A i \in 1..Cardinality(S) : s[i] \in T) => s \in [1..Cardinality(S) -> T],
             \A i \in 1..Cardinality(S) :
               s[i] = CHOOSE x \in S : Cardinality({y \in S : Before(y, x)}) = i - 1
      PROVE  /\ Cardinality(S) \in Nat
             /\ s \in [1..Cardinality(S) -> S]
             /\ \A x \in S : \E i \in DOMAIN s : s[i] = x
             /\ \A i, j \in DOMAIN s : i < j => Before(s[i], s[j])
  <2> SUFFICES
        ASSUME NEW s, s = [i \in 1..Cardinality(S) |->
                             CHOOSE x \in S : Cardinality({y \in S : Before(y, x)}) = i - 1]
        PROVE  /\ DOMAIN s = 1..Cardinality(S)
               /\ \A T : (\A i \in 1..Cardinality(S) : s[i] \in T)
                           => s \in [1..Cardinality(S) -> T]
               /\ \A i \in 1..Cardinality(S) :
                    s[i] = CHOOSE x \in S : Cardinality({y \in S : Before(y, x)}) = i - 1
    OBVIOUS
  <2>1. DOMAIN s = 1..Cardinality(S)
    OBVIOUS
  <2>2. \A T : (\A i \in 1..Cardinality(S) : s[i] \in T) => s \in [1..Cardinality(S) -> T]
    OBVIOUS
  <2>3. \A i \in 1..Cardinality(S) :
          s[i] = CHOOSE x \in S : Cardinality({y \in S : Before(y, x)}) = i - 1
    OBVIOUS
  <2> QED
    BY <2>1, <2>2, <2>3
<1>8. ASSUME NEW i \in 1..Cardinality(S)
      PROVE  s[i] \in S /\ Cardinality(Below(S, R, s[i])) = i - 1
  <2>1. \E x \in S : Cardinality({y \in S : Before(y, x)}) = i - 1
    BY <1>5, <1>6
  <2>2. s[i] \in S /\ Cardinality({y \in S : Before(y, s[i])}) = i - 1
    BY <2>1
  <2> QED
    BY <1>6, <2>2
<1>9. DOMAIN s = 1..Cardinality(S) /\ s \in [1..Cardinality(S) -> S]
  BY <1>8
<1>placed. Placed(s, S, R)
  BY <1>8 DEF Placed
<1>10. /\ \A x \in S : \E i \in DOMAIN s : s[i] = x
       /\ \A i, j \in DOMAIN s : i < j => <<s[i], s[j]>> \in R
  BY <1>ordered, <1>placed, PlacedInOrder
<1>11. \A i \in DOMAIN s : s[i] \in S
  BY <1>9
<1>12. \A i, j \in DOMAIN s : i < j => Before(s[i], s[j])
  BY <1>2, <1>10, <1>11
<1> QED
  BY <1>5, <1>9, <1>10, <1>12

LEMMA NumbersInOrder ==
  ASSUME NEW S, S \subseteq Nat, IsFiniteSet(S)
  PROVE  \A s : s = [i \in 1..Cardinality(S) |->
                       CHOOSE x \in S : Cardinality({y \in S : y < x}) = i - 1] =>
           /\ Cardinality(S) \in Nat
           /\ s \in [1..Cardinality(S) -> S]
           /\ \A x \in S : \E i \in DOMAIN s : s[i] = x
           /\ \A i, j \in DOMAIN s : i < j => s[i] < s[j]
<1>1. PICK R : R = {p \in S \X S : p[1] < p[2]}
  OBVIOUS
<1>2. /\ \A x \in S : x \in Nat
      /\ \A x, y \in S : <<x, y>> \in R <=> x < y
  BY <1>1
<1>3. /\ \A x \in S : <<x, x>> \notin R
      /\ \A x, y \in S : x # y => <<x, y>> \in R \/ <<y, x>> \in R
  BY <1>2
<1>4. \A x, y, z \in S : <<x, y>> \in R /\ <<y, z>> \in R => <<x, z>> \in R
  BY <1>2
<1>ordered. TotalOrder(S, R)
  BY <1>3, <1>4 DEF TotalOrder
<1>5. /\ Cardinality(S) \in Nat
      /\ \A i \in 1..Cardinality(S) : \E x \in S : Cardinality(Below(S, R, x)) = i - 1
  BY <1>ordered, Places
<1>6. \A x \in S : {y \in S : y < x} = Below(S, R, x)
  BY <1>2 DEF Below
<1> SUFFICES
      ASSUME NEW s,
             DOMAIN s = 1..Cardinality(S),
             \A T : (\A i \in 1..Cardinality(S) : s[i] \in T) => s \in [1..Cardinality(S) -> T],
             \A i \in 1..Cardinality(S) :
               s[i] = CHOOSE x \in S : Cardinality({y \in S : y < x}) = i - 1
      PROVE  /\ Cardinality(S) \in Nat
             /\ s \in [1..Cardinality(S) -> S]
             /\ \A x \in S : \E i \in DOMAIN s : s[i] = x
             /\ \A i, j \in DOMAIN s : i < j => s[i] < s[j]
  <2> SUFFICES
        ASSUME NEW s, s = [i \in 1..Cardinality(S) |->
                             CHOOSE x \in S : Cardinality({y \in S : y < x}) = i - 1]
        PROVE  /\ DOMAIN s = 1..Cardinality(S)
               /\ \A T : (\A i \in 1..Cardinality(S) : s[i] \in T)
                           => s \in [1..Cardinality(S) -> T]
               /\ \A i \in 1..Cardinality(S) :
                    s[i] = CHOOSE x \in S : Cardinality({y \in S : y < x}) = i - 1
    OBVIOUS
  <2>1. DOMAIN s = 1..Cardinality(S)
    OBVIOUS
  <2>2. \A T : (\A i \in 1..Cardinality(S) : s[i] \in T) => s \in [1..Cardinality(S) -> T]
    OBVIOUS
  <2>3. \A i \in 1..Cardinality(S) :
          s[i] = CHOOSE x \in S : Cardinality({y \in S : y < x}) = i - 1
    OBVIOUS
  <2> QED
    BY <2>1, <2>2, <2>3
<1>8. ASSUME NEW i \in 1..Cardinality(S)
      PROVE  s[i] \in S /\ Cardinality(Below(S, R, s[i])) = i - 1
  <2>1. \E x \in S : Cardinality({y \in S : y < x}) = i - 1
    BY <1>5, <1>6
  <2>2. s[i] \in S /\ Cardinality({y \in S : y < s[i]}) = i - 1
    BY <2>1
  <2> QED
    BY <1>6, <2>2
<1>9. DOMAIN s = 1..Cardinality(S) /\ s \in [1..Cardinality(S) -> S]
  BY <1>8
<1>placed. Placed(s, S, R)
  BY <1>8 DEF Placed
<1>10. /\ \A x \in S : \E i \in DOMAIN s : s[i] = x
       /\ \A i, j \in DOMAIN s : i < j => <<s[i], s[j]>> \in R
  BY <1>ordered, <1>placed, PlacedInOrder
<1>11. \A i \in DOMAIN s : s[i] \in S
  BY <1>9
<1>12. \A i, j \in DOMAIN s : i < j => s[i] < s[j]
  BY <1>2, <1>10, <1>11
<1> QED
  BY <1>5, <1>9, <1>10, <1>12

-----------------------------------------------------------------------------
(* Rows *)

Most(columns) == (Modulus - 1) + columns * (Modulus - 1) * (Modulus - 1)

ScalarRow == [RightCols -> Scalar]

(* row begins with 1 in column lead. *)
BeginsIn(row, lead) ==
  /\ lead \in DOMAIN row /\ row[lead] = 1
  /\ \A c \in DOMAIN row : c < lead => row[c] = 0

LEMMA LeadExists ==
  ASSUME NEW row, DOMAIN row \subseteq Nat, ~Zero(row)
  PROVE  /\ LeadCol(row) \in DOMAIN row /\ row[LeadCol(row)] # 0
         /\ \A c \in DOMAIN row : c < LeadCol(row) => row[c] = 0
<1> DEFINE S == {c \in DOMAIN row : row[c] # 0}
<1>1. S # {} /\ S \subseteq Nat
  BY DEF Zero
<1>2. Min(S) \in S /\ \A c \in S : Min(S) <= c
  BY <1>1, MinIsLeast
<1>3. LeadCol(row) \in S /\ \A c \in S : LeadCol(row) <= c
  BY <1>2 DEF LeadCol
<1>4. \A c \in DOMAIN row : c < LeadCol(row) => c \notin S
  BY <1>1, <1>3
<1> QED
  BY <1>3, <1>4

LEMMA LeadIs ==
  ASSUME NEW row, DOMAIN row \subseteq Nat, NEW lead, BeginsIn(row, lead)
  PROVE  LeadCol(row) = lead /\ ~Zero(row)
<1>1. ~Zero(row)
  BY DEF BeginsIn, Zero
<1>2. /\ LeadCol(row) \in DOMAIN row /\ row[LeadCol(row)] # 0
      /\ \A c \in DOMAIN row : c < LeadCol(row) => row[c] = 0
  BY <1>1, LeadExists
<1>3. ~(LeadCol(row) < lead) /\ ~(lead < LeadCol(row)) /\ lead \in DOMAIN row
  BY <1>2 DEF BeginsIn
<1>4. LeadCol(row) \in Nat /\ lead \in Nat
  BY <1>2, <1>3
<1> QED
  BY <1>1, <1>3, <1>4

LEMMA Products ==
  ASSUME NEW a \in Scalar, NEW b \in Scalar
  PROVE  a * b \in Nat /\ a * b <= (Modulus - 1) * (Modulus - 1)
<1>1. Modulus - 1 \in Nat /\ a \in Nat /\ b \in Nat /\ a <= Modulus - 1 /\ b <= Modulus - 1
  BY Remainders DEF Scalar
<1>2. PICK m \in Nat : m = Modulus - 1
  BY <1>1
<1>3. a * b <= m * b
  BY <1>1, <1>2
<1>4. m * b <= m * m
  BY <1>1, <1>2
<1>5. a * b \in Nat /\ m * b \in Nat /\ m * m \in Nat
  BY <1>1, <1>2
<1>6. a * b <= m * m
  BY <1>3, <1>4, <1>5
<1> QED
  BY <1>2, <1>5, <1>6

LEMMA MostGrows ==
  ASSUME NEW n \in Nat
  PROVE  /\ Most(n) \in Nat
         /\ Most(n + 1) = Most(n) + (Modulus - 1) * (Modulus - 1)
         /\ Modulus - 1 <= Most(n)
         /\ \A k \in Nat : k <= n => Most(k) <= Most(n)
<1>1. PICK m \in Nat : m = Modulus - 1
  BY Remainders
<1>2. \A k \in Nat : k * m * m \in Nat
  OBVIOUS
<1>3. (n + 1) * m * m = n * m * m + m * m
  OBVIOUS
<1>4. ASSUME NEW k \in Nat, k <= n
      PROVE  k * m * m <= n * m * m
  <2>1. k * m <= n * m
    BY <1>4
  <2>2. (k * m) \in Nat /\ (n * m) \in Nat
    OBVIOUS
  <2>3. PICK x \in Nat, y \in Nat : x = k * m /\ y = n * m
    BY <2>2
  <2>4. x * m <= y * m
    BY <2>1, <2>3
  <2> QED
    BY <2>3, <2>4
<1>5. \A k \in Nat : Most(k) = m + k * m * m
  BY <1>1 DEF Most
<1>6. n + 1 \in Nat /\ m * m \in Nat
  OBVIOUS
<1>7. Most(n) \in Nat /\ Modulus - 1 <= Most(n)
  <2>1. PICK x \in Nat : x = n * m * m
    BY <1>2
  <2>2. Most(n) = m + x
    BY <1>5, <2>1
  <2> QED
    BY <1>1, <2>2
<1>8. Most(n + 1) = Most(n) + (Modulus - 1) * (Modulus - 1)
  BY <1>1, <1>2, <1>3, <1>5, <1>6
<1>9. ASSUME NEW k \in Nat, k <= n
      PROVE  Most(k) <= Most(n)
  BY <1>1, <1>2, <1>4, <1>5, <1>9
<1> QED
  BY <1>7, <1>8, <1>9

(* A row with a multiple of a row of scalars added *)
LEMMA RowAdded ==
  ASSUME NEW cols, NEW d \in [cols -> Nat], NEW multiple \in Scalar,
         NEW row, DOMAIN row = cols, \A c \in cols : row[c] \in Scalar
  PROVE  /\ AddRowMultiple(d, multiple, row) \in [cols -> Nat]
         /\ \A c \in cols :
              /\ row[c] = 0 => AddRowMultiple(d, multiple, row)[c] = d[c]
              /\ AddRowMultiple(d, multiple, row)[c] <= d[c] + (Modulus - 1) * (Modulus - 1)
<1>1. /\ AddRowMultiple(d, multiple, row) = [c \in cols |-> d[c] + multiple * row[c]]
      /\ \A c \in cols : d[c] \in Nat
  BY DEF AddRowMultiple
<1>2. \A c \in cols : AddRowMultiple(d, multiple, row)[c] = d[c] + multiple * row[c]
  BY <1>1
<1>3. ASSUME NEW c \in cols
      PROVE  /\ d[c] + multiple * row[c] \in Nat
             /\ row[c] = 0 => d[c] + multiple * row[c] = d[c]
             /\ d[c] + multiple * row[c] <= d[c] + (Modulus - 1) * (Modulus - 1)
  <2>1. /\ multiple * row[c] \in Nat
        /\ multiple * row[c] <= (Modulus - 1) * (Modulus - 1)
    BY Products
  <2>2. multiple \in Nat /\ d[c] \in Nat /\ (Modulus - 1) * (Modulus - 1) \in Int
    BY <1>1, Remainders DEF Scalar
  <2>3. row[c] = 0 => multiple * row[c] = 0
    BY <2>2
  <2> QED
    BY <2>1, <2>2, <2>3
<1>4. AddRowMultiple(d, multiple, row) \in [cols -> Nat]
  BY <1>1, <1>3
<1> QED
  BY <1>2, <1>3, <1>4

(* RowReduceByUnitary clears the pivot's column, leaves alone what is before
   it and where the pivot has nothing, and adds a product at most elsewhere. *)
LEMMA RowReduced ==
  ASSUME NEW d \in DenseRow, NEW pivot \in ScalarRow, NEW col, BeginsIn(pivot, col)
  PROVE  /\ RowReduceByUnitary(d, pivot) \in DenseRow
         /\ RowReduceByUnitary(d, pivot)[col] = 0
         /\ \A c \in RightCols :
              /\ c < col => RowReduceByUnitary(d, pivot)[c] = d[c]
              /\ c # col /\ pivot[c] = 0 => RowReduceByUnitary(d, pivot)[c] = d[c]
              /\ RowReduceByUnitary(d, pivot)[c] <= d[c] + (Modulus - 1) * (Modulus - 1)
<1> DEFINE cleared == [d EXCEPT ![col] = 0]
           rest == [pivot EXCEPT ![col] = 0]
           entry == d[col] % Modulus
<1>1. /\ DOMAIN pivot = RightCols /\ RightCols \subseteq Nat
      /\ \A c \in RightCols : pivot[c] \in Scalar
      /\ d \in [RightCols -> Nat] /\ 0 \in Scalar
  BY Remainders, QuadMatricesAssumption, SMTT(20) DEF ScalarRow, DenseRow, RightCols
<1>2. col \in RightCols /\ pivot[col] = 1 /\ \A c \in RightCols : c < col => pivot[c] = 0
  BY <1>1 DEF BeginsIn
<1>3. LeadCol(pivot) = col
  BY <1>1, LeadIs
<1>4. /\ cleared \in [RightCols -> Nat] /\ cleared[col] = 0
      /\ \A c \in RightCols : c # col => cleared[c] = d[c]
      /\ \A c \in RightCols : cleared[c] <= d[c]
  BY <1>1, <1>2
<1>5. /\ DOMAIN rest = RightCols /\ \A c \in RightCols : rest[c] \in Scalar
      /\ rest[col] = 0 /\ \A c \in RightCols : c # col => rest[c] = pivot[c]
  BY <1>1, <1>2
<1>6. RowReduceByUnitary(d, pivot) =
        IF entry = 0 THEN cleared ELSE AddRowMultiple(cleared, Modulus - entry, rest)
  BY <1>3 DEF RowReduceByUnitary
<1>7. (Modulus - 1) * (Modulus - 1) \in Nat
  BY Remainders
<1>8. entry \in Scalar /\ Modulus - entry \in Int /\ (entry # 0 => Modulus - entry \in Scalar)
  <2>1. entry \in Scalar
    BY <1>1, <1>2, Remainders
  <2> HIDE DEF entry
  <2> QED
    BY <2>1, Remainders DEF Scalar
<1> HIDE DEF cleared, rest, entry
<1>9. CASE entry = 0
  <2>1. \A c \in RightCols : cleared[c] <= d[c] + (Modulus - 1) * (Modulus - 1)
    BY <1>1, <1>4, <1>7
  <2>2. \A c \in RightCols : c < col => cleared[c] = d[c]
    BY <1>1, <1>2, <1>4
  <2> QED
    BY <1>4, <1>6, <1>9, <2>1, <2>2 DEF DenseRow
<1>10. CASE entry # 0
  <2>1. PICK multiple \in Scalar : multiple = Modulus - entry
    BY <1>8, <1>10
  <2>2. /\ AddRowMultiple(cleared, multiple, rest) \in [RightCols -> Nat]
        /\ \A c \in RightCols :
             /\ rest[c] = 0 => AddRowMultiple(cleared, multiple, rest)[c] = cleared[c]
             /\ AddRowMultiple(cleared, multiple, rest)[c]
                  <= cleared[c] + (Modulus - 1) * (Modulus - 1)
    BY <1>4, <1>5, RowAdded
  <2>3. RowReduceByUnitary(d, pivot) = AddRowMultiple(cleared, multiple, rest)
    BY <1>6, <1>10, <2>1
  <2>4. RowReduceByUnitary(d, pivot)[col] = 0
    BY <1>2, <1>4, <1>5, <2>2, <2>3
  <2>5. ASSUME NEW c \in RightCols
        PROVE  /\ c < col => RowReduceByUnitary(d, pivot)[c] = d[c]
               /\ c # col /\ pivot[c] = 0 => RowReduceByUnitary(d, pivot)[c] = d[c]
    BY <1>1, <1>2, <1>4, <1>5, <2>2, <2>3
  <2>6. ASSUME NEW c \in RightCols
        PROVE  RowReduceByUnitary(d, pivot)[c] <= d[c] + (Modulus - 1) * (Modulus - 1)
    <3>1. /\ RowReduceByUnitary(d, pivot)[c] <= cleared[c] + (Modulus - 1) * (Modulus - 1)
          /\ RowReduceByUnitary(d, pivot)[c] \in Nat
          /\ cleared[c] \in Nat /\ d[c] \in Nat /\ cleared[c] <= d[c]
      BY <1>1, <1>4, <2>2, <2>3
    <3> QED
      BY <1>7, <3>1
  <2> QED
    BY <2>2, <2>3, <2>4, <2>5, <2>6 DEF DenseRow
<1> QED
  BY <1>9, <1>10

(* MakeUnitary at and after an invertible entry *)
LEMMA MadeUnitary ==
  ASSUME NEW d \in DenseRow, NEW lead \in RightCols, d[lead] % Modulus # 0
  PROVE  /\ MakeUnitary(d, lead) \in DenseRow
         /\ MakeUnitary(d, lead)[lead] = 1
         /\ \A c \in RightCols :
              /\ c < lead => MakeUnitary(d, lead)[c] = d[c]
              /\ c >= lead => MakeUnitary(d, lead)[c] \in Scalar
              /\ c >= lead /\ d[c] % Modulus = 0 => MakeUnitary(d, lead)[c] = 0
<1>1. PICK a : a = d[lead] % Modulus
  OBVIOUS
<1>2. /\ RightCols \subseteq Nat /\ d \in [RightCols -> Nat] /\ \A c \in RightCols : d[c] \in Nat
  BY QuadMatricesAssumption DEF DenseRow, RightCols
<1>3. a \in Scalar /\ a # 0
  BY <1>1, <1>2, Remainders
<1>4. PICK b \in Scalar : b = ModularInverse(a) /\ (a * b) % Modulus = 1
  BY <1>3, InverseExists
<1>5. MakeUnitary(d, lead) =
        [c \in RightCols |-> IF c < lead THEN d[c] ELSE ((d[c] % Modulus) * b) % Modulus]
  BY <1>1, <1>2, <1>4 DEF MakeUnitary
<1>6. ASSUME NEW c \in RightCols
      PROVE  /\ ((d[c] % Modulus) * b) % Modulus \in Scalar
             /\ d[c] % Modulus = 0 => ((d[c] % Modulus) * b) % Modulus = 0
  <2>1. PICK x \in Scalar : x = d[c] % Modulus
    BY <1>2, Remainders
  <2>2. x * b \in Nat /\ (x = 0 => x * b = 0)
    BY Remainders DEF Scalar
  <2>3. (x * b) % Modulus \in Scalar /\ 0 % Modulus = 0
    BY <2>2, Remainders
  <2> QED
    BY <2>1, <2>2, <2>3
<1>7. \A c \in Scalar : c \in Nat
  BY Remainders DEF Scalar
<1>8. /\ \A c \in RightCols : MakeUnitary(d, lead)[c] =
           IF c < lead THEN d[c] ELSE ((d[c] % Modulus) * b) % Modulus
  BY <1>5
<1>9. MakeUnitary(d, lead) \in DenseRow
  BY <1>2, <1>5, <1>6, <1>7 DEF DenseRow
<1>10. MakeUnitary(d, lead)[lead] = 1
  BY <1>1, <1>2, <1>4, <1>8
<1>11. ASSUME NEW c \in RightCols
       PROVE  /\ c < lead => MakeUnitary(d, lead)[c] = d[c]
              /\ c >= lead => MakeUnitary(d, lead)[c] \in Scalar
              /\ c >= lead /\ d[c] % Modulus = 0 => MakeUnitary(d, lead)[c] = 0
  <2>1. c \in Int /\ lead \in Int
    BY <1>2
  <2>2. c >= lead => ~(c < lead)
    BY <2>1
  <2> QED
    BY <1>6, <1>8, <2>2
<1> QED
  BY <1>9, <1>10, <1>11

-----------------------------------------------------------------------------
(* The inductive invariant *)

(* Before the choice of an algorithm nothing of either is there. *)
NothingYet ==
  /\ pivotRowOfCol = <<>> /\ reduced = <<>>
  /\ dense = <<>> /\ leadCols = <<>> /\ isPivotRow = <<>>
  /\ columnHasPivot = {} /\ nextReducers = {}

(* reduce: todo are rows of the bottom left, then of tmp. *)
InReduce ==
  phase \in {"left", "right"} =>
    /\ NothingYet
    /\ tmp \in Seq([DOMAIN qm.topLeft -> Scalar])
    /\ Len(tmp) = Len(rowOrder)
    /\ todo \subseteq IF phase = "left" THEN DOMAIN qm.bottomLeft ELSE DOMAIN tmp

(* reduceToEchelonFormSparse: each pivot row begins with 1 in its column; the
   rows that are done are zero in the columns of the others. *)
InSparse ==
  phase \in {"sparse", "back"} =>
    /\ \A c \in PivotCols : BeginsIn(pivotRowOfCol[c], c)
    /\ phase = "sparse" => todo \subseteq DOMAIN lower /\ reduced = <<>>
    /\ phase = "back" =>
         /\ todo \subseteq PivotCols
         /\ \A c \in PivotCols \ todo : \A b \in PivotCols \ {c} : pivotRowOfCol[c][b] = 0
         /\ \A i \in DOMAIN reduced : \E c \in PivotCols \ todo :
              reduced[i] = pivotRowOfCol[c]
         /\ \A i, j \in DOMAIN reduced : LeadCol(reduced[i]) = LeadCol(reduced[j]) => i = j

(* The columns of pivots that reduced or reduce the rows: of the iterations
   before this one, and of those the ones whose pivots have done it already *)
PastCols == {leadCols[row] : row \in {r \in DOMAIN dense : isPivotRow[r]}}
ReducerCols == {LeadCol(reduced[k]) : k \in DOMAIN reduced}
OldCols == PastCols \ ReducerCols

(* d is a row with its first entry at or after lead and nothing in the columns
   cols, but a pivot keeps its lead; a product has been added for each of
   them at most. *)
ReducedIn(d, lead, isPivot, cols) ==
  /\ d \in DenseRow
  /\ \A c \in RightCols : c < lead => d[c] = 0
  /\ isPivot => lead < Right /\ d[lead] = 1
  /\ \A c \in cols : (isPivot /\ c = lead) \/ d[c] = 0
  /\ \A c \in RightCols : d[c] <= Most(Cardinality(cols))

DenseShape ==
  /\ DOMAIN dense = DOMAIN lower
  /\ DOMAIN leadCols = DOMAIN lower /\ DOMAIN isPivotRow = DOMAIN lower
  /\ todo \subseteq NonEmptyRows
  /\ \A row \in DOMAIN dense : isPivotRow[row] => row \in NonEmptyRows

RowsReduced ==
  \A row \in NonEmptyRows :
    ReducedIn(dense[row], leadCols[row], isPivotRow[row],
              IF row \in todo THEN OldCols ELSE PastCols)

(* A row that is done begins in a column that has a pivot by now. *)
RowsSettled ==
  \A row \in NonEmptyRows \ todo :
    leadCols[row] \in columnHasPivot /\ dense[row][leadCols[row]] # 0

NextReducersClaim ==
  \A p \in nextReducers :
    /\ p[2] \in NonEmptyRows \ todo /\ ~isPivotRow[p[2]]
    /\ leadCols[p[2]] = p[1]
    /\ dense[p[2]] \in ScalarRow /\ dense[p[2]][p[1]] = 1

ClaimsAgree ==
  /\ columnHasPivot = PastCols \cup {p[1] : p \in nextReducers}
  /\ \A r, s \in Claimed : leadCols[r] = leadCols[s] => r = s

InDense ==
  phase = "dense" =>
    DenseShape /\ RowsReduced /\ RowsSettled /\ NextReducersClaim /\ ClaimsAgree

(* The pivots that reduce the rows in this iteration, by their columns *)
ReducersInOrder ==
  phase = "dense" =>
    /\ \A k \in DOMAIN reduced :
         /\ \E c \in PastCols : BeginsIn(reduced[k], c)
         /\ \A c \in OldCols : reduced[k][c] = 0
    /\ \A k, l \in DOMAIN reduced : k < l => LeadCol(reduced[k]) < LeadCol(reduced[l])

DenseFits == \A row \in NonEmptyRows : \A c \in RightCols : dense[row][c] <= Most(Right)

RowsNotZero == \A row \in DOMAIN lower : ~Zero(lower[row])

Inv ==
  /\ TypeOK /\ DenseFits /\ RowsNotZero
  /\ InReduce /\ InSparse /\ InDense /\ ReducersInOrder
  /\ InEchelonForm

-----------------------------------------------------------------------------
(* The loops of reduce *)

(* The top rows begin in different columns, as many as there are. *)
LEMMA TopRows ==
  ASSUME NEW m \in QuadMatrices
  PROVE  /\ Len(m.topLeft) \in Nat /\ DOMAIN m.topLeft = 1..Len(m.topLeft)
         /\ LeftCols(m) \subseteq Nat
         /\ \A i \in DOMAIN m.topLeft :
              m.topLeft[i] \in [LeftCols(m) -> Scalar] /\ LeadCol(m.topLeft[i]) \in LeftCols(m)
         /\ \A c \in LeftCols(m) :
              LET top == m.topLeft[RowThatReducesCol(m, c)]
              IN  /\ top \in [LeftCols(m) -> Scalar]
                  /\ \A b \in LeftCols(m) : b < c => top[b] = 0
<1> DEFINE D == DOMAIN m.topLeft
           L == LeftCols(m)
           G == {i \in D : ~Zero(m.topLeft[i])}
           lead == [i \in G |-> LeadCol(m.topLeft[i])]
<1>1. m.topLeft \in Seq([L -> Scalar])
  BY QuadMatricesAssumption
<1>2. Len(m.topLeft) \in Nat /\ D = 1..Len(m.topLeft)
  BY <1>1
<1>3. L \subseteq Nat /\ \A i \in D : m.topLeft[i] \in [L -> Scalar] /\ DOMAIN m.topLeft[i] = L
  BY <1>1, <1>2 DEF LeftCols
<1>4. \A i \in G : /\ LeadCol(m.topLeft[i]) \in L
                   /\ \A b \in L : b < LeadCol(m.topLeft[i]) => m.topLeft[i][b] = 0
  BY <1>3, LeadExists
<1>5. \A c \in L : \E i \in G : LeadCol(m.topLeft[i]) = c
  BY QuadMatricesAssumption
<1>6. G = D
  <2>1. lead \in Surjection(G, L)
    BY <1>4, <1>5 DEF Surjection
  <2>2. IsFiniteSet(D) /\ Cardinality(D) = Len(m.topLeft)
    <3>1. 1 \in Int /\ Len(m.topLeft) \in Int
      BY <1>2
    <3>2. /\ IsFiniteSet(1..Len(m.topLeft))
          /\ Cardinality(1..Len(m.topLeft)) =
               IF 1 > Len(m.topLeft) THEN 0 ELSE Len(m.topLeft) - 1 + 1
      BY <3>1, FS_Interval
    <3> QED
      BY <1>2, <3>2
  <2>3. Cardinality(L) = Len(m.topLeft)
    <3>1. 0 \in Int /\ Len(m.topLeft) - 1 \in Int
      BY <1>2
    <3>2. Cardinality(0..Len(m.topLeft) - 1) =
            IF 0 > Len(m.topLeft) - 1 THEN 0 ELSE (Len(m.topLeft) - 1) - 0 + 1
      BY <3>1, FS_Interval
    <3> QED
      BY <1>2, <3>2 DEF LeftCols
  <2>4. G \in SUBSET D
    OBVIOUS
  <2> HIDE DEF D, G, L, lead
  <2>5. IsFiniteSet(G) /\ Cardinality(G) <= Cardinality(D)
    BY <2>2, <2>4, FS_Subset
  <2>6. Cardinality(L) <= Cardinality(G) /\ Cardinality(G) \in Nat
    BY <2>1, <2>5, FS_Surjection, FS_CardinalityType
  <2>7. Cardinality(D) = Cardinality(G)
    BY <1>2, <2>2, <2>3, <2>5, <2>6
  <2> QED
    BY <2>2, <2>4, <2>7, FS_Subset
<1>7. ASSUME NEW c \in L
      PROVE  RowThatReducesCol(m, c) \in D /\ LeadCol(m.topLeft[RowThatReducesCol(m, c)]) = c
  <2>1. \E i \in DOMAIN m.topLeft : LeadCol(m.topLeft[i]) = c
    BY <1>5
  <2> QED
    BY <2>1, Zenon DEF RowThatReducesCol
<1>8. \A c \in L : LET top == m.topLeft[RowThatReducesCol(m, c)]
                   IN  top \in [L -> Scalar] /\ \A b \in L : b < c => top[b] = 0
  BY <1>3, <1>4, <1>6, <1>7
<1>9. \A i \in D : LeadCol(m.topLeft[i]) \in L
  BY <1>4, <1>6
<1> QED
  BY <1>2, <1>3, <1>8, <1>9

(* The multipliers that a thread of reduce arrives at are scalars. *)
LEMMA MultiplesAreScalars ==
  ASSUME NEW m \in QuadMatrices, NEW row \in DOMAIN m.bottomLeft
  PROVE  LeftMultiples(m, row) \in [LeftCols(m) -> Scalar]
<1> DEFINE L == LeftCols(m)
           n == Len(m.topLeft)
           eliminate(d, pivot) ==
             LET entry == d[pivot] % Modulus
                 top == m.topLeft[RowThatReducesCol(m, pivot)]
             IN  IF entry = 0 THEN [d EXCEPT ![pivot] = 0]
                 ELSE [AddRowMultiple(d, Modulus - entry, [top EXCEPT ![pivot] = 0])
                         EXCEPT ![pivot] = Modulus - entry]
           step == [k \in 1..n |-> [d \in [L -> Nat] |-> eliminate(d, k - 1)]]
           start == m.bottomLeft[row]
<1>1. n \in Nat /\ L = 0..n - 1 /\ L \subseteq Nat /\ \A a \in Scalar : a \in Nat
  BY TopRows, Remainders DEF LeftCols, Scalar
<1>2. start \in [L -> Scalar]
  <2>1. m.bottomLeft \in Seq([L -> Scalar])
    BY QuadMatricesAssumption
  <2> HIDE DEF L
  <2> QED
    BY <2>1
<1>3. ASSUME NEW d \in [L -> Nat], NEW pivot \in L
      PROVE  /\ eliminate(d, pivot) \in [L -> Nat]
             /\ eliminate(d, pivot)[pivot] \in Scalar
             /\ \A c \in L : c < pivot => eliminate(d, pivot)[c] = d[c]
  <2> DEFINE entry == d[pivot] % Modulus
             top == m.topLeft[RowThatReducesCol(m, pivot)]
             rest == [top EXCEPT ![pivot] = 0]
  <2>1. top \in [L -> Scalar] /\ \A b \in L : b < pivot => top[b] = 0
    BY TopRows
  <2>2. /\ DOMAIN rest = L /\ \A c \in L : rest[c] \in Scalar
        /\ \A c \in L : c < pivot => rest[c] = 0
    BY <1>1, <2>1, Remainders
  <2>3. entry \in Scalar
    BY Remainders
  <2>4. CASE entry = 0
    <3>1. eliminate(d, pivot) = [d EXCEPT ![pivot] = 0]
      BY <2>4
    <3>2. 0 \in Scalar /\ 0 \in Nat
      BY Remainders
    <3> HIDE DEF eliminate, L
    <3>3. eliminate(d, pivot) \in [L -> Nat]
      BY <3>1, <3>2
    <3>4. \A c \in L : eliminate(d, pivot)[c] = IF c = pivot THEN 0 ELSE d[c]
      BY <3>1
    <3> QED
      BY <1>1, <3>2, <3>3, <3>4
  <2>5. CASE entry # 0
    <3> HIDE DEF entry, top, rest
    <3>1. PICK multiple \in Scalar : multiple = Modulus - entry
      BY <2>3, <2>5, Remainders DEF Scalar
    <3>2. /\ AddRowMultiple(d, multiple, rest) \in [L -> Nat]
          /\ \A c \in L : rest[c] = 0 => AddRowMultiple(d, multiple, rest)[c] = d[c]
      BY <2>2, RowAdded
    <3>3. eliminate(d, pivot) = [AddRowMultiple(d, multiple, rest) EXCEPT ![pivot] = multiple]
      BY <2>5, <3>1 DEF entry, top, rest
    <3> HIDE DEF eliminate
    <3> QED
      BY <1>1, <2>2, <3>2, <3>3
  <2> QED
    BY <2>4, <2>5
<1> HIDE DEF eliminate
<1>4. LeftMultiples(m, row) = Folded(step, start, n)
  BY DEF LeftMultiples, eliminate
<1>5. PICK after :
        /\ after[0] = start
        /\ \A k \in 1..n : after[k] = step[k][after[k - 1]]
        /\ Folded(step, start, n) = after[n]
  <2> HIDE DEF step, start, n
  <2> QED
    BY <1>1, LoopTurns
<1>6. \A k \in 1..n : \A d \in [L -> Nat] : step[k][d] = eliminate(d, k - 1)
  OBVIOUS
<1> HIDE DEF step, start, n, L
<1> DEFINE T == {k \in 0..n : /\ after[k] \in [L -> Nat]
                              /\ \A c \in L : c < k => after[k][c] \in Scalar}
<1>7. 0 \in T
  BY <1>1, <1>2, <1>5
<1>8. ASSUME NEW k \in 1..n, k - 1 \in T
      PROVE  k \in T
  <2>1. /\ after[k - 1] \in [L -> Nat]
        /\ \A c \in L : c < k - 1 => after[k - 1][c] \in Scalar
    BY <1>8
  <2>2. k - 1 \in L /\ after[k] = eliminate(after[k - 1], k - 1)
    BY <1>1, <1>5, <1>6, <2>1
  <2>3. /\ after[k] \in [L -> Nat] /\ after[k][k - 1] \in Scalar
        /\ \A c \in L : c < k - 1 => after[k][c] = after[k - 1][c]
    BY <1>3, <2>1, <2>2
  <2>4. \A c \in L : c < k => c < k - 1 \/ c = k - 1
    BY <1>1
  <2>5. \A c \in L : c < k => after[k][c] \in Scalar
    BY <2>1, <2>3, <2>4
  <2> QED
    BY <2>3, <2>5
<1> HIDE DEF T
<1>9. n \in T
  BY <1>1, <1>7, <1>8, EachTurn
<1>10. after[n] \in [L -> Nat] /\ \A c \in L : c < n => after[n][c] \in Scalar
  BY <1>9 DEF T
<1>11. \A c \in L : c < n
  BY <1>1
<1>12. after[n] \in [L -> Scalar]
  BY <1>10, <1>11
<1> QED
  BY <1>4, <1>5, <1>12 DEF L

(* The sums that reduceRight takes the modulus of *)
LEMMA RightSumsFit ==
  ASSUME TypeOK, InReduce, phase = "right", NEW i \in DOMAIN tmp
  PROVE  /\ RightSums(i) \in DenseRow
         /\ \A c \in RightCols : RightSums(i)[c] <= Most(Len(qm.topLeft))
<1> DEFINE n == Len(qm.topRight)
           step == [k \in DOMAIN qm.topRight |->
                      [d \in DenseRow |-> AddRowMultiple(d, tmp[i][k], qm.topRight[k])]]
           start == qm.bottomRight[rowOrder[i]]
<1>1. /\ qm \in QuadMatrices
      /\ rowOrder \in Seq(DOMAIN qm.bottomLeft)
      /\ tmp \in Seq([DOMAIN qm.topLeft -> Scalar]) /\ Len(tmp) = Len(rowOrder)
  BY DEF TypeOK, InReduce
<1>2. /\ qm.topLeft \in Seq([LeftCols(qm) -> Scalar])
      /\ qm.topRight \in Seq(ScalarRow)
      /\ qm.bottomLeft \in Seq([LeftCols(qm) -> Scalar])
      /\ qm.bottomRight \in Seq(ScalarRow)
      /\ Len(qm.topLeft) = Len(qm.topRight) /\ Len(qm.bottomLeft) = Len(qm.bottomRight)
  BY <1>1, QuadMatricesAssumption DEF ScalarRow
<1>3. /\ n \in Nat /\ DOMAIN qm.topRight = 1..n /\ DOMAIN qm.topLeft = 1..n
      /\ n = Len(qm.topLeft)
  BY <1>2
<1>4. start \in ScalarRow
  <2>1. rowOrder[i] \in DOMAIN qm.bottomLeft
    BY <1>1
  <2>2. rowOrder[i] \in DOMAIN qm.bottomRight
    BY <1>2, <2>1
  <2> QED
    BY <1>2, <2>2
<1>5. \A k \in 1..n : tmp[i][k] \in Scalar /\ qm.topRight[k] \in ScalarRow
  <2>1. tmp[i] \in [DOMAIN qm.topLeft -> Scalar]
    BY <1>1
  <2> QED
    BY <1>2, <1>3, <2>1, SMTT(20)
<1>6. \A k \in 1..n : \A d \in DenseRow :
        step[k][d] = AddRowMultiple(d, tmp[i][k], qm.topRight[k])
  BY <1>3
<1>7. RightSums(i) = Folded(step, start, n)
  BY DEF RightSums
<1>8. PICK after :
        /\ after[0] = start
        /\ \A k \in 1..n : after[k] = step[k][after[k - 1]]
        /\ Folded(step, start, n) = after[n]
  <2> HIDE DEF step, start, n
  <2> QED
    BY <1>3, LoopTurns
<1> HIDE DEF step, start, n
<1> DEFINE T == {k \in 0..n : /\ after[k] \in DenseRow
                              /\ \A c \in RightCols : after[k][c] <= Most(k)}
<1>9. 0 \in T
  <2>1. start \in DenseRow /\ \A c \in RightCols : start[c] <= Modulus - 1
    BY <1>4, Remainders DEF ScalarRow, DenseRow, Scalar
  <2>2. Modulus - 1 <= Most(0) /\ Most(0) \in Nat /\ Modulus \in Nat
    BY MostGrows, Remainders
  <2>3. \A c \in RightCols : start[c] \in Nat
    BY <2>1 DEF DenseRow
  <2> QED
    BY <1>3, <1>8, <2>1, <2>2, <2>3
<1>10. ASSUME NEW k \in 1..n, k - 1 \in T
       PROVE  k \in T
  <2>1. /\ after[k - 1] \in DenseRow
        /\ \A c \in RightCols : after[k - 1][c] <= Most(k - 1)
    BY <1>10
  <2>2. /\ after[k] = AddRowMultiple(after[k - 1], tmp[i][k], qm.topRight[k])
        /\ tmp[i][k] \in Scalar /\ qm.topRight[k] \in [RightCols -> Scalar]
    BY <1>5, <1>6, <1>8, <2>1 DEF ScalarRow
  <2>3. PICK multiple \in Scalar, row \in [RightCols -> Scalar] :
          multiple = tmp[i][k] /\ row = qm.topRight[k]
    BY <2>2
  <2>4. /\ DOMAIN row = RightCols /\ \A c \in RightCols : row[c] \in Scalar
        /\ after[k - 1] \in [RightCols -> Nat]
    BY <2>1 DEF DenseRow
  <2>5. /\ after[k] \in [RightCols -> Nat]
        /\ \A c \in RightCols :
             after[k][c] <= after[k - 1][c] + (Modulus - 1) * (Modulus - 1)
    BY <2>2, <2>3, <2>4, RowAdded
  <2>6. /\ Most(k) = Most(k - 1) + (Modulus - 1) * (Modulus - 1)
        /\ Most(k) \in Nat /\ Most(k - 1) \in Nat /\ (Modulus - 1) * (Modulus - 1) \in Int
    <3>1. k - 1 \in Nat /\ k \in Nat /\ (k - 1) + 1 = k
      BY <1>3
    <3>2. PICK j \in Nat : j = k - 1
      BY <3>1
    <3>3. Most(j) \in Nat /\ Most(j + 1) = Most(j) + (Modulus - 1) * (Modulus - 1)
      BY MostGrows
    <3>4. (Modulus - 1) * (Modulus - 1) \in Int
      BY Remainders
    <3>5. Most(k) \in Nat
      BY <3>1, MostGrows
    <3>6. Most(k) = Most(j + 1)
      BY <3>1, <3>2
    <3> QED
      BY <3>2, <3>3, <3>4, <3>5, <3>6
  <2>7. \A c \in RightCols : after[k][c] \in Nat /\ after[k - 1][c] \in Nat
    BY <2>4, <2>5
  <2>8. \A c \in RightCols : after[k][c] <= Most(k)
    BY <2>1, <2>5, <2>6, <2>7
  <2> QED
    BY <2>5, <2>8 DEF DenseRow
<1> HIDE DEF T
<1>11. n \in T
  <2>1. n \in Nat
    BY <1>3
  <2>2. 0..n \subseteq T
    BY <1>9, <1>10, <2>1, EachTurn
  <2> QED
    BY <2>1, <2>2
<1> QED
  BY <1>3, <1>7, <1>8, <1>11 DEF T

-----------------------------------------------------------------------------
(* The loops of reduceToEchelonFormSparse *)

PivotsBegin ==
  \A c \in PivotCols : /\ c \in RightCols /\ pivotRowOfCol[c] \in ScalarRow
                       /\ BeginsIn(pivotRowOfCol[c], c)

LEMMA ReducedByPivots ==
  ASSUME PivotsBegin, NEW d \in DenseRow
  PROVE  ReduceByPivots(d) \in DenseRow
<1> DEFINE stuck(e) == \E c \in RightCols \ PivotCols :
             e[c] % Modulus # 0 /\ \A b \in 0..c - 1 : e[b] % Modulus = 0
           reduceCol(e, c) ==
             IF stuck(e) \/ c \notin PivotCols THEN e
             ELSE RowReduceByUnitary(e, pivotRowOfCol[c])
           step == [k \in 1..Right |-> [e \in DenseRow |-> reduceCol(e, k - 1)]]
<1>1. Right \in Nat
  BY QuadMatricesAssumption
<1>2. ASSUME NEW e \in DenseRow, NEW c
      PROVE  reduceCol(e, c) \in DenseRow
  <2>1. CASE stuck(e) \/ c \notin PivotCols
    BY <2>1
  <2>2. CASE ~(stuck(e) \/ c \notin PivotCols)
    <3>1. pivotRowOfCol[c] \in ScalarRow /\ BeginsIn(pivotRowOfCol[c], c)
      BY <2>2 DEF PivotsBegin
    <3>2. PICK pivot \in ScalarRow : pivot = pivotRowOfCol[c]
      BY <3>1
    <3>3. RowReduceByUnitary(e, pivot) \in DenseRow
      BY <3>1, <3>2, RowReduced
    <3> QED
      BY <2>2, <3>2, <3>3
  <2> QED
    BY <2>1, <2>2
<1>3. ReduceByPivots(d) = Folded(step, d, Right)
  BY DEF ReduceByPivots
<1> HIDE DEF reduceCol
<1>4. \A k \in 1..Right : \A e \in DenseRow : step[k][e] \in DenseRow
  BY <1>2
<1> HIDE DEF step
<1>5. PICK after :
        /\ after[0] = d
        /\ \A k \in 1..Right : after[k] = step[k][after[k - 1]]
        /\ Folded(step, d, Right) = after[Right]
  BY <1>1, LoopTurns
<1> DEFINE T == {k \in 0..Right : after[k] \in DenseRow}
<1>6. 0 \in T
  BY <1>1, <1>5
<1>7. ASSUME NEW k \in 1..Right, k - 1 \in T
      PROVE  k \in T
  BY <1>1, <1>4, <1>5, <1>7
<1> HIDE DEF T
<1>8. 0..Right \subseteq T
  BY <1>1, <1>6, <1>7, EachTurn
<1>9. Right \in T
  BY <1>1, <1>8
<1> QED
  BY <1>3, <1>5, <1>9 DEF T

(* A pivot row reduced by the later ones has scalars only, nothing in their
   columns, and what it had up to its own column. *)
LEMMA ReducedByLaterPivots ==
  ASSUME PivotsBegin, NEW p \in PivotCols
  PROVE  /\ ReduceByLaterPivots(p) \in ScalarRow
         /\ \A c \in RightCols : c <= p => ReduceByLaterPivots(p)[c] = pivotRowOfCol[p][c]
         /\ \A c \in PivotCols : c > p => ReduceByLaterPivots(p)[c] = 0
<1> DEFINE start == pivotRowOfCol[p]
           reduceCol(e, c) ==
             LET f == [e EXCEPT ![c] = @ % Modulus]
             IN  IF c <= p THEN e
                 ELSE IF f[c] # 0 /\ c \in PivotCols THEN RowReduceByUnitary(f, pivotRowOfCol[c])
                 ELSE f
           step == [k \in 1..Right |-> [e \in DenseRow |-> reduceCol(e, k - 1)]]
<1>1. Right \in Nat /\ RightCols = 0..Right - 1 /\ RightCols \subseteq Nat /\ p \in RightCols
  BY QuadMatricesAssumption DEF RightCols, PivotsBegin
<1>2. start \in ScalarRow /\ start \in DenseRow
  BY Remainders DEF PivotsBegin, ScalarRow, DenseRow, Scalar
<1>3. ReduceByLaterPivots(p) = Folded(step, start, Right)
  BY DEF ReduceByLaterPivots
<1> HIDE DEF start
<1>4. ASSUME NEW e \in DenseRow, NEW c \in RightCols, c > p
      PROVE  /\ reduceCol(e, c) \in DenseRow
             /\ reduceCol(e, c)[c] \in Scalar
             /\ c \in PivotCols => reduceCol(e, c)[c] = 0
             /\ \A b \in RightCols : b < c => reduceCol(e, c)[b] = e[b]
  <2> DEFINE f == [e EXCEPT ![c] = @ % Modulus]
  <2>1. ~(c <= p) /\ e[c] \in Nat /\ e \in [RightCols -> Nat]
    BY <1>1, <1>4 DEF DenseRow
  <2>2. PICK s \in Scalar : s = e[c] % Modulus /\ s \in Nat
    BY <2>1, Remainders DEF Scalar
  <2>3. /\ f \in DenseRow /\ f[c] = s
        /\ \A b \in RightCols : b < c => f[b] = e[b]
    BY <1>1, <2>1, <2>2 DEF DenseRow
  <2>4. reduceCol(e, c) = IF f[c] # 0 /\ c \in PivotCols
                          THEN RowReduceByUnitary(f, pivotRowOfCol[c]) ELSE f
    BY <2>1
  <2> HIDE DEF f, reduceCol
  <2>5. CASE f[c] # 0 /\ c \in PivotCols
    <3>1. pivotRowOfCol[c] \in ScalarRow /\ BeginsIn(pivotRowOfCol[c], c)
      BY <2>5 DEF PivotsBegin
    <3>2. PICK pivot \in ScalarRow : pivot = pivotRowOfCol[c]
      BY <3>1
    <3>3. /\ RowReduceByUnitary(f, pivot) \in DenseRow
          /\ RowReduceByUnitary(f, pivot)[c] = 0
          /\ \A b \in RightCols : b < c => RowReduceByUnitary(f, pivot)[b] = f[b]
      BY <2>3, <3>1, <3>2, RowReduced
    <3>4. reduceCol(e, c) = RowReduceByUnitary(f, pivot)
      BY <2>4, <2>5, <3>2
    <3> QED
      BY <2>3, <3>3, <3>4, Remainders
  <2>6. CASE ~(f[c] # 0 /\ c \in PivotCols)
    BY <2>2, <2>3, <2>4, <2>6
  <2> QED
    BY <2>5, <2>6
<1>5. ASSUME NEW e \in DenseRow, NEW c \in RightCols, ~(c > p)
      PROVE  reduceCol(e, c) = e
  BY <1>1, <1>5
<1> HIDE DEF reduceCol
<1>6. \A k \in 1..Right : \A e \in DenseRow : step[k][e] = reduceCol(e, k - 1)
  OBVIOUS
<1> HIDE DEF step
<1>7. PICK after :
        /\ after[0] = start
        /\ \A k \in 1..Right : after[k] = step[k][after[k - 1]]
        /\ Folded(step, start, Right) = after[Right]
  BY <1>1, LoopTurns
<1> DEFINE T == {k \in 0..Right :
             /\ after[k] \in DenseRow
             /\ \A c \in RightCols : c <= p => after[k][c] = start[c]
             /\ \A c \in RightCols : p < c /\ c < k =>
                  after[k][c] \in Scalar /\ (c \in PivotCols => after[k][c] = 0)}
<1>8. 0 \in T
  BY <1>1, <1>2, <1>7
<1>9. ASSUME NEW k \in 1..Right, k - 1 \in T
      PROVE  k \in T
  <2>1. /\ after[k - 1] \in DenseRow
        /\ \A c \in RightCols : c <= p => after[k - 1][c] = start[c]
        /\ \A c \in RightCols : p < c /\ c < k - 1 =>
             after[k - 1][c] \in Scalar /\ (c \in PivotCols => after[k - 1][c] = 0)
    BY <1>9
  <2>2. k - 1 \in RightCols /\ after[k] = reduceCol(after[k - 1], k - 1)
    BY <1>1, <1>6, <1>7, <2>1
  <2>3. CASE k - 1 > p
    <3>1. /\ after[k] \in DenseRow /\ after[k][k - 1] \in Scalar
          /\ k - 1 \in PivotCols => after[k][k - 1] = 0
          /\ \A b \in RightCols : b < k - 1 => after[k][b] = after[k - 1][b]
      BY <1>4, <2>1, <2>2, <2>3
    <3>2. \A c \in RightCols : /\ c <= p => c < k - 1
                               /\ c < k => c < k - 1 \/ c = k - 1
      BY <1>1, <2>3
    <3>3. \A c \in RightCols : c <= p => after[k][c] = start[c]
      BY <2>1, <3>1, <3>2
    <3>4. \A c \in RightCols : p < c /\ c < k =>
            after[k][c] \in Scalar /\ (c \in PivotCols => after[k][c] = 0)
      BY <2>1, <3>1, <3>2
    <3> QED
      BY <3>1, <3>3, <3>4
  <2>4. CASE ~(k - 1 > p)
    <3>1. after[k] = after[k - 1]
      BY <1>5, <2>1, <2>2, <2>4
    <3>2. \A c \in RightCols : ~(p < c /\ c < k)
      BY <1>1, <2>4
    <3> QED
      BY <2>1, <3>1, <3>2
  <2> QED
    BY <2>3, <2>4
<1> HIDE DEF T
<1>10. 0..Right \subseteq T
  BY <1>1, <1>8, <1>9, EachTurn
<1>11. Right \in T
  BY <1>1, <1>10
<1>12. /\ after[Right] \in DenseRow
       /\ \A c \in RightCols : c <= p => after[Right][c] = start[c]
       /\ \A c \in RightCols : p < c /\ c < Right =>
            after[Right][c] \in Scalar /\ (c \in PivotCols => after[Right][c] = 0)
  BY <1>11 DEF T
<1>13. \A c \in RightCols : c < Right /\ (c <= p \/ p < c) /\ (c > p <=> p < c)
  BY <1>1
<1>14. \A c \in RightCols : after[Right][c] \in Scalar
  BY <1>2, <1>12, <1>13 DEF ScalarRow
<1>15. after[Right] \in ScalarRow
  BY <1>12, <1>14 DEF DenseRow, ScalarRow
<1>16. \A c \in PivotCols : c > p => after[Right][c] = 0
  BY <1>12, <1>13 DEF PivotsBegin
<1> QED
  BY <1>3, <1>7, <1>12, <1>15, <1>16 DEF start

-----------------------------------------------------------------------------
(* The loop of reduceToEchelonForm *)

(* A row reduced by one pivot more *)
LEMMA OneReducerMore ==
  ASSUME NEW d, NEW lead \in 0..Right, NEW isPivot \in BOOLEAN, NEW cols \in SUBSET RightCols,
         ReducedIn(d, lead, isPivot, cols),
         NEW pivot \in ScalarRow, NEW col \in RightCols, col \notin cols, BeginsIn(pivot, col),
         \A c \in cols : pivot[c] = 0
  PROVE  ReducedIn(IF d[col] = 0 \/ (isPivot /\ col = lead) THEN d
                   ELSE RowReduceByUnitary(d, pivot),
                   lead, isPivot, cols \cup {col})
<1>1. /\ Right \in Nat /\ RightCols \subseteq Nat /\ RightCols = 0..Right - 1
      /\ IsFiniteSet(RightCols)
  <2>1. Right \in Nat /\ 0 \in Int /\ Right - 1 \in Int
    BY QuadMatricesAssumption
  <2> QED
    BY <2>1, FS_Interval DEF RightCols
<1>2. IsFiniteSet(cols) /\ Cardinality(cols) \in Nat
  BY <1>1, FS_Subset, FS_CardinalityType
<1>3. Cardinality(cols \cup {col}) = Cardinality(cols) + 1
  BY <1>2, FS_AddElement
<1>4. PICK n \in Nat : n = Cardinality(cols)
  BY <1>2
<1>5. /\ Most(n) \in Nat /\ Most(n + 1) = Most(n) + (Modulus - 1) * (Modulus - 1)
      /\ (Modulus - 1) * (Modulus - 1) \in Nat
  <2>1. Modulus - 1 \in Nat
    BY Remainders
  <2>2. (Modulus - 1) * (Modulus - 1) \in Nat
    BY <2>1
  <2> QED
    BY <2>2, MostGrows
<1>6. /\ d \in DenseRow /\ \A c \in RightCols : d[c] \in Nat
      /\ \A c \in RightCols : c < lead => d[c] = 0
      /\ isPivot => lead < Right /\ d[lead] = 1
      /\ \A c \in cols : (isPivot /\ c = lead) \/ d[c] = 0
      /\ \A c \in RightCols : d[c] <= Most(n)
  BY <1>4 DEF ReducedIn, DenseRow
<1>7. CASE d[col] = 0 \/ (isPivot /\ col = lead)
  <2>1. \A c \in RightCols : d[c] <= Most(n + 1)
    BY <1>5, <1>6
  <2>2. \A c \in cols \cup {col} : (isPivot /\ c = lead) \/ d[c] = 0
    BY <1>6, <1>7
  <2>3. ReducedIn(d, lead, isPivot, cols \cup {col})
    BY <1>3, <1>4, <1>6, <2>1, <2>2 DEF ReducedIn
  <2> QED
    BY <1>7, <2>3
<1>8. CASE ~(d[col] = 0 \/ (isPivot /\ col = lead))
  <2> DEFINE e == RowReduceByUnitary(d, pivot)
  <2>1. /\ e \in DenseRow /\ e[col] = 0
        /\ \A c \in RightCols :
             /\ c < col => e[c] = d[c]
             /\ c # col /\ pivot[c] = 0 => e[c] = d[c]
             /\ e[c] <= d[c] + (Modulus - 1) * (Modulus - 1)
    BY <1>6, RowReduced
  <2> HIDE DEF e
  <2>2. lead \in Nat /\ ~(col < lead)
    BY <1>1, <1>6, <1>8
  <2>3. \A c \in RightCols : c < lead => e[c] = 0
    BY <1>1, <1>6, <2>1, <2>2
  <2>4. ASSUME isPivot
        PROVE  lead < Right /\ e[lead] = 1
    <3>1. lead < Right /\ d[lead] = 1 /\ lead # col
      BY <1>6, <1>8, <2>4
    <3>2. lead \in RightCols /\ lead < col
      BY <1>1, <2>2, <3>1
    <3> QED
      BY <2>1, <3>1, <3>2
  <2>5. \A c \in cols \cup {col} : (isPivot /\ c = lead) \/ e[c] = 0
    BY <1>6, <2>1
  <2>6. \A c \in RightCols : e[c] \in Nat
    BY <2>1 DEF DenseRow
  <2>7. \A c \in RightCols : e[c] <= Most(n + 1)
    BY <1>5, <1>6, <2>1, <2>6
  <2>8. ReducedIn(e, lead, isPivot, cols \cup {col})
    BY <1>3, <1>4, <2>1, <2>3, <2>4, <2>5, <2>7 DEF ReducedIn
  <2> QED
    BY <1>8, <2>8 DEF e
<1> QED
  BY <1>7, <1>8

LEMMA PastColsAreColumns ==
  ASSUME TypeOK, InDense, phase = "dense"
  PROVE  /\ Right \in Nat /\ RightCols = 0..Right - 1 /\ RightCols \subseteq Nat
         /\ IsFiniteSet(RightCols) /\ Cardinality(RightCols) = Right
         /\ PastCols \subseteq RightCols
<1>1. /\ Right \in Nat /\ RightCols = 0..Right - 1 /\ RightCols \subseteq Nat
      /\ IsFiniteSet(RightCols) /\ Cardinality(RightCols) = Right
  <2>1. Right \in Nat /\ 0 \in Int /\ Right - 1 \in Int
    BY QuadMatricesAssumption
  <2>2. /\ IsFiniteSet(0..Right - 1)
        /\ Cardinality(0..Right - 1) = IF 0 > Right - 1 THEN 0 ELSE (Right - 1) - 0 + 1
    BY <2>1, FS_Interval
  <2> QED
    BY <2>1, <2>2 DEF RightCols
<1>2. ASSUME NEW row \in DOMAIN dense, isPivotRow[row]
      PROVE  leadCols[row] \in RightCols
  <2>1. row \in NonEmptyRows /\ row \in DOMAIN leadCols
    BY <1>2 DEF InDense, DenseShape
  <2>2. leadCols[row] \in 0..Right
    BY <2>1 DEF TypeOK
  <2>3. ReducedIn(dense[row], leadCols[row], isPivotRow[row],
                  IF row \in todo THEN OldCols ELSE PastCols)
    BY <2>1 DEF InDense, RowsReduced
  <2>4. leadCols[row] < Right
    BY <1>2, <2>3 DEF ReducedIn
  <2> QED
    BY <1>1, <2>2, <2>4
<1> QED
  BY <1>1, <1>2 DEF PastCols

LEMMA RowReducedByReducers ==
  ASSUME TypeOK, InDense, ReducersInOrder, phase = "dense", NEW row \in todo
  PROVE  ReducedIn(ReduceByReducers(row), leadCols[row], isPivotRow[row], PastCols)
<1> DEFINE n == Len(reduced)
           reduceBy(d, reducer) ==
             LET col == LeadCol(reducer)
             IN  IF d[col] = 0 \/ (isPivotRow[row] /\ col = leadCols[row]) THEN d
                 ELSE RowReduceByUnitary(d, reducer)
           step == [k \in DOMAIN reduced |-> [d \in DenseRow |-> reduceBy(d, reduced[k])]]
           colsTo(k) == OldCols \cup {LeadCol(reduced[j]) : j \in 1..k}
           start == dense[row]
<1>1. n \in Nat /\ DOMAIN reduced = 1..n /\ \A k \in 1..n : reduced[k] \in ScalarRow
  <2>1. reduced \in Seq(ScalarRow)
    BY DEF TypeOK, ScalarRow
  <2> QED
    BY <2>1
<1>2. RightCols \subseteq Nat /\ PastCols \subseteq RightCols
  BY PastColsAreColumns
<1>3. ASSUME NEW k \in 1..n
      PROVE  /\ LeadCol(reduced[k]) \in PastCols /\ BeginsIn(reduced[k], LeadCol(reduced[k]))
             /\ \A c \in OldCols : reduced[k][c] = 0
  <2>1. PICK c \in PastCols : BeginsIn(reduced[k], c)
    BY <1>1 DEF ReducersInOrder
  <2>2. DOMAIN reduced[k] \subseteq Nat
    BY <1>1, <1>2 DEF ScalarRow
  <2>3. LeadCol(reduced[k]) = c
    BY <2>1, <2>2, LeadIs
  <2> QED
    BY <1>1, <2>1, <2>3 DEF ReducersInOrder
<1>4. /\ row \in NonEmptyRows /\ row \in DOMAIN leadCols /\ row \in DOMAIN isPivotRow
      /\ leadCols[row] \in 0..Right /\ isPivotRow[row] \in BOOLEAN
  <2>1. row \in NonEmptyRows
    BY DEF InDense, DenseShape
  <2>2. row \in DOMAIN leadCols /\ row \in DOMAIN isPivotRow
    BY <2>1 DEF InDense, DenseShape, NonEmptyRows
  <2> QED
    BY <2>1, <2>2 DEF TypeOK
<1>5. ReducedIn(start, leadCols[row], isPivotRow[row], OldCols)
  <2>1. ReducedIn(dense[row], leadCols[row], isPivotRow[row],
                  IF row \in todo THEN OldCols ELSE PastCols)
    BY <1>4 DEF InDense, RowsReduced
  <2> QED
    BY <2>1
<1>6. ReduceByReducers(row) = Folded(step, start, n)
  BY DEF ReduceByReducers
<1> HIDE DEF reduceBy, start
<1>7. \A k \in 1..n : \A d \in DenseRow : step[k][d] = reduceBy(d, reduced[k])
  BY <1>1
<1> HIDE DEF step, n
<1>8. PICK after :
        /\ after[0] = start
        /\ \A k \in 1..n : after[k] = step[k][after[k - 1]]
        /\ Folded(step, start, n) = after[n]
  BY <1>1, LoopTurns
<1> DEFINE T == {k \in 0..n : ReducedIn(after[k], leadCols[row], isPivotRow[row], colsTo(k))}
<1>9. 0 \in T
  <2>1. colsTo(0) = OldCols
    OBVIOUS
  <2> HIDE DEF colsTo
  <2>2. ReducedIn(after[0], leadCols[row], isPivotRow[row], colsTo(0))
    BY <1>5, <1>8, <2>1
  <2> QED
    BY <1>1, <2>2
<1>10. ASSUME NEW k \in 1..n, k - 1 \in T
       PROVE  k \in T
  <2>1. ReducedIn(after[k - 1], leadCols[row], isPivotRow[row], colsTo(k - 1))
    BY <1>10
  <2>2. PICK pivot \in ScalarRow, col \in RightCols :
          pivot = reduced[k] /\ col = LeadCol(reduced[k])
    BY <1>1, <1>2, <1>3
  <2>3. after[k - 1] \in DenseRow
    BY <2>1 DEF ReducedIn
  <2>4. after[k] = IF after[k - 1][col] = 0 \/ (isPivotRow[row] /\ col = leadCols[row])
                   THEN after[k - 1] ELSE RowReduceByUnitary(after[k - 1], pivot)
    BY <1>7, <1>8, <2>2, <2>3 DEF reduceBy
  <2>earlier. ASSUME NEW j \in 1..(k - 1)
              PROVE  LeadCol(reduced[j]) \in RightCols
    <3>1. j \in 1..n
      BY <1>1
    <3> QED
      BY <1>2, <1>3, <3>1
  <2>5. /\ colsTo(k) = colsTo(k - 1) \cup {col}
        /\ colsTo(k - 1) \in SUBSET RightCols
    <3>1. 1..k = 1..(k - 1) \cup {k}
      BY <1>1
    <3>2. \A j \in 1..(k - 1) : LeadCol(reduced[j]) \in RightCols
      BY <2>earlier
    <3> QED
      BY <1>2, <2>2, <3>1, <3>2 DEF OldCols
  <2>6. col \notin colsTo(k - 1) /\ \A c \in colsTo(k - 1) : pivot[c] = 0
    <3>1. \A j \in 1..(k - 1) : LeadCol(reduced[j]) < LeadCol(reduced[k])
      BY <1>1 DEF ReducersInOrder
    <3>2. \A j \in 1..(k - 1) : LeadCol(reduced[j]) \in RightCols
      BY <2>earlier
    <3>3. col \notin OldCols
      BY <1>1, <2>2 DEF OldCols, ReducerCols
    <3>4. \A c \in OldCols : pivot[c] = 0
      BY <1>3, <2>2
    <3>5. \A c \in RightCols : c < col => pivot[c] = 0
      BY <1>3, <2>2 DEF BeginsIn, ScalarRow
    <3>6. \A j \in 1..(k - 1) : LeadCol(reduced[j]) # col /\ pivot[LeadCol(reduced[j])] = 0
      BY <1>2, <2>2, <3>1, <3>2, <3>5
    <3> QED
      BY <3>3, <3>4, <3>6
  <2>7. BeginsIn(pivot, col)
    BY <1>3, <2>2
  <2> HIDE DEF colsTo, T
  <2>8. PICK d \in DenseRow, lead \in 0..Right, isPivot \in BOOLEAN, cols \in SUBSET RightCols :
          /\ d = after[k - 1] /\ lead = leadCols[row] /\ isPivot = isPivotRow[row]
          /\ cols = colsTo(k - 1)
    BY <1>4, <2>3, <2>5
  <2>9. /\ ReducedIn(d, lead, isPivot, cols) /\ col \notin cols
        /\ \A c \in cols : pivot[c] = 0
    BY <2>1, <2>6, <2>8
  <2>10. ReducedIn(IF d[col] = 0 \/ (isPivot /\ col = lead) THEN d
                   ELSE RowReduceByUnitary(d, pivot), lead, isPivot, cols \cup {col})
    BY <2>7, <2>9, OneReducerMore
  <2>11. ReducedIn(after[k], leadCols[row], isPivotRow[row], colsTo(k))
    BY <2>4, <2>5, <2>8, <2>10
  <2> QED
    BY <2>11 DEF T
<1> HIDE DEF T
<1>11. n \in T
  <2>1. n \in Nat
    BY <1>1
  <2>2. 0..n \subseteq T
    BY <1>9, <1>10, <2>1, EachTurn
  <2> QED
    BY <2>1, <2>2
<1>12. colsTo(n) = PastCols
  BY <1>1, <1>3 DEF OldCols, ReducerCols
<1> QED
  BY <1>6, <1>8, <1>11, <1>12 DEF T

(* The first nonzero entry at or after lead, and the row with zeros cleared on
   the way there *)
NewLead(d, lead) == Min({c \in lead..Right - 1 : d[c] % Modulus # 0} \cup {Right})

Settled(d, lead) ==
  [c \in RightCols |-> IF c \in lead..NewLead(d, lead) THEN d[c] % Modulus ELSE d[c]]

LEMMA RowSettles ==
  ASSUME NEW d, NEW lead \in 0..Right, NEW isPivot \in BOOLEAN, NEW cols \in SUBSET RightCols,
         ReducedIn(d, lead, isPivot, cols)
  PROVE  /\ NewLead(d, lead) \in 0..Right
         /\ isPivot => NewLead(d, lead) = lead /\ lead \in RightCols
         /\ NewLead(d, lead) # Right =>
              /\ NewLead(d, lead) \in RightCols
              /\ Settled(d, lead) \in DenseRow
              /\ Settled(d, lead)[NewLead(d, lead)] % Modulus # 0
              /\ ReducedIn(Settled(d, lead), NewLead(d, lead), isPivot, cols)
<1> DEFINE S == {c \in lead..Right - 1 : d[c] % Modulus # 0}
<1>1. Right \in Nat /\ RightCols = 0..Right - 1 /\ RightCols \subseteq Nat /\ lead \in Nat
  BY QuadMatricesAssumption DEF RightCols
<1>2. /\ d \in DenseRow /\ \A c \in RightCols : d[c] \in Nat
      /\ \A c \in RightCols : c < lead => d[c] = 0
      /\ isPivot => lead < Right /\ d[lead] = 1
      /\ \A c \in cols : (isPivot /\ c = lead) \/ d[c] = 0
      /\ \A c \in RightCols : d[c] <= Most(Cardinality(cols))
  BY DEF ReducedIn, DenseRow
<1>3. S \subseteq RightCols /\ \A c \in RightCols : c >= lead /\ d[c] % Modulus # 0 => c \in S
  BY <1>1
<1> HIDE DEF S
<1>4. PICK col : col = NewLead(d, lead) /\ col \in S \cup {Right} /\ \A c \in S : col <= c
  <2>1. S \cup {Right} \subseteq Nat /\ S \cup {Right} # {}
    BY <1>1, <1>3
  <2>2. NewLead(d, lead) = Min(S \cup {Right})
    BY DEF NewLead, S
  <2> QED
    BY <2>1, <2>2, MinIsLeast
<1>5. col \in lead..Right /\ col \in 0..Right
  BY <1>1, <1>3, <1>4 DEF S
<1>6. \A c \in RightCols : d[c] % Modulus \in Scalar /\ d[c] % Modulus \in Nat
  BY <1>2, Remainders DEF Scalar
<1>7. 0 % Modulus = 0 /\ 1 % Modulus = 1
  BY Remainders
<1>8. ASSUME isPivot
      PROVE  col = lead /\ lead \in RightCols
  <2>1. lead \in RightCols
    BY <1>1, <1>2, <1>8
  <2>2. lead \in S
    BY <1>1, <1>2, <1>3, <1>7, <1>8, <2>1
  <2> QED
    BY <1>1, <1>4, <1>5, <2>1, <2>2
<1>9. ASSUME col # Right
      PROVE  /\ col \in RightCols
             /\ Settled(d, lead) \in DenseRow
             /\ Settled(d, lead)[col] % Modulus # 0
             /\ ReducedIn(Settled(d, lead), col, isPivot, cols)
  <2>1. col \in S /\ col \in RightCols /\ d[col] % Modulus # 0
    BY <1>3, <1>4, <1>9 DEF S
  <2>2. /\ DOMAIN Settled(d, lead) = RightCols
        /\ \A c \in RightCols : Settled(d, lead)[c] =
             IF c \in lead..col THEN d[c] % Modulus ELSE d[c]
    BY <1>4 DEF Settled
  <2>3. Settled(d, lead) \in DenseRow
    BY <1>2, <1>6 DEF Settled, DenseRow
  <2> DEFINE e == Settled(d, lead)
  <2> HIDE DEF e
  <2>4. \A c \in RightCols : e[c] = IF c \in lead..col THEN d[c] % Modulus ELSE d[c]
    BY <2>2 DEF e
  <2>5. e[col] = d[col] % Modulus /\ d[col] % Modulus \in Scalar
    BY <1>5, <1>6, <2>1, <2>4
  <2>6. e[col] % Modulus # 0
    BY <2>1, <2>5, Remainders
  <2>7. ASSUME NEW c \in RightCols, c < col
        PROVE  e[c] = 0
    <3>1. CASE c < lead
      <4>1. ~(c \in lead..col)
        BY <1>1, <3>1
      <4> QED
        BY <1>2, <2>4, <3>1, <4>1
    <3>2. CASE ~(c < lead)
      <4>1. c >= lead /\ ~(col <= c) /\ c \in lead..col
        BY <1>1, <1>5, <2>7, <3>2
      <4>2. d[c] % Modulus = 0
        BY <1>3, <1>4, <4>1
      <4> QED
        BY <2>4, <4>1, <4>2
    <3> QED
      BY <3>1, <3>2
  <2>8. isPivot => col < Right /\ e[col] = 1
    BY <1>1, <1>2, <1>7, <1>8, <2>5
  <2>9. \A c \in cols : (isPivot /\ c = col) \/ e[c] = 0
    BY <1>2, <1>7, <1>8, <2>4
  <2>10. ASSUME NEW c \in RightCols
         PROVE  e[c] <= Most(Cardinality(cols))
    <3>1. PICK n \in Nat : n = Cardinality(cols)
      <4>1. IsFiniteSet(RightCols)
        BY <1>1, FS_Interval
      <4> QED
        BY <4>1, FS_Subset, FS_CardinalityType
    <3>2. Modulus - 1 <= Most(n) /\ Most(n) \in Nat /\ Modulus \in Nat
      BY MostGrows, Remainders
    <3>3. CASE c \in lead..col
      <4>1. e[c] \in Scalar
        BY <1>6, <2>4, <3>3
      <4> QED
        BY <3>1, <3>2, <4>1 DEF Scalar
    <3>4. CASE c \notin lead..col
      BY <1>2, <2>4, <3>4
    <3> QED
      BY <3>3, <3>4
  <2>11. ReducedIn(e, col, isPivot, cols)
    BY <2>3, <2>7, <2>8, <2>9, <2>10 DEF ReducedIn, e
  <2> QED
    BY <2>1, <2>3, <2>6, <2>11 DEF e
<1> QED
  BY <1>4, <1>5, <1>8, <1>9

(* A row that becomes a pivot *)
LEMMA NewPivot ==
  ASSUME NEW d \in DenseRow, NEW col \in RightCols, NEW cols \in SUBSET RightCols,
         ReducedIn(d, col, FALSE, cols), d[col] % Modulus # 0
  PROVE  /\ MakeUnitary(d, col) \in ScalarRow
         /\ MakeUnitary(d, col)[col] = 1
         /\ ReducedIn(MakeUnitary(d, col), col, FALSE, cols)
<1>1. Right \in Nat /\ RightCols = 0..Right - 1 /\ RightCols \subseteq Nat
  BY QuadMatricesAssumption DEF RightCols
<1>2. /\ \A c \in RightCols : c < col => d[c] = 0
      /\ \A c \in cols : d[c] = 0
  BY DEF ReducedIn
<1> DEFINE e == MakeUnitary(d, col)
<1>3. /\ e \in DenseRow /\ e[col] = 1
      /\ \A c \in RightCols :
           /\ c < col => e[c] = d[c]
           /\ c >= col => e[c] \in Scalar
           /\ c >= col /\ d[c] % Modulus = 0 => e[c] = 0
  BY MadeUnitary
<1> HIDE DEF e
<1>4. \A c \in RightCols : c < col \/ c >= col
  BY <1>1
<1>5. 0 % Modulus = 0 /\ 0 \in Scalar
  BY Remainders
<1>6. \A c \in RightCols : e[c] \in Scalar
  BY <1>2, <1>3, <1>4, <1>5
<1>7. e \in ScalarRow
  BY <1>3, <1>6 DEF DenseRow, ScalarRow
<1>8. \A c \in cols : e[c] = 0
  BY <1>2, <1>3, <1>4, <1>5
<1>9. \A c \in RightCols : e[c] <= Most(Cardinality(cols))
  <2>1. PICK n \in Nat : n = Cardinality(cols)
    <3>1. IsFiniteSet(RightCols)
      BY <1>1, FS_Interval
    <3> QED
      BY <3>1, FS_Subset, FS_CardinalityType
  <2>2. Modulus - 1 <= Most(n) /\ Most(n) \in Nat /\ Modulus \in Nat
    BY MostGrows, Remainders
  <2> QED
    BY <1>6, <2>1, <2>2 DEF Scalar
<1>10. ReducedIn(e, col, FALSE, cols)
  BY <1>2, <1>3, <1>8, <1>9 DEF ReducedIn
<1> QED
  BY <1>3, <1>7, <1>10 DEF e

-----------------------------------------------------------------------------
(* One row of the dense algorithm *)

UnchangedByRow ==
  UNCHANGED <<phase, qm, reduceVars, lower, pivotRowOfCol, isPivotRow, reduced>>

LEMMA ReduceRowDoes ==
  ASSUME TypeOK, InDense, ReducersInOrder, NEW row \in todo, ReduceRow(row)
  PROVE  /\ phase = "dense" /\ UnchangedByRow /\ todo' = todo \ {row}
         /\ \E d, col :
              /\ leadCols' = [leadCols EXCEPT ![row] = col]
              /\ dense' = [dense EXCEPT ![row] = d]
              /\ \/ /\ d = <<>> /\ col = Right /\ ~isPivotRow[row]
                    /\ UNCHANGED <<columnHasPivot, nextReducers>>
                 \/ /\ d \in DenseRow /\ col \in RightCols
                    /\ ReducedIn(d, col, isPivotRow[row], PastCols)
                    /\ d[col] # 0 /\ (isPivotRow[row] => col = leadCols[row])
                    /\ col \in columnHasPivot /\ UNCHANGED <<columnHasPivot, nextReducers>>
                 \/ /\ d \in ScalarRow /\ col \in RightCols
                    /\ ReducedIn(d, col, FALSE, PastCols)
                    /\ d[col] = 1 /\ ~isPivotRow[row]
                    /\ col \notin columnHasPivot
                    /\ columnHasPivot' = columnHasPivot \cup {col}
                    /\ nextReducers' = nextReducers \cup {<<col, row>>}
<1>1. phase = "dense" /\ UnchangedByRow /\ todo' = todo \ {row}
  BY DEF ReduceRow, UnchangedByRow
<1>2. ReducedIn(ReduceByReducers(row), leadCols[row], isPivotRow[row], PastCols)
  BY <1>1, RowReducedByReducers
<1>typed. ReduceByReducers(row) \in DenseRow
  BY <1>2 DEF ReducedIn
<1>3. /\ leadCols[row] \in 0..Right /\ isPivotRow[row] \in BOOLEAN
      /\ row \in DOMAIN dense /\ PastCols \in SUBSET RightCols
  <2>1. row \in DOMAIN dense /\ row \in DOMAIN leadCols /\ row \in DOMAIN isPivotRow
    BY <1>1 DEF InDense, DenseShape, NonEmptyRows
  <2> QED
    BY <1>1, <2>1, PastColsAreColumns DEF TypeOK
<1>4. PICK e \in DenseRow, lead \in 0..Right, isPivot \in BOOLEAN, cols \in SUBSET RightCols :
        /\ e = ReduceByReducers(row) /\ lead = leadCols[row] /\ isPivot = isPivotRow[row]
        /\ cols = PastCols
  BY <1>3, <1>typed
<1>5. ReducedIn(e, lead, isPivot, cols)
  BY <1>2, <1>4
<1>6. PICK col, settled : col = NewLead(e, lead) /\ settled = Settled(e, lead)
  OBVIOUS
<1>7. /\ isPivot => col = lead /\ lead \in RightCols
      /\ col # Right =>
           /\ col \in RightCols /\ settled \in DenseRow /\ settled[col] % Modulus # 0
           /\ ReducedIn(settled, col, isPivot, cols)
  BY <1>5, <1>6, RowSettles
<1>8. Right \notin RightCols /\ \A c \in RightCols : c # Right
  BY QuadMatricesAssumption DEF RightCols
<1>9. /\ leadCols' = [leadCols EXCEPT ![row] = col]
      /\ dense' = [dense EXCEPT ![row] =
                     IF col = Right THEN <<>>
                     ELSE IF col # Right /\ col \notin columnHasPivot
                          THEN MakeUnitary(settled, col) ELSE settled]
      /\ IF col # Right /\ col \notin columnHasPivot
         THEN /\ columnHasPivot' = columnHasPivot \cup {col}
              /\ nextReducers' = nextReducers \cup {<<col, row>>}
         ELSE UNCHANGED <<columnHasPivot, nextReducers>>
  BY <1>4, <1>6 DEF ReduceRow, NewLead, Settled
<1>10. ASSUME isPivot
       PROVE  col \in columnHasPivot
  <2>1. lead \in PastCols
    BY <1>3, <1>4, <1>10 DEF PastCols
  <2> QED
    BY <1>1, <1>7, <1>10, <2>1 DEF InDense, ClaimsAgree
<1>11. CASE col = Right
  BY <1>1, <1>4, <1>7, <1>8, <1>9, <1>11
<1>12. CASE col # Right /\ col \in columnHasPivot
  <2>1. dense' = [dense EXCEPT ![row] = settled]
    BY <1>9, <1>12
  <2>2. settled[col] # 0
    BY <1>7, <1>12, Remainders
  <2>3. UNCHANGED <<columnHasPivot, nextReducers>>
    BY <1>9, <1>12
  <2>4. leadCols' = [leadCols EXCEPT ![row] = col]
    BY <1>9
  <2>5. /\ settled \in DenseRow /\ col \in RightCols
        /\ ReducedIn(settled, col, isPivotRow[row], PastCols)
        /\ isPivotRow[row] => col = leadCols[row]
    BY <1>4, <1>7, <1>12
  <2> QED
    BY <1>1, <1>12, <2>1, <2>2, <2>3, <2>4, <2>5, ZenonT(40)
<1>13. CASE col # Right /\ col \notin columnHasPivot
  <2>1. PICK d : d = MakeUnitary(settled, col)
    OBVIOUS
  <2>2. dense' = [dense EXCEPT ![row] = d]
    BY <1>9, <1>13, <2>1
  <2>3. ~isPivot
    BY <1>10, <1>13
  <2>4. ReducedIn(settled, col, FALSE, cols) /\ settled[col] % Modulus # 0
    BY <1>4, <1>7, <1>13, <2>3
  <2>5. d \in ScalarRow /\ d[col] = 1 /\ ReducedIn(d, col, FALSE, cols)
    BY <1>7, <1>13, <2>1, <2>4, NewPivot
  <2> QED
    BY <1>1, <1>4, <1>7, <1>9, <1>13, <2>2, <2>3, <2>5
<1> QED
  BY <1>11, <1>12, <1>13

LEMMA RowNotEmpty ==
  ASSUME NEW d \in DenseRow, RightCols # {}
  PROVE  d # <<>>
<1> SUFFICES ASSUME d = <<>>
             PROVE  FALSE
  OBVIOUS
<1>1. DOMAIN d = RightCols
  BY DEF DenseRow
<1>2. DOMAIN <<>> = {}
  OBVIOUS
<1> QED
  BY <1>1, <1>2

LEMMA ReduceRowKeeps ==
  ASSUME Inv, NEW row \in todo, ReduceRow(row)
  PROVE  Inv'
<1>1. /\ phase = "dense" /\ UnchangedByRow /\ todo' = todo \ {row}
      /\ TypeOK /\ DenseFits /\ RowsNotZero /\ InReduce /\ InSparse /\ InDense /\ ReducersInOrder
      /\ DenseShape /\ RowsReduced /\ RowsSettled /\ NextReducersClaim /\ ClaimsAgree
  BY ReduceRowDoes DEF Inv, InDense
<1>2. /\ phase' = phase /\ qm' = qm /\ tmp' = tmp /\ rowOrder' = rowOrder /\ lower' = lower
      /\ pivotRowOfCol' = pivotRowOfCol /\ isPivotRow' = isPivotRow /\ reduced' = reduced
  BY <1>1 DEF UnchangedByRow, reduceVars
<1>3. PICK d, col :
        /\ leadCols' = [leadCols EXCEPT ![row] = col]
        /\ dense' = [dense EXCEPT ![row] = d]
        /\ \/ /\ d = <<>> /\ col = Right /\ ~isPivotRow[row]
              /\ UNCHANGED <<columnHasPivot, nextReducers>>
           \/ /\ d \in DenseRow /\ col \in RightCols
              /\ ReducedIn(d, col, isPivotRow[row], PastCols)
              /\ d[col] # 0 /\ (isPivotRow[row] => col = leadCols[row])
              /\ col \in columnHasPivot /\ UNCHANGED <<columnHasPivot, nextReducers>>
           \/ /\ d \in ScalarRow /\ col \in RightCols
              /\ ReducedIn(d, col, FALSE, PastCols)
              /\ d[col] = 1 /\ ~isPivotRow[row]
              /\ col \notin columnHasPivot
              /\ columnHasPivot' = columnHasPivot \cup {col}
              /\ nextReducers' = nextReducers \cup {<<col, row>>}
  BY <1>1, ReduceRowDoes
<1> DEFINE Cleared == /\ d = <<>> /\ col = Right /\ ~isPivotRow[row]
                      /\ UNCHANGED <<columnHasPivot, nextReducers>>
           IsNew == /\ ~isPivotRow[row] /\ d \in ScalarRow /\ d[col] = 1
                    /\ col \notin columnHasPivot
                    /\ columnHasPivot' = columnHasPivot \cup {col}
                    /\ nextReducers' = nextReducers \cup {<<col, row>>}
           IsOld == /\ col \in columnHasPivot /\ UNCHANGED <<columnHasPivot, nextReducers>>
<1>cols. /\ Right \in Nat /\ RightCols = 0..Right - 1 /\ RightCols \subseteq Nat
         /\ IsFiniteSet(RightCols) /\ Cardinality(RightCols) = Right
         /\ PastCols \subseteq RightCols
  BY <1>1, PastColsAreColumns
<1>stays. /\ row \in NonEmptyRows /\ row \in DOMAIN dense
          /\ DOMAIN dense' = DOMAIN dense /\ DOMAIN leadCols' = DOMAIN dense
          /\ DOMAIN isPivotRow' = DOMAIN dense /\ DOMAIN lower' = DOMAIN dense
          /\ dense'[row] = d /\ leadCols'[row] = col
          /\ \A r \in DOMAIN dense : r # row => dense'[r] = dense[r] /\ leadCols'[r] = leadCols[r]
          /\ \A r \in DOMAIN dense : isPivotRow'[r] = isPivotRow[r]
  BY <1>1, <1>2, <1>3 DEF DenseShape, NonEmptyRows
<1>kept. Cleared \/ ( /\ d \in DenseRow /\ d # <<>> /\ col \in RightCols
                      /\ ReducedIn(d, col, isPivotRow[row], PastCols) /\ d[col] # 0
                      /\ isPivotRow[row] => col = leadCols[row]
                      /\ IsNew \/ IsOld )
  <2>1. CASE Cleared
    BY <2>1
  <2>2. CASE ~Cleared
    <3>1. /\ col \in RightCols /\ (IsNew \/ IsOld)
          /\ ReducedIn(d, col, isPivotRow[row], PastCols) /\ d[col] # 0
          /\ isPivotRow[row] => col = leadCols[row]
      <4>1. isPivotRow[row] \in BOOLEAN
        BY <1>1, <1>stays DEF TypeOK, DenseShape
      <4>2. CASE IsNew /\ ReducedIn(d, col, FALSE, PastCols) /\ col \in RightCols
        <5>1. isPivotRow[row] = FALSE
          BY <4>1, <4>2
        <5>2. d[col] # 0
          BY <4>2
        <5>3. ReducedIn(d, col, isPivotRow[row], PastCols)
          BY <4>2, <5>1
        <5> QED
          BY <4>2, <5>1, <5>2, <5>3
      <4>3. CASE ~(IsNew /\ ReducedIn(d, col, FALSE, PastCols) /\ col \in RightCols)
        BY <1>3, <2>2, <4>3
      <4> QED
        BY <4>2, <4>3
    <3>2. d \in DenseRow /\ RightCols # {}
      BY <3>1 DEF ReducedIn
    <3> QED
      BY <3>1, <3>2, RowNotEmpty
  <2> QED
    BY <2>1, <2>2
<1>claims. columnHasPivot \subseteq columnHasPivot' /\ nextReducers \subseteq nextReducers'
  BY <1>kept
<1>nonempty. NonEmptyRows' = IF Cleared THEN NonEmptyRows \ {row} ELSE NonEmptyRows
  BY <1>stays, <1>kept DEF NonEmptyRows
<1>past. PastCols' = PastCols /\ OldCols' = OldCols
  <2>1. \A r \in DOMAIN dense : isPivotRow[r] => leadCols'[r] = leadCols[r]
    BY <1>stays, <1>kept
  <2>2. PastCols' = PastCols
    BY <1>stays, <2>1 DEF PastCols
  <2> QED
    BY <1>2, <2>2 DEF OldCols, ReducerCols
<1>others. /\ \A p \in nextReducers : /\ p[2] # row /\ p[2] \in NonEmptyRows \ todo
                                      /\ p[2] \in DOMAIN dense
           /\ \A r \in NonEmptyRows \ todo : r # row /\ r \in DOMAIN dense
  BY <1>1 DEF NextReducersClaim, NonEmptyRows
<1>4. DenseShape'
  <2>1. todo' \subseteq NonEmptyRows'
    BY <1>1, <1>nonempty DEF DenseShape
  <2>2. \A r \in DOMAIN dense' : isPivotRow'[r] => r \in NonEmptyRows'
    BY <1>1, <1>stays, <1>nonempty DEF DenseShape
  <2> QED
    BY <1>1, <1>stays, <2>1, <2>2 DEF DenseShape
<1>5. RowsReduced'
  <2> SUFFICES ASSUME NEW r \in NonEmptyRows'
               PROVE  ReducedIn(dense'[r], leadCols'[r], isPivotRow'[r],
                                IF r \in todo' THEN OldCols' ELSE PastCols')
    BY Zenon DEF RowsReduced
  <2>1. CASE r = row
    <3>1. ~Cleared
      BY <1>nonempty, <2>1
    <3>2. r \notin todo' /\ ReducedIn(d, col, isPivotRow[row], PastCols)
      BY <1>1, <1>kept, <2>1, <3>1
    <3> QED
      BY <1>stays, <1>past, <2>1, <3>2
  <2>2. CASE r # row
    <3>1. r \in NonEmptyRows /\ r \in DOMAIN dense /\ (r \in todo' <=> r \in todo)
      BY <1>1, <1>nonempty, <2>2 DEF NonEmptyRows
    <3>2. ReducedIn(dense[r], leadCols[r], isPivotRow[r],
                    IF r \in todo THEN OldCols ELSE PastCols)
      BY <1>1, <3>1 DEF RowsReduced
    <3>3. /\ dense'[r] = dense[r] /\ leadCols'[r] = leadCols[r] /\ isPivotRow'[r] = isPivotRow[r]
      BY <1>stays, <2>2, <3>1
    <3> QED
      BY <1>past, <3>1, <3>2, <3>3
  <2> QED
    BY <2>1, <2>2
<1>6. RowsSettled'
  <2> SUFFICES ASSUME NEW r \in NonEmptyRows' \ todo'
               PROVE  leadCols'[r] \in columnHasPivot' /\ dense'[r][leadCols'[r]] # 0
    BY DEF RowsSettled
  <2>1. CASE r = row
    <3>1. ~Cleared
      BY <1>nonempty, <2>1
    <3>2. d[col] # 0 /\ col \in columnHasPivot'
      BY <1>kept, <3>1
    <3> QED
      BY <1>stays, <2>1, <3>2
  <2>2. CASE r # row
    <3>1. r \in NonEmptyRows \ todo
      BY <1>1, <1>nonempty, <2>2
    <3>2. leadCols[r] \in columnHasPivot /\ dense[r][leadCols[r]] # 0
      BY <1>1, <3>1 DEF RowsSettled
    <3> QED
      BY <1>stays, <1>claims, <1>others, <2>2, <3>1, <3>2
  <2> QED
    BY <2>1, <2>2
<1>7. NextReducersClaim'
  <2> SUFFICES ASSUME NEW p \in nextReducers'
               PROVE  /\ p[2] \in NonEmptyRows' \ todo' /\ ~isPivotRow'[p[2]]
                      /\ leadCols'[p[2]] = p[1]
                      /\ dense'[p[2]] \in ScalarRow /\ dense'[p[2]][p[1]] = 1
    BY DEF NextReducersClaim
  <2>1. CASE p \in nextReducers
    <3>1. /\ p[2] \in NonEmptyRows \ todo /\ ~isPivotRow[p[2]]
          /\ leadCols[p[2]] = p[1]
          /\ dense[p[2]] \in ScalarRow /\ dense[p[2]][p[1]] = 1
      BY <1>1, <2>1 DEF NextReducersClaim
    <3>2. p[2] # row /\ p[2] \in DOMAIN dense
      BY <1>others, <2>1
    <3>3. p[2] \in NonEmptyRows' \ todo'
      BY <1>1, <1>nonempty, <3>1, <3>2
    <3> QED
      BY <1>stays, <3>1, <3>2, <3>3
  <2>2. CASE p \notin nextReducers
    <3>1. ~Cleared /\ IsNew /\ p = <<col, row>>
      BY <1>kept, <2>2
    <3>2. p[1] = col /\ p[2] = row
      BY <3>1
    <3>3. row \in NonEmptyRows' \ todo'
      BY <1>1, <1>stays, <1>nonempty, <3>1
    <3> QED
      BY <1>stays, <3>1, <3>2, <3>3
  <2> QED
    BY <2>1, <2>2
<1>8. ClaimsAgree'
  <2>1. columnHasPivot' = PastCols' \cup {p[1] : p \in nextReducers'}
    <3>1. columnHasPivot = PastCols \cup {p[1] : p \in nextReducers}
      BY <1>1 DEF ClaimsAgree
    <3>2. CASE UNCHANGED <<columnHasPivot, nextReducers>>
      BY <1>past, <3>1, <3>2
    <3>3. CASE IsNew
      <4>1. {p[1] : p \in nextReducers'} = {p[1] : p \in nextReducers} \cup {col}
        <5>1. nextReducers' = nextReducers \cup {<<col, row>>}
          BY <3>3
        <5> DEFINE pair == <<col, row>>
        <5>2. pair[1] = col
          OBVIOUS
        <5>3. nextReducers' = nextReducers \cup {pair}
          BY <5>1
        <5> HIDE DEF pair
        <5> QED
          BY <5>2, <5>3
      <4> QED
        BY <1>past, <3>1, <3>3, <4>1
    <3> QED
      BY <1>kept, <3>2, <3>3
  <2>2. \A r \in Claimed : r \in DOMAIN dense /\ leadCols[r] \in columnHasPivot
    <3>1. \A r \in NonEmptyRows : isPivotRow[r] => r \in DOMAIN dense /\ leadCols[r] \in PastCols
      BY DEF NonEmptyRows, PastCols
    <3>2. \A p \in nextReducers : p[2] \in DOMAIN dense /\ leadCols[p[2]] = p[1]
      BY <1>1 DEF NextReducersClaim, NonEmptyRows
    <3> QED
      BY <1>1, <3>1, <3>2 DEF Claimed, NextPivots, ClaimsAgree
  <2>3. \A r \in Claimed' : \/ r \in Claimed /\ leadCols'[r] = leadCols[r]
                            \/ r = row /\ IsNew /\ leadCols'[r] = col
    <3> SUFFICES ASSUME NEW r \in Claimed'
                 PROVE  \/ r \in Claimed /\ leadCols'[r] = leadCols[r]
                        \/ r = row /\ IsNew /\ leadCols'[r] = col
      BY Zenon
    <3>1. CASE r \in NonEmptyRows' /\ isPivotRow'[r]
      <4>1. r \in NonEmptyRows /\ r \in DOMAIN dense /\ isPivotRow[r]
        BY <1>stays, <1>nonempty, <3>1 DEF NonEmptyRows
      <4>2. leadCols'[r] = leadCols[r]
        BY <1>stays, <1>kept, <4>1
      <4> QED
        BY <4>1, <4>2 DEF Claimed
    <3>2. CASE \E p \in nextReducers' : p[2] = r
      <4>1. PICK p \in nextReducers' : p[2] = r
        BY <3>2
      <4>2. CASE p \in nextReducers
        <5>1. r # row /\ r \in DOMAIN dense /\ r \in Claimed
          BY <1>others, <4>1, <4>2 DEF Claimed, NextPivots
        <5> QED
          BY <1>stays, <5>1
      <4>3. CASE p \notin nextReducers
        <5>1. IsNew /\ p = <<col, row>>
          BY <1>kept, <4>3
        <5> QED
          BY <1>stays, <4>1, <5>1
      <4> QED
        BY <4>2, <4>3
    <3> QED
      BY <3>1, <3>2 DEF Claimed, NextPivots
  <2>4. \A r, s \in Claimed' : leadCols'[r] = leadCols'[s] => r = s
    BY <1>1, <2>2, <2>3 DEF ClaimsAgree
  <2> QED
    BY <2>1, <2>4 DEF ClaimsAgree
<1>9. InDense'
  BY <1>4, <1>5, <1>6, <1>7, <1>8 DEF InDense
<1>10. ReducersInOrder'
  BY <1>1, <1>2, <1>past DEF ReducersInOrder
<1>11. DenseFits'
  <2> SUFFICES ASSUME NEW r \in NonEmptyRows', NEW c \in RightCols
               PROVE  dense'[r][c] <= Most(Right)
    BY DEF DenseFits
  <2>1. CASE r = row
    <3>1. ~Cleared
      BY <1>nonempty, <2>1
    <3>2. d \in DenseRow /\ d[c] <= Most(Cardinality(PastCols))
      BY <1>kept, <3>1 DEF ReducedIn
    <3>3. Cardinality(PastCols) \in Nat /\ Cardinality(PastCols) <= Right
      <4>1. PICK past \in SUBSET RightCols : past = PastCols
        BY <1>cols
      <4>2. Cardinality(past) \in Nat /\ Cardinality(past) <= Cardinality(RightCols)
        BY <1>cols, FS_Subset, FS_CardinalityType
      <4> QED
        BY <1>cols, <4>1, <4>2
    <3>4. /\ Most(Cardinality(PastCols)) <= Most(Right) /\ Most(Right) \in Nat
          /\ Most(Cardinality(PastCols)) \in Nat
      <4>1. PICK n \in Nat : n = Cardinality(PastCols) /\ n <= Right
        BY <3>3
      <4>2. Most(n) <= Most(Right) /\ Most(Right) \in Nat /\ Most(n) \in Nat
        BY <1>cols, <4>1, MostGrows
      <4> QED
        BY <4>1, <4>2
    <3>5. d[c] \in Nat
      BY <3>2 DEF DenseRow
    <3> QED
      BY <1>stays, <2>1, <3>2, <3>4, <3>5
  <2>2. CASE r # row
    BY <1>1, <1>stays, <1>nonempty, <2>2 DEF DenseFits, NonEmptyRows
  <2> QED
    BY <2>1, <2>2
<1>12. TypeOK'
  <2>1. \A r \in NonEmptyRows' : dense'[r] \in DenseRow
    BY <1>1, <1>stays, <1>kept, <1>nonempty DEF TypeOK, NonEmptyRows
  <2>2. \A r \in DOMAIN leadCols' : leadCols'[r] \in 0..Right
    <3>1. col \in 0..Right
      BY <1>cols, <1>kept
    <3>2. \A r \in DOMAIN dense : leadCols[r] \in 0..Right
      BY <1>1 DEF TypeOK, DenseShape
    <3> QED
      BY <1>stays, <3>1, <3>2
  <2>3. \A r \in DOMAIN isPivotRow' : isPivotRow'[r] \in BOOLEAN
    BY <1>1, <1>2 DEF TypeOK
  <2>4. columnHasPivot' \subseteq RightCols
    BY <1>1, <1>kept DEF TypeOK
  <2>5. nextReducers' \subseteq RightCols \X DOMAIN dense'
    BY <1>1, <1>kept, <1>stays DEF TypeOK
  <2>6. todo' \subseteq Nat
    BY <1>1 DEF TypeOK
  <2>7. /\ phase' \in {"left", "right", "sparse", "back", "dense", "done"}
        /\ qm' \in QuadMatrices
        /\ \A i \in DOMAIN tmp' : tmp'[i] \in [DOMAIN qm'.topLeft -> Scalar]
        /\ rowOrder' \in Seq(DOMAIN qm'.bottomLeft)
        /\ lower' \in Seq([RightCols -> Scalar])
        /\ \A c \in PivotCols' : c \in RightCols /\ pivotRowOfCol'[c] \in [RightCols -> Scalar]
        /\ reduced' \in Seq([RightCols -> Scalar])
    BY <1>1, <1>2 DEF TypeOK, PivotCols
  <2> QED
    BY <2>1, <2>2, <2>3, <2>4, <2>5, <2>6, <2>7 DEF TypeOK
<1>13. RowsNotZero' /\ InReduce' /\ InSparse' /\ InEchelonForm'
  <2>1. RowsNotZero'
    BY <1>1, <1>2 DEF RowsNotZero
  <2> QED
    BY <1>1, <1>2, <2>1 DEF InReduce, InSparse, InEchelonForm
<1> QED
  BY <1>9, <1>10, <1>11, <1>12, <1>13 DEF Inv

-----------------------------------------------------------------------------
(* The barriers of the dense algorithm *)

LEMMA DenseRowsAtBarrier ==
  ASSUME Inv, phase = "dense", todo = {}
  PROVE  /\ Right \in Nat /\ RightCols = 0..Right - 1 /\ RightCols \subseteq Nat
         /\ IsFiniteSet(RightCols) /\ PastCols \subseteq RightCols
         /\ DOMAIN dense = DOMAIN lower /\ DOMAIN isPivotRow = DOMAIN dense
         /\ DOMAIN leadCols = DOMAIN dense
         /\ DOMAIN dense \subseteq Nat /\ IsFiniteSet(DOMAIN dense)
         /\ NonEmptyRows \subseteq Nat /\ IsFiniteSet(NonEmptyRows)
         /\ NonEmptyRows \subseteq DOMAIN dense
         /\ \A row \in NonEmptyRows :
              /\ ReducedIn(dense[row], leadCols[row], isPivotRow[row], PastCols)
              /\ leadCols[row] \in RightCols /\ leadCols[row] \in columnHasPivot
              /\ dense[row][leadCols[row]] # 0
         /\ \A row \in DOMAIN dense : isPivotRow[row] \in BOOLEAN
<1>1. TypeOK /\ DenseShape /\ RowsReduced /\ RowsSettled /\ InDense
  BY DEF Inv, InDense
<1>2. /\ Right \in Nat /\ RightCols = 0..Right - 1 /\ RightCols \subseteq Nat
      /\ IsFiniteSet(RightCols) /\ PastCols \subseteq RightCols
  BY <1>1, PastColsAreColumns
<1>3. /\ DOMAIN dense = DOMAIN lower /\ DOMAIN isPivotRow = DOMAIN dense
      /\ DOMAIN leadCols = DOMAIN dense
      /\ \A row \in DOMAIN dense : isPivotRow[row] \in BOOLEAN
  BY <1>1 DEF DenseShape, TypeOK
<1>4. DOMAIN dense \subseteq Nat /\ IsFiniteSet(DOMAIN dense)
  <2>1. lower \in Seq([RightCols -> Scalar])
    BY <1>1 DEF TypeOK
  <2>2. Len(lower) \in Nat /\ DOMAIN lower = 1..Len(lower)
    BY <2>1
  <2>3. PICK n \in Nat : n = Len(lower)
    BY <2>2
  <2>4. IsFiniteSet(1..n)
    BY FS_Interval
  <2> QED
    BY <1>3, <2>2, <2>3, <2>4
<1>5. NonEmptyRows \in SUBSET DOMAIN dense
  BY DEF NonEmptyRows
<1>6. NonEmptyRows \subseteq Nat /\ IsFiniteSet(NonEmptyRows)
  BY <1>4, <1>5, FS_Subset
<1>7. ASSUME NEW row \in NonEmptyRows
      PROVE  /\ ReducedIn(dense[row], leadCols[row], isPivotRow[row], PastCols)
             /\ leadCols[row] \in RightCols /\ leadCols[row] \in columnHasPivot
             /\ dense[row][leadCols[row]] # 0
  <2>1. row \in NonEmptyRows \ todo
    OBVIOUS
  <2>2. leadCols[row] \in columnHasPivot /\ dense[row][leadCols[row]] # 0
    BY <1>1, <2>1 DEF RowsSettled
  <2>3. ReducedIn(dense[row], leadCols[row], isPivotRow[row],
                  IF row \in todo THEN OldCols ELSE PastCols)
    BY <1>1 DEF RowsReduced
  <2>4. leadCols[row] \in RightCols
    BY <1>1, <2>2 DEF TypeOK
  <2> QED
    BY <2>1, <2>2, <2>3, <2>4
<1> QED
  BY <1>2, <1>3, <1>4, <1>5, <1>6, <1>7

LEMMA NextIterationKeeps ==
  ASSUME Inv, NextIteration
  PROVE  Inv'
<1>1. /\ phase = "dense" /\ todo = {} /\ nextReducers # {}
      /\ isPivotRow' = [row \in DOMAIN dense |-> isPivotRow[row] \/ row \in NextPivots]
      /\ nextReducers' = {} /\ todo' = NonEmptyRows
      /\ phase' = phase /\ qm' = qm /\ tmp' = tmp /\ rowOrder' = rowOrder /\ lower' = lower
      /\ pivotRowOfCol' = pivotRowOfCol /\ dense' = dense /\ leadCols' = leadCols
      /\ columnHasPivot' = columnHasPivot
  BY DEF NextIteration, reduceVars
<1>2. /\ TypeOK /\ DenseFits /\ RowsNotZero /\ InReduce /\ InSparse /\ InDense /\ ReducersInOrder
      /\ DenseShape /\ NextReducersClaim /\ ClaimsAgree
  BY <1>1 DEF Inv, InDense
<1>3. /\ Right \in Nat /\ RightCols = 0..Right - 1 /\ RightCols \subseteq Nat
      /\ IsFiniteSet(RightCols) /\ PastCols \subseteq RightCols
      /\ DOMAIN dense = DOMAIN lower /\ DOMAIN isPivotRow = DOMAIN dense
      /\ DOMAIN leadCols = DOMAIN dense
      /\ DOMAIN dense \subseteq Nat /\ IsFiniteSet(DOMAIN dense)
      /\ NonEmptyRows \subseteq Nat /\ NonEmptyRows \subseteq DOMAIN dense
      /\ \A row \in NonEmptyRows :
           /\ ReducedIn(dense[row], leadCols[row], isPivotRow[row], PastCols)
           /\ leadCols[row] \in RightCols /\ leadCols[row] \in columnHasPivot
      /\ \A row \in DOMAIN dense : isPivotRow[row] \in BOOLEAN
  BY <1>1, DenseRowsAtBarrier
<1>4. \A p \in nextReducers :
        /\ p[1] \in RightCols /\ p[2] \in NonEmptyRows /\ ~isPivotRow[p[2]]
        /\ leadCols[p[2]] = p[1] /\ dense[p[2]] \in ScalarRow /\ dense[p[2]][p[1]] = 1
        /\ p[2] \in Claimed /\ p[1] \notin PastCols
  <2> SUFFICES ASSUME NEW p \in nextReducers
               PROVE  /\ p[1] \in RightCols /\ p[2] \in NonEmptyRows /\ ~isPivotRow[p[2]]
                      /\ leadCols[p[2]] = p[1]
                      /\ dense[p[2]] \in ScalarRow /\ dense[p[2]][p[1]] = 1
                      /\ p[2] \in Claimed /\ p[1] \notin PastCols
    OBVIOUS
  <2>1. /\ p[2] \in NonEmptyRows /\ ~isPivotRow[p[2]]
        /\ leadCols[p[2]] = p[1] /\ dense[p[2]] \in ScalarRow /\ dense[p[2]][p[1]] = 1
    BY <1>2 DEF NextReducersClaim
  <2>2. p[1] \in RightCols
    BY <1>2 DEF TypeOK
  <2>3. p[2] \in Claimed
    BY DEF Claimed, NextPivots
  <2>4. ASSUME NEW r \in DOMAIN dense, isPivotRow[r], leadCols[r] = p[1]
        PROVE  FALSE
    <3>1. r \in Claimed
      BY <1>2, <2>4 DEF DenseShape, Claimed
    <3>2. r = p[2]
      BY <1>2, <2>1, <2>3, <2>4, <3>1 DEF ClaimsAgree
    <3> QED
      BY <2>1, <2>4, <3>2
  <2>5. p[1] \notin PastCols
    BY <2>4 DEF PastCols
  <2> QED
    BY <2>1, <2>2, <2>3, <2>5
<1>5. PICK pairs :
        /\ Cardinality(nextReducers) \in Nat
        /\ pairs \in [1..Cardinality(nextReducers) -> nextReducers]
        /\ \A x \in nextReducers : \E i \in DOMAIN pairs : pairs[i] = x
        /\ \A i, j \in DOMAIN pairs : i < j => Before(pairs[i], pairs[j])
        /\ reduced' = [i \in DOMAIN pairs |-> dense[pairs[i][2]]]
  <2>1. nextReducers \subseteq Nat \X Nat /\ nextReducers \in SUBSET (RightCols \X DOMAIN dense)
    BY <1>2, <1>3 DEF TypeOK
  <2>2. IsFiniteSet(nextReducers)
    <3>1. IsFiniteSet(RightCols \X DOMAIN dense)
      BY <1>3, FS_Product
    <3> QED
      BY <2>1, <3>1, FS_Subset
  <2> DEFINE pairs == [i \in 1..Cardinality(nextReducers) |->
                         CHOOSE x \in nextReducers :
                           Cardinality({y \in nextReducers : Before(y, x)}) = i - 1]
  <2>3. reduced' = [i \in DOMAIN pairs |-> dense[pairs[i][2]]]
    BY DEF NextIteration, InOrder
  <2>4. /\ Cardinality(nextReducers) \in Nat
        /\ pairs \in [1..Cardinality(nextReducers) -> nextReducers]
        /\ \A x \in nextReducers : \E i \in DOMAIN pairs : pairs[i] = x
        /\ \A i, j \in DOMAIN pairs : i < j => Before(pairs[i], pairs[j])
    <3>1. \A s : s = pairs =>
            /\ Cardinality(nextReducers) \in Nat
            /\ s \in [1..Cardinality(nextReducers) -> nextReducers]
            /\ \A x \in nextReducers : \E i \in DOMAIN s : s[i] = x
            /\ \A i, j \in DOMAIN s : i < j => Before(s[i], s[j])
      BY <2>1, <2>2, PairsInOrder
    <3> HIDE DEF pairs
    <3> QED
      BY <3>1, Zenon
  <2> HIDE DEF pairs
  <2> QED
    BY <2>3, <2>4
<1>6. PICK n \in Nat :
        /\ DOMAIN pairs = 1..n /\ DOMAIN reduced' = 1..n
        /\ \A i \in 1..n : pairs[i] \in nextReducers /\ reduced'[i] = dense[pairs[i][2]]
  BY <1>5
<1>7. ASSUME NEW i \in 1..n
      PROVE  /\ reduced'[i] \in ScalarRow
             /\ BeginsIn(reduced'[i], pairs[i][1]) /\ LeadCol(reduced'[i]) = pairs[i][1]
             /\ \A c \in PastCols : reduced'[i][c] = 0
  <2>1. PICK p \in nextReducers : p = pairs[i] /\ reduced'[i] = dense[p[2]]
    BY <1>6
  <2>2. /\ p[1] \in RightCols /\ p[2] \in NonEmptyRows /\ ~isPivotRow[p[2]]
        /\ leadCols[p[2]] = p[1] /\ dense[p[2]] \in ScalarRow /\ dense[p[2]][p[1]] = 1
    BY <1>4
  <2>3. ReducedIn(dense[p[2]], p[1], isPivotRow[p[2]], PastCols)
    BY <1>3, <2>2
  <2>4. PICK row \in ScalarRow : row = reduced'[i]
    BY <2>1, <2>2
  <2>5. DOMAIN row = RightCols
    BY DEF ScalarRow
  <2>6. /\ row[p[1]] = 1 /\ \A c \in RightCols : c < p[1] => row[c] = 0
        /\ \A c \in PastCols : row[c] = 0
    BY <2>1, <2>2, <2>3, <2>4 DEF ReducedIn
  <2>7. BeginsIn(row, p[1])
    BY <2>2, <2>5, <2>6 DEF BeginsIn
  <2>8. LeadCol(row) = p[1]
    <3>1. PICK lead : lead = p[1]
      OBVIOUS
    <3>2. BeginsIn(row, lead)
      BY <2>7, <3>1
    <3> QED
      BY <1>3, <2>5, <3>1, <3>2, LeadIs
  <2> QED
    BY <2>1, <2>4, <2>6, <2>7, <2>8
<1>8. reduced' \in Seq(ScalarRow)
  <2>1. reduced' = [i \in 1..n |-> reduced'[i]]
    BY <1>5, <1>6
  <2> QED
    BY <1>7, <2>1
<1>9. \A i, j \in 1..n : i < j => pairs[i][1] < pairs[j][1]
  <2> SUFFICES ASSUME NEW i \in 1..n, NEW j \in 1..n, i < j
               PROVE  pairs[i][1] < pairs[j][1]
    OBVIOUS
  <2>1. PICK p \in nextReducers, q \in nextReducers : p = pairs[i] /\ q = pairs[j]
    BY <1>6
  <2>2. p[1] < q[1] \/ (p[1] = q[1] /\ p[2] < q[2])
    BY <1>5, <1>6, <2>1 DEF Before
  <2>3. p[1] = q[1] => p[2] = q[2]
    BY <1>2, <1>4 DEF ClaimsAgree
  <2>4. p[2] \in Nat /\ q[2] \in Nat
    BY <1>3, <1>4
  <2> QED
    BY <2>1, <2>2, <2>3, <2>4
<1>10. ReducerCols' = {p[1] : p \in nextReducers}
  <2>1. ReducerCols' = {LeadCol(reduced'[k]) : k \in 1..n}
    BY <1>6 DEF ReducerCols
  <2>2. \A p \in nextReducers : \E i \in 1..n : pairs[i] = p
    BY <1>5, <1>6
  <2> QED
    BY <1>6, <1>7, <2>1, <2>2
<1>11. /\ DOMAIN isPivotRow' = DOMAIN dense
       /\ \A r \in DOMAIN dense : isPivotRow'[r] <=> isPivotRow[r] \/ r \in NextPivots
       /\ \A r \in DOMAIN dense : isPivotRow'[r] \in BOOLEAN
  BY <1>1, <1>3
<1>12. PastCols' = PastCols \cup {p[1] : p \in nextReducers}
  <2>1. \A r \in DOMAIN dense : isPivotRow'[r] =>
          \/ isPivotRow[r]
          \/ \E p \in nextReducers : leadCols[r] = p[1]
    BY <1>4, <1>11 DEF NextPivots
  <2>2. \A p \in nextReducers :
          p[2] \in DOMAIN dense /\ isPivotRow'[p[2]] /\ leadCols[p[2]] = p[1]
    BY <1>3, <1>4, <1>11 DEF NextPivots
  <2>3. PastCols' = {leadCols[r] : r \in {q \in DOMAIN dense : isPivotRow'[q]}}
    BY <1>1 DEF PastCols
  <2>4. ASSUME NEW c \in PastCols'
        PROVE  c \in PastCols \cup {p[1] : p \in nextReducers}
    BY <2>1, <2>3 DEF PastCols
  <2>5. ASSUME NEW c \in PastCols
        PROVE  c \in PastCols'
    BY <1>11, <2>3 DEF PastCols
  <2>6. \A p \in nextReducers : p[1] \in PastCols'
    BY <2>2, <2>3
  <2> QED
    BY <2>4, <2>5, <2>6
<1>13. OldCols' = PastCols
  <2>1. \A c \in PastCols : c \notin {p[1] : p \in nextReducers}
    BY <1>4
  <2> QED
    BY <1>10, <1>12, <2>1 DEF OldCols
<1>14. NonEmptyRows' = NonEmptyRows
  BY <1>1 DEF NonEmptyRows
<1>15. DenseShape'
  <2>1. \A r \in DOMAIN dense : isPivotRow'[r] => r \in NonEmptyRows
    BY <1>2, <1>4, <1>11 DEF DenseShape, NextPivots
  <2> QED
    BY <1>1, <1>3, <1>11, <1>14, <2>1 DEF DenseShape
<1>16. RowsReduced'
  <2> SUFFICES ASSUME NEW r \in NonEmptyRows
               PROVE  ReducedIn(dense[r], leadCols[r], isPivotRow'[r], PastCols)
    <3>1. \A r \in NonEmptyRows' : r \in todo'
      BY <1>1, <1>14
    <3>2. \A r \in NonEmptyRows' :
            ReducedIn(dense'[r], leadCols'[r], isPivotRow'[r], OldCols')
      BY <1>1, <1>13, <1>14
    <3> QED
      BY <3>1, <3>2 DEF RowsReduced
  <2>1. ReducedIn(dense[r], leadCols[r], isPivotRow[r], PastCols)
    BY <1>3
  <2>2. CASE r \in NextPivots
    <3>1. PICK p \in nextReducers : p[2] = r
      BY <2>2 DEF NextPivots
    <3>2. leadCols[r] = p[1] /\ p[1] \in RightCols /\ dense[r][leadCols[r]] = 1 /\ ~isPivotRow[r]
      BY <1>4, <3>1
    <3>3. leadCols[r] < Right
      BY <1>3, <3>2
    <3> QED
      BY <2>1, <3>2, <3>3 DEF ReducedIn
  <2>3. CASE r \notin NextPivots
    <3>1. isPivotRow'[r] = isPivotRow[r]
      BY <1>3, <1>11, <2>3
    <3> QED
      BY <2>1, <3>1
  <2> QED
    BY <2>2, <2>3
<1>17. RowsSettled' /\ NextReducersClaim'
  BY <1>1, <1>14 DEF RowsSettled, NextReducersClaim
<1>18. ClaimsAgree'
  <2>1. columnHasPivot' = PastCols' \cup {p[1] : p \in nextReducers'}
    BY <1>1, <1>2, <1>12 DEF ClaimsAgree
  <2>2. Claimed' \subseteq Claimed
    <3>1. NextPivots' = {}
      BY <1>1 DEF NextPivots
    <3>2. \A r \in NonEmptyRows' : isPivotRow'[r] => r \in Claimed
      BY <1>3, <1>11, <1>14 DEF Claimed
    <3> QED
      BY <3>1, <3>2 DEF Claimed
  <2>3. \A r, s \in Claimed' : leadCols'[r] = leadCols'[s] => r = s
    BY <1>1, <1>2, <2>2 DEF ClaimsAgree
  <2> QED
    BY <2>1, <2>3 DEF ClaimsAgree
<1>19. InDense'
  BY <1>15, <1>16, <1>17, <1>18 DEF InDense
<1>20. ReducersInOrder'
  <2>1. \A k \in 1..n : /\ \E c \in PastCols' : BeginsIn(reduced'[k], c)
                        /\ \A c \in OldCols' : reduced'[k][c] = 0
    BY <1>6, <1>7, <1>12, <1>13
  <2>2. \A k, l \in 1..n : k < l => LeadCol(reduced'[k]) < LeadCol(reduced'[l])
    BY <1>7, <1>9
  <2> QED
    BY <1>6, <2>1, <2>2 DEF ReducersInOrder
<1>21. TypeOK'
  <2>1. todo' \subseteq Nat
    BY <1>1, <1>3
  <2>2. reduced' \in Seq([RightCols -> Scalar])
    BY <1>8 DEF ScalarRow
  <2>3. \A r \in DOMAIN isPivotRow' : isPivotRow'[r] \in BOOLEAN
    BY <1>11
  <2>4. nextReducers' \subseteq RightCols \X DOMAIN dense'
    BY <1>1
  <2>5. /\ \A r \in NonEmptyRows' : dense'[r] \in DenseRow
        /\ \A r \in DOMAIN leadCols' : leadCols'[r] \in 0..Right
        /\ columnHasPivot' \subseteq RightCols
    BY <1>1, <1>2, <1>14 DEF TypeOK
  <2>6. /\ phase' \in {"left", "right", "sparse", "back", "dense", "done"}
        /\ qm' \in QuadMatrices
        /\ \A i \in DOMAIN tmp' : tmp'[i] \in [DOMAIN qm'.topLeft -> Scalar]
        /\ rowOrder' \in Seq(DOMAIN qm'.bottomLeft)
        /\ lower' \in Seq([RightCols -> Scalar])
        /\ \A c \in PivotCols' : c \in RightCols /\ pivotRowOfCol'[c] \in [RightCols -> Scalar]
    BY <1>1, <1>2 DEF TypeOK, PivotCols
  <2> QED
    BY <2>1, <2>2, <2>3, <2>4, <2>5, <2>6 DEF TypeOK
<1>22. RowsNotZero' /\ DenseFits' /\ InReduce' /\ InSparse' /\ InEchelonForm'
  <2>1. RowsNotZero'
    BY <1>1, <1>2 DEF RowsNotZero
  <2>2. DenseFits'
    BY <1>1, <1>2, <1>14 DEF DenseFits
  <2> QED
    BY <1>1, <2>1, <2>2 DEF InReduce, InSparse, InEchelonForm
<1> QED
  BY <1>19, <1>20, <1>21, <1>22 DEF Inv

(* The last barrier: every row that is left is a pivot. *)
LEMMA EndDenseKeeps ==
  ASSUME Inv, EndDense
  PROVE  Inv'
<1>1. /\ phase = "dense" /\ todo = {} /\ nextReducers = {} /\ phase' = "done"
      /\ qm' = qm /\ todo' = todo /\ tmp' = tmp /\ rowOrder' = rowOrder /\ lower' = lower
      /\ pivotRowOfCol' = pivotRowOfCol /\ dense' = dense /\ leadCols' = leadCols
      /\ isPivotRow' = isPivotRow
      /\ columnHasPivot' = columnHasPivot /\ nextReducers' = nextReducers
  BY DEF EndDense, reduceVars, denseVars
<1>2. /\ TypeOK /\ DenseFits /\ RowsNotZero /\ ClaimsAgree
  BY <1>1 DEF Inv, InDense
<1>3. /\ RightCols \subseteq Nat
      /\ NonEmptyRows \subseteq Nat /\ IsFiniteSet(NonEmptyRows)
      /\ NonEmptyRows \subseteq DOMAIN dense
      /\ \A row \in NonEmptyRows :
           /\ ReducedIn(dense[row], leadCols[row], isPivotRow[row], PastCols)
           /\ leadCols[row] \in RightCols /\ leadCols[row] \in columnHasPivot
           /\ dense[row][leadCols[row]] # 0
  BY <1>1, DenseRowsAtBarrier
<1>4. PICK n, rows :
        /\ n \in Nat /\ rows \in [1..n -> NonEmptyRows]
        /\ \A i, j \in 1..n : i < j => rows[i] < rows[j]
        /\ reduced' = [i \in 1..n |-> TakeModulus(dense[rows[i]])]
  <2> DEFINE s == [i \in 1..Cardinality(NonEmptyRows) |->
                     CHOOSE x \in NonEmptyRows :
                       Cardinality({y \in NonEmptyRows : y < x}) = i - 1]
  <2>1. reduced' = [i \in DOMAIN s |-> TakeModulus(dense[s[i]])]
    BY DEF EndDense, InOrder
  <2>2. /\ Cardinality(NonEmptyRows) \in Nat
        /\ s \in [1..Cardinality(NonEmptyRows) -> NonEmptyRows]
        /\ \A i, j \in DOMAIN s : i < j => s[i] < s[j]
    <3>1. \A r : r = s =>
            /\ Cardinality(NonEmptyRows) \in Nat
            /\ r \in [1..Cardinality(NonEmptyRows) -> NonEmptyRows]
            /\ \A x \in NonEmptyRows : \E i \in DOMAIN r : r[i] = x
            /\ \A i, j \in DOMAIN r : i < j => r[i] < r[j]
      BY <1>3, NumbersInOrder
    <3> HIDE DEF s
    <3> QED
      BY <3>1, Zenon
  <2> HIDE DEF s
  <2>3. DOMAIN s = 1..Cardinality(NonEmptyRows)
    BY <2>2
  <2> QED
    BY <2>1, <2>2, <2>3
<1>5. columnHasPivot = PastCols
  BY <1>1, <1>2 DEF ClaimsAgree
<1>6. ASSUME NEW row \in NonEmptyRows
      PROVE  /\ TakeModulus(dense[row]) \in ScalarRow
             /\ row \in Claimed
             /\ BeginsIn(TakeModulus(dense[row]), leadCols[row])
             /\ LeadCol(TakeModulus(dense[row])) = leadCols[row]
             /\ ~Zero(TakeModulus(dense[row]))
             /\ \A c \in PastCols : c # leadCols[row] => TakeModulus(dense[row])[c] = 0
  <2>1. /\ ReducedIn(dense[row], leadCols[row], isPivotRow[row], PastCols)
        /\ leadCols[row] \in PastCols /\ leadCols[row] \in RightCols
        /\ dense[row][leadCols[row]] # 0
    BY <1>3, <1>5
  <2>2. isPivotRow[row]
    BY <2>1 DEF ReducedIn
  <2>3. /\ dense[row] \in [RightCols -> Nat] /\ \A c \in RightCols : dense[row][c] \in Nat
        /\ dense[row][leadCols[row]] = 1
        /\ \A c \in RightCols : c < leadCols[row] => dense[row][c] = 0
        /\ \A c \in PastCols : c # leadCols[row] => dense[row][c] = 0
    BY <2>1, <2>2 DEF ReducedIn, DenseRow
  <2>4. PICK e : e = TakeModulus(dense[row])
    OBVIOUS
  <2>5. e = [c \in RightCols |-> dense[row][c] % Modulus]
    BY <2>3, <2>4 DEF TakeModulus
  <2>6. e \in ScalarRow
    BY <2>3, <2>5, Remainders DEF ScalarRow
  <2>7. DOMAIN e = RightCols /\ \A c \in RightCols : e[c] = dense[row][c] % Modulus
    BY <2>5
  <2>8. 0 % Modulus = 0 /\ 1 % Modulus = 1
    BY Remainders
  <2>9. PastCols \subseteq RightCols
    BY <1>2, <1>5 DEF TypeOK
  <2>10. /\ e[leadCols[row]] = 1
         /\ \A c \in RightCols : c < leadCols[row] => e[c] = 0
         /\ \A c \in PastCols : c # leadCols[row] => e[c] = 0
    BY <2>1, <2>3, <2>7, <2>8, <2>9
  <2>11. PICK lead : lead = leadCols[row]
    OBVIOUS
  <2>12. BeginsIn(e, lead)
    BY <2>1, <2>7, <2>10, <2>11 DEF BeginsIn
  <2>13. LeadCol(e) = lead /\ ~Zero(e)
    BY <1>3, <2>7, <2>12, LeadIs
  <2>14. row \in Claimed
    BY <2>2 DEF Claimed
  <2> QED
    BY <2>4, <2>6, <2>10, <2>11, <2>12, <2>13, <2>14
<1>7. /\ DOMAIN reduced' = 1..n /\ Len(reduced') = n
      /\ \A i \in 1..n : rows[i] \in NonEmptyRows /\ reduced'[i] = TakeModulus(dense[rows[i]])
  BY <1>4
<1>8. reduced' \in Seq(ScalarRow)
  <2>1. reduced' = [i \in 1..n |-> reduced'[i]]
    BY <1>4
  <2>2. \A i \in 1..n : reduced'[i] \in ScalarRow
    BY <1>6, <1>7
  <2>3. n \in Nat
    BY <1>4
  <2> QED
    BY <2>1, <2>2, <2>3
<1>9. InEchelonForm'
  <2> SUFFICES ASSUME NEW i \in 1..n, NEW j \in 1..n
               PROVE  /\ ~Zero(reduced'[i])
                      /\ reduced'[j][LeadCol(reduced'[i])] = IF i = j THEN 1 ELSE 0
    BY <1>7 DEF InEchelonForm
  <2>1. PICK r \in NonEmptyRows, s \in NonEmptyRows : r = rows[i] /\ s = rows[j]
    BY <1>7
  <2>2. reduced'[i] = TakeModulus(dense[r]) /\ reduced'[j] = TakeModulus(dense[s])
    BY <1>7, <2>1
  <2>3. LeadCol(reduced'[i]) = leadCols[r] /\ ~Zero(reduced'[i])
    BY <1>6, <2>2
  <2>4. CASE i = j
    <3>1. BeginsIn(reduced'[i], leadCols[r])
      BY <1>6, <2>2
    <3> QED
      BY <2>3, <2>4, <3>1 DEF BeginsIn
  <2>5. CASE i # j
    <3>1. r # s
      <4>1. i < j \/ j < i
        BY <2>5
      <4>2. r < s \/ s < r
        BY <1>4, <2>1, <4>1
      <4>3. r \in Nat /\ s \in Nat
        BY <1>3
      <4> QED
        BY <4>2, <4>3
    <3>2. leadCols[r] # leadCols[s] /\ leadCols[r] \in PastCols
      BY <1>2, <1>3, <1>5, <1>6, <3>1 DEF ClaimsAgree
    <3>3. TakeModulus(dense[s])[leadCols[r]] = 0
      BY <1>6, <3>2
    <3> QED
      BY <2>2, <2>3, <2>5, <3>3
  <2> QED
    BY <2>4, <2>5
<1>10. NonEmptyRows' = NonEmptyRows /\ PivotCols' = PivotCols
  BY <1>1 DEF NonEmptyRows, PivotCols
<1>11. TypeOK' /\ DenseFits'
  <2>1. reduced' \in Seq([RightCols -> Scalar])
    BY <1>8 DEF ScalarRow
  <2>2. DenseFits'
    BY <1>1, <1>2, <1>10 DEF DenseFits
  <2> QED
    BY <1>1, <1>2, <1>10, <2>1, <2>2 DEF TypeOK
<1>12. RowsNotZero' /\ InReduce' /\ InSparse' /\ InDense' /\ ReducersInOrder'
  <2>1. RowsNotZero'
    BY <1>1, <1>2 DEF RowsNotZero
  <2> QED
    BY <1>1, <2>1 DEF InReduce, InSparse, InDense, ReducersInOrder
<1> QED
  BY <1>9, <1>11, <1>12 DEF Inv

-----------------------------------------------------------------------------
(* reduceToEchelonFormSparse *)

DenseUnchanged == UNCHANGED <<dense, leadCols, isPivotRow, columnHasPivot, nextReducers>>

(* What has to be shown of a step that leaves the dense variables alone *)
LEMMA DenseUntouched ==
  ASSUME TypeOK, DenseFits, DenseUnchanged
  PROVE  /\ NonEmptyRows' = NonEmptyRows /\ DenseFits'
         /\ \A row \in NonEmptyRows' : dense'[row] \in DenseRow
         /\ \A row \in DOMAIN leadCols' : leadCols'[row] \in 0..Right
         /\ \A row \in DOMAIN isPivotRow' : isPivotRow'[row] \in BOOLEAN
         /\ columnHasPivot' \subseteq RightCols
         /\ nextReducers' \subseteq RightCols \X DOMAIN dense'
<1>1. NonEmptyRows' = NonEmptyRows
  BY DEF NonEmptyRows, DenseUnchanged
<1>2. DenseFits'
  BY <1>1 DEF DenseFits, DenseUnchanged
<1> QED
  BY <1>1, <1>2 DEF TypeOK, DenseUnchanged

LEMMA PivotRowKeeps ==
  ASSUME Inv, NEW row \in todo, PivotRow(row)
  PROVE  Inv'
<1> DEFINE d == ReduceByPivots(lower[row])
           nonzero == {c \in RightCols : d[c] % Modulus # 0}
           lead == Min(nonzero)
           newRow == [b \in RightCols |-> IF b < lead THEN 0 ELSE MakeUnitary(d, lead)[b]]
<1>1. /\ phase = "sparse" /\ phase' = phase /\ todo' = todo \ {row}
      /\ qm' = qm /\ tmp' = tmp /\ rowOrder' = rowOrder /\ lower' = lower
      /\ reduced' = reduced /\ DenseUnchanged
      /\ pivotRowOfCol' = IF nonzero = {} THEN pivotRowOfCol
           ELSE [c \in PivotCols \cup {lead} |-> IF c = lead THEN newRow ELSE pivotRowOfCol[c]]
  BY DEF PivotRow, reduceVars, denseVars, DenseUnchanged
<1>2. /\ TypeOK /\ DenseFits /\ RowsNotZero
      /\ \A c \in PivotCols : BeginsIn(pivotRowOfCol[c], c)
      /\ todo \subseteq DOMAIN lower /\ reduced = <<>>
  BY <1>1 DEF Inv, InSparse
<1>3. PivotsBegin
  BY <1>2 DEF PivotsBegin, TypeOK, ScalarRow
<1>4. d \in DenseRow
  <2>1. lower \in Seq(ScalarRow)
    BY <1>2 DEF TypeOK, ScalarRow
  <2>2. lower[row] \in ScalarRow
    BY <1>2, <2>1
  <2>3. lower[row] \in DenseRow
    BY <2>2, Remainders DEF ScalarRow, DenseRow, Scalar
  <2> QED
    BY <1>3, <2>3, ReducedByPivots
<1>5. RightCols \subseteq Nat
  BY QuadMatricesAssumption DEF RightCols
<1> HIDE DEF d
<1>6. \A c \in PivotCols' : /\ c \in RightCols /\ pivotRowOfCol'[c] \in ScalarRow
                            /\ BeginsIn(pivotRowOfCol'[c], c)
  <2>1. CASE nonzero = {}
    <3>1. pivotRowOfCol' = pivotRowOfCol
      BY <1>1, <2>1
    <3> QED
      BY <1>3, <3>1 DEF PivotsBegin, PivotCols
  <2>2. CASE nonzero # {}
    <3>1. lead \in nonzero
      BY <1>5, <2>2, MinIsLeast
    <3>2. PICK col \in RightCols : col = lead /\ d[col] % Modulus # 0
      BY <3>1
    <3>3. /\ MakeUnitary(d, col)[col] = 1
          /\ \A c \in RightCols : c >= col => MakeUnitary(d, col)[c] \in Scalar
      BY <1>4, <3>2, MadeUnitary
    <3>4. PICK new : new = newRow
      OBVIOUS
    <3> HIDE DEF nonzero, lead
    <3>5. new = [b \in RightCols |-> IF b < col THEN 0 ELSE MakeUnitary(d, col)[b]]
      BY <3>2, <3>4
    <3>6. \A b \in RightCols : b < col \/ b >= col
      BY <1>5
    <3>7. new \in ScalarRow
      BY <3>3, <3>5, <3>6, Remainders DEF ScalarRow
    <3>8. BeginsIn(new, col)
      <4>1. ~(col < col)
        BY <1>5
      <4> QED
        BY <3>3, <3>5, <4>1 DEF BeginsIn
    <3> HIDE DEF newRow
    <3>9. pivotRowOfCol' =
            [c \in PivotCols \cup {col} |-> IF c = col THEN new ELSE pivotRowOfCol[c]]
      BY <1>1, <2>2, <3>2, <3>4
    <3>10. /\ PivotCols' = PivotCols \cup {col}
           /\ \A c \in PivotCols' :
                pivotRowOfCol'[c] = IF c = col THEN new ELSE pivotRowOfCol[c]
      BY <3>9 DEF PivotCols
    <3> QED
      BY <1>3, <3>7, <3>8, <3>10 DEF PivotsBegin
  <2> QED
    BY <2>1, <2>2
<1> HIDE DEF nonzero, lead, newRow
<1>7. InSparse'
  BY <1>1, <1>2, <1>6 DEF InSparse
<1>8. TypeOK' /\ DenseFits'
  <2>1. \A c \in PivotCols' : c \in RightCols /\ pivotRowOfCol'[c] \in [RightCols -> Scalar]
    BY <1>6 DEF ScalarRow
  <2>2. /\ phase' \in {"left", "right", "sparse", "back", "dense", "done"}
        /\ qm' \in QuadMatrices /\ todo' \subseteq Nat
        /\ \A i \in DOMAIN tmp' : tmp'[i] \in [DOMAIN qm'.topLeft -> Scalar]
        /\ rowOrder' \in Seq(DOMAIN qm'.bottomLeft)
        /\ lower' \in Seq([RightCols -> Scalar])
        /\ reduced' \in Seq([RightCols -> Scalar])
    BY <1>1, <1>2 DEF TypeOK
  <2> QED
    BY <1>1, <1>2, <2>1, <2>2, DenseUntouched DEF TypeOK
<1>9. RowsNotZero' /\ InReduce' /\ InDense' /\ ReducersInOrder' /\ InEchelonForm'
  <2>1. RowsNotZero'
    BY <1>1, <1>2 DEF RowsNotZero
  <2> QED
    BY <1>1, <2>1 DEF InReduce, InDense, ReducersInOrder, InEchelonForm
<1> QED
  BY <1>7, <1>8, <1>9 DEF Inv

LEMMA BackReduceKeeps ==
  ASSUME Inv, NEW p \in todo, BackReduce(p)
  PROVE  Inv'
<1> DEFINE d == ReduceByLaterPivots(p)
<1>1. /\ phase = "back" /\ phase' = phase /\ todo' = todo \ {p} /\ p = Max(todo)
      /\ qm' = qm /\ tmp' = tmp /\ rowOrder' = rowOrder /\ lower' = lower
      /\ reduced' = Append(reduced, d) /\ DenseUnchanged
      /\ pivotRowOfCol' = [pivotRowOfCol EXCEPT ![p] = d]
  BY DEF BackReduce, reduceVars, denseVars, DenseUnchanged
<1>2. /\ TypeOK /\ DenseFits /\ RowsNotZero
      /\ \A c \in PivotCols : BeginsIn(pivotRowOfCol[c], c)
      /\ todo \subseteq PivotCols
      /\ \A c \in PivotCols \ todo : \A b \in PivotCols \ {c} : pivotRowOfCol[c][b] = 0
      /\ \A i \in DOMAIN reduced : \E c \in PivotCols \ todo : reduced[i] = pivotRowOfCol[c]
      /\ \A i, j \in DOMAIN reduced : LeadCol(reduced[i]) = LeadCol(reduced[j]) => i = j
  BY <1>1 DEF Inv, InSparse
<1>3. PivotsBegin
  BY <1>2 DEF PivotsBegin, TypeOK, ScalarRow
<1>4. p \in PivotCols /\ p \in RightCols /\ RightCols \subseteq Nat /\ PivotCols \subseteq RightCols
  BY <1>2, <1>3, QuadMatricesAssumption DEF RightCols, PivotsBegin
<1>5. /\ d \in ScalarRow
      /\ \A c \in RightCols : c <= p => d[c] = pivotRowOfCol[p][c]
      /\ \A c \in PivotCols : c > p => d[c] = 0
  BY <1>3, <1>4, ReducedByLaterPivots
<1> HIDE DEF d
<1>6. BeginsIn(d, p) /\ \A b \in PivotCols \ {p} : d[b] = 0
  <2>1. pivotRowOfCol[p] \in ScalarRow /\ BeginsIn(pivotRowOfCol[p], p)
    BY <1>3, <1>4 DEF PivotsBegin
  <2>2. p <= p /\ \A c \in RightCols : (c < p => c <= p) /\ (c = p \/ c < p \/ c > p)
    BY <1>4
  <2>3. d[p] = 1 /\ \A c \in RightCols : c < p => d[c] = 0
    BY <1>4, <1>5, <2>1, <2>2 DEF BeginsIn, ScalarRow
  <2>4. DOMAIN d = RightCols
    BY <1>5 DEF ScalarRow
  <2>5. \A b \in PivotCols \ {p} : d[b] = 0
    BY <1>4, <1>5, <2>2, <2>3
  <2> QED
    BY <1>4, <2>3, <2>4, <2>5 DEF BeginsIn
<1>7. /\ PivotCols' = PivotCols /\ pivotRowOfCol'[p] = d
      /\ \A c \in PivotCols : c # p => pivotRowOfCol'[c] = pivotRowOfCol[c]
  BY <1>1, <1>4 DEF PivotCols
<1>8. \A c \in PivotCols : pivotRowOfCol'[c] \in ScalarRow /\ BeginsIn(pivotRowOfCol'[c], c)
  BY <1>3, <1>5, <1>6, <1>7 DEF PivotsBegin
<1>9. PICK n \in Nat : n = Len(reduced) /\ DOMAIN reduced = 1..n
  BY <1>2 DEF TypeOK
<1>10. /\ reduced' \in Seq(ScalarRow)
       /\ DOMAIN reduced' = 1..(n + 1) /\ reduced'[n + 1] = d
       /\ \A i \in 1..n : reduced'[i] = reduced[i]
  <2>1. reduced \in Seq(ScalarRow)
    BY <1>2 DEF TypeOK, ScalarRow
  <2>2. PICK s \in Seq(ScalarRow), e \in ScalarRow : s = reduced /\ e = d
    BY <1>5, <2>1
  <2>3. Len(s) = n /\ reduced' = Append(s, e)
    BY <1>1, <1>9, <2>2
  <2>4. /\ Append(s, e) \in Seq(ScalarRow) /\ Len(Append(s, e)) = n + 1
        /\ Append(s, e)[n + 1] = e
        /\ \A i \in 1..n : Append(s, e)[i] = s[i]
    BY <2>3
  <2>5. DOMAIN Append(s, e) = 1..(n + 1)
    BY <2>4
  <2> QED
    BY <2>2, <2>3, <2>4, <2>5
<1>11. \A i \in 1..n : \E c \in PivotCols \ todo :
         c # p /\ reduced'[i] = pivotRowOfCol[c] /\ LeadCol(reduced'[i]) = c
  <2> SUFFICES ASSUME NEW i \in 1..n
               PROVE  \E c \in PivotCols \ todo :
                        c # p /\ reduced'[i] = pivotRowOfCol[c] /\ LeadCol(reduced'[i]) = c
    OBVIOUS
  <2>1. PICK c \in PivotCols \ todo : reduced[i] = pivotRowOfCol[c]
    BY <1>2, <1>9
  <2>2. PICK row \in ScalarRow : row = pivotRowOfCol[c] /\ BeginsIn(row, c)
    BY <1>3 DEF PivotsBegin
  <2>3. LeadCol(row) = c
    <3>1. DOMAIN row \subseteq Nat
      BY <1>4 DEF ScalarRow
    <3> QED
      BY <2>2, <3>1, LeadIs
  <2> QED
    BY <1>10, <2>1, <2>2, <2>3
<1>12. LeadCol(reduced'[n + 1]) = p
  <2>1. PICK row \in ScalarRow : row = d /\ BeginsIn(row, p)
    BY <1>5, <1>6
  <2>2. DOMAIN row \subseteq Nat
    BY <1>4 DEF ScalarRow
  <2>3. LeadCol(row) = p
    BY <2>1, <2>2, LeadIs
  <2> QED
    BY <1>10, <2>1, <2>3
<1>13. InSparse'
  <2>1. todo' \subseteq PivotCols
    BY <1>1, <1>2
  <2>2. \A c \in PivotCols \ todo' : \A b \in PivotCols \ {c} : pivotRowOfCol'[c][b] = 0
    BY <1>1, <1>2, <1>6, <1>7
  <2>3. \A i \in 1..(n + 1) : i \in 1..n \/ i = n + 1
    OBVIOUS
  <2>4. \A i \in 1..(n + 1) : \E c \in PivotCols \ todo' : reduced'[i] = pivotRowOfCol'[c]
    <3>1. ASSUME NEW i \in 1..n
          PROVE  \E c \in PivotCols \ todo' : reduced'[i] = pivotRowOfCol'[c]
      <4>1. PICK c \in PivotCols \ todo : c # p /\ reduced'[i] = pivotRowOfCol[c]
        BY <1>11
      <4>2. c \in PivotCols \ todo' /\ pivotRowOfCol'[c] = pivotRowOfCol[c]
        BY <1>1, <1>7, <4>1
      <4> QED
        BY <4>1, <4>2
    <3>2. p \in PivotCols \ todo' /\ reduced'[n + 1] = pivotRowOfCol'[p]
      BY <1>1, <1>4, <1>7, <1>10
    <3> QED
      BY <2>3, <3>1, <3>2
  <2>5. \A i, j \in 1..(n + 1) : LeadCol(reduced'[i]) = LeadCol(reduced'[j]) => i = j
    <3>1. \A i, j \in 1..n : LeadCol(reduced'[i]) = LeadCol(reduced'[j]) => i = j
      BY <1>2, <1>9, <1>10
    <3>2. \A i \in 1..n : LeadCol(reduced'[i]) # LeadCol(reduced'[n + 1])
      BY <1>11, <1>12
    <3> QED
      BY <2>3, <3>1, <3>2
  <2> QED
    BY <1>1, <1>7, <1>8, <1>10, <2>1, <2>2, <2>4, <2>5 DEF InSparse
<1>14. TypeOK' /\ DenseFits'
  <2>1. \A c \in PivotCols' : c \in RightCols /\ pivotRowOfCol'[c] \in [RightCols -> Scalar]
    BY <1>4, <1>7, <1>8 DEF ScalarRow
  <2>2. /\ phase' \in {"left", "right", "sparse", "back", "dense", "done"}
        /\ qm' \in QuadMatrices /\ todo' \subseteq Nat
        /\ \A i \in DOMAIN tmp' : tmp'[i] \in [DOMAIN qm'.topLeft -> Scalar]
        /\ rowOrder' \in Seq(DOMAIN qm'.bottomLeft)
        /\ lower' \in Seq([RightCols -> Scalar])
    BY <1>1, <1>2 DEF TypeOK
  <2>3. reduced' \in Seq([RightCols -> Scalar])
    BY <1>10 DEF ScalarRow
  <2> QED
    BY <1>1, <1>2, <2>1, <2>2, <2>3, DenseUntouched DEF TypeOK
<1>15. RowsNotZero' /\ InReduce' /\ InDense' /\ ReducersInOrder' /\ InEchelonForm'
  <2>1. RowsNotZero'
    BY <1>1, <1>2 DEF RowsNotZero
  <2> QED
    BY <1>1, <2>1 DEF InReduce, InDense, ReducersInOrder, InEchelonForm
<1> QED
  BY <1>13, <1>14, <1>15 DEF Inv

(* The ends of the sparse phases *)
LEMMA EndPivotsKeeps ==
  ASSUME Inv, EndPivots
  PROVE  Inv'
<1>1. /\ phase = "sparse" /\ phase' = "back" /\ todo' = PivotCols
      /\ qm' = qm /\ tmp' = tmp /\ rowOrder' = rowOrder /\ lower' = lower
      /\ reduced' = reduced /\ pivotRowOfCol' = pivotRowOfCol /\ DenseUnchanged
  BY DEF EndPivots, reduceVars, denseVars, DenseUnchanged
<1>2. /\ TypeOK /\ DenseFits /\ RowsNotZero
      /\ \A c \in PivotCols : BeginsIn(pivotRowOfCol[c], c)
      /\ reduced = <<>>
  BY <1>1 DEF Inv, InSparse
<1>3. PivotCols' = PivotCols /\ PivotCols \subseteq Nat
  BY <1>1, <1>2, QuadMatricesAssumption DEF PivotCols, TypeOK, RightCols
<1>4. InSparse'
  <2>1. DOMAIN reduced' = {}
    BY <1>1, <1>2
  <2>2. \A c \in PivotCols' : BeginsIn(pivotRowOfCol'[c], c)
    BY <1>1, <1>2, <1>3
  <2> QED
    BY <1>1, <1>3, <2>1, <2>2 DEF InSparse
<1>5. TypeOK' /\ DenseFits'
  <2>1. \A c \in PivotCols' : c \in RightCols /\ pivotRowOfCol'[c] \in [RightCols -> Scalar]
    BY <1>1, <1>2, <1>3 DEF TypeOK
  <2>2. /\ phase' \in {"left", "right", "sparse", "back", "dense", "done"}
        /\ qm' \in QuadMatrices /\ todo' \subseteq Nat
        /\ \A i \in DOMAIN tmp' : tmp'[i] \in [DOMAIN qm'.topLeft -> Scalar]
        /\ rowOrder' \in Seq(DOMAIN qm'.bottomLeft)
        /\ lower' \in Seq([RightCols -> Scalar])
        /\ reduced' \in Seq([RightCols -> Scalar])
    BY <1>1, <1>2, <1>3 DEF TypeOK
  <2> QED
    BY <1>1, <1>2, <2>1, <2>2, DenseUntouched DEF TypeOK
<1>6. RowsNotZero' /\ InReduce' /\ InDense' /\ ReducersInOrder' /\ InEchelonForm'
  <2>1. RowsNotZero'
    BY <1>1, <1>2 DEF RowsNotZero
  <2> QED
    BY <1>1, <2>1 DEF InReduce, InDense, ReducersInOrder, InEchelonForm
<1> QED
  BY <1>4, <1>5, <1>6 DEF Inv

LEMMA EndSparseKeeps ==
  ASSUME Inv, EndSparse
  PROVE  Inv'
<1>1. /\ phase = "back" /\ phase' = "done" /\ todo = {} /\ todo' = todo
      /\ qm' = qm /\ tmp' = tmp /\ rowOrder' = rowOrder /\ lower' = lower
      /\ reduced' = reduced /\ pivotRowOfCol' = pivotRowOfCol /\ DenseUnchanged
  BY DEF EndSparse, reduceVars, denseVars, DenseUnchanged
<1>2. /\ TypeOK /\ DenseFits /\ RowsNotZero
      /\ \A c \in PivotCols : BeginsIn(pivotRowOfCol[c], c)
      /\ \A c \in PivotCols \ todo : \A b \in PivotCols \ {c} : pivotRowOfCol[c][b] = 0
      /\ \A i \in DOMAIN reduced : \E c \in PivotCols \ todo : reduced[i] = pivotRowOfCol[c]
      /\ \A i, j \in DOMAIN reduced : LeadCol(reduced[i]) = LeadCol(reduced[j]) => i = j
  BY <1>1 DEF Inv, InSparse
<1>3. RightCols \subseteq Nat
  BY QuadMatricesAssumption DEF RightCols
<1>4. \A i \in DOMAIN reduced : \E c \in PivotCols :
        /\ reduced[i] = pivotRowOfCol[c] /\ LeadCol(reduced[i]) = c /\ ~Zero(reduced[i])
        /\ reduced[i][c] = 1
  <2> SUFFICES ASSUME NEW i \in DOMAIN reduced
               PROVE  \E c \in PivotCols :
                        /\ reduced[i] = pivotRowOfCol[c]
                        /\ LeadCol(reduced[i]) = c /\ ~Zero(reduced[i])
                        /\ reduced[i][c] = 1
    OBVIOUS
  <2>1. PICK c \in PivotCols : reduced[i] = pivotRowOfCol[c]
    BY <1>2
  <2>2. pivotRowOfCol[c] \in ScalarRow /\ BeginsIn(pivotRowOfCol[c], c)
    BY <1>2 DEF TypeOK, ScalarRow
  <2>3. PICK row \in ScalarRow : row = pivotRowOfCol[c] /\ BeginsIn(row, c)
    BY <2>2
  <2>4. DOMAIN row \subseteq Nat
    BY <1>3 DEF ScalarRow
  <2>5. LeadCol(row) = c /\ ~Zero(row)
    BY <2>3, <2>4, LeadIs
  <2>6. row[c] = 1
    BY <2>3 DEF BeginsIn
  <2> QED
    BY <2>1, <2>3, <2>5, <2>6
<1>5. InEchelonForm'
  <2> SUFFICES ASSUME NEW i \in DOMAIN reduced, NEW j \in DOMAIN reduced
               PROVE  /\ ~Zero(reduced[i])
                      /\ reduced[j][LeadCol(reduced[i])] = IF i = j THEN 1 ELSE 0
    BY <1>1 DEF InEchelonForm
  <2>1. PICK b \in PivotCols : /\ reduced[i] = pivotRowOfCol[b] /\ LeadCol(reduced[i]) = b
                               /\ ~Zero(reduced[i]) /\ reduced[i][b] = 1
    BY <1>4
  <2>2. PICK c \in PivotCols : reduced[j] = pivotRowOfCol[c] /\ LeadCol(reduced[j]) = c
    BY <1>4
  <2>3. CASE i = j
    BY <2>1, <2>3
  <2>4. CASE i # j
    <3>1. b # c
      BY <1>2, <2>1, <2>2, <2>4
    <3>2. pivotRowOfCol[c][b] = 0
      BY <1>1, <1>2, <3>1
    <3> QED
      BY <2>1, <2>2, <2>4, <3>2
  <2> QED
    BY <2>3, <2>4
<1>6. TypeOK' /\ DenseFits'
  <2>1. \A c \in PivotCols' : c \in RightCols /\ pivotRowOfCol'[c] \in [RightCols -> Scalar]
    BY <1>1, <1>2 DEF TypeOK, PivotCols
  <2>2. /\ phase' \in {"left", "right", "sparse", "back", "dense", "done"}
        /\ qm' \in QuadMatrices /\ todo' \subseteq Nat
        /\ \A i \in DOMAIN tmp' : tmp'[i] \in [DOMAIN qm'.topLeft -> Scalar]
        /\ rowOrder' \in Seq(DOMAIN qm'.bottomLeft)
        /\ lower' \in Seq([RightCols -> Scalar])
        /\ reduced' \in Seq([RightCols -> Scalar])
    BY <1>1, <1>2 DEF TypeOK
  <2> QED
    BY <1>1, <1>2, <2>1, <2>2, DenseUntouched DEF TypeOK
<1>7. RowsNotZero' /\ InReduce' /\ InSparse' /\ InDense' /\ ReducersInOrder'
  <2>1. RowsNotZero'
    BY <1>1, <1>2 DEF RowsNotZero
  <2> QED
    BY <1>1, <2>1 DEF InReduce, InSparse, InDense, ReducersInOrder
<1> QED
  BY <1>5, <1>6, <1>7 DEF Inv

-----------------------------------------------------------------------------
(* reduce *)

LEMMA InitHolds ==
  ASSUME Init
  PROVE  Inv
<1>1. /\ phase = "left" /\ qm \in QuadMatrices /\ todo = DOMAIN qm.bottomLeft
      /\ tmp = <<>> /\ rowOrder = <<>> /\ lower = <<>> /\ pivotRowOfCol = <<>>
      /\ dense = <<>> /\ leadCols = <<>> /\ isPivotRow = <<>> /\ columnHasPivot = {}
      /\ reduced = <<>> /\ nextReducers = {}
  BY DEF Init
<1>2. /\ DOMAIN tmp = {} /\ DOMAIN lower = {} /\ DOMAIN pivotRowOfCol = {} /\ DOMAIN dense = {}
      /\ DOMAIN leadCols = {} /\ DOMAIN isPivotRow = {}
      /\ rowOrder \in Seq(DOMAIN qm.bottomLeft) /\ lower \in Seq([RightCols -> Scalar])
      /\ reduced \in Seq([RightCols -> Scalar])
      /\ tmp \in Seq([DOMAIN qm.topLeft -> Scalar]) /\ Len(tmp) = Len(rowOrder)
  BY <1>1
<1>3. todo \subseteq Nat
  <2>1. qm.bottomLeft \in Seq([LeftCols(qm) -> Scalar])
    BY <1>1, QuadMatricesAssumption
  <2>2. DOMAIN qm.bottomLeft = 1..Len(qm.bottomLeft) /\ Len(qm.bottomLeft) \in Nat
    BY <2>1
  <2> QED
    BY <1>1, <2>2
<1>4. NonEmptyRows = {} /\ PivotCols = {}
  BY <1>2 DEF NonEmptyRows, PivotCols
<1>5. TypeOK
  BY <1>1, <1>2, <1>3, <1>4 DEF TypeOK
<1>6. DenseFits /\ RowsNotZero
  BY <1>2, <1>4 DEF DenseFits, RowsNotZero
<1>7. InReduce
  BY <1>1, <1>2 DEF InReduce, NothingYet
<1>8. InSparse /\ InDense /\ ReducersInOrder /\ InEchelonForm
  BY <1>1 DEF InSparse, InDense, ReducersInOrder, InEchelonForm
<1> QED
  BY <1>5, <1>6, <1>7, <1>8 DEF Inv

LEMMA ReduceLeftKeeps ==
  ASSUME Inv, NEW row \in todo, ReduceLeft(row)
  PROVE  Inv'
<1> DEFINE multiples == LeftMultiples(qm, row)
           new == [i \in DOMAIN qm.topLeft |-> multiples[LeadCol(qm.topLeft[i])]]
<1>1. /\ phase = "left" /\ phase' = phase /\ qm' = qm /\ todo' = todo \ {row}
      /\ tmp' = Append(tmp, new) /\ rowOrder' = Append(rowOrder, row) /\ lower' = lower
      /\ reduced' = reduced /\ pivotRowOfCol' = pivotRowOfCol /\ DenseUnchanged
  BY DEF ReduceLeft, denseVars, DenseUnchanged
<1>2. /\ TypeOK /\ DenseFits /\ RowsNotZero
      /\ NothingYet
      /\ tmp \in Seq([DOMAIN qm.topLeft -> Scalar])
      /\ Len(tmp) = Len(rowOrder) /\ todo \subseteq DOMAIN qm.bottomLeft
  BY <1>1 DEF Inv, InReduce
<1>3. qm \in QuadMatrices /\ rowOrder \in Seq(DOMAIN qm.bottomLeft)
  BY <1>2 DEF TypeOK
<1>4. new \in [DOMAIN qm.topLeft -> Scalar]
  <2>1. PICK m \in QuadMatrices : m = qm
    BY <1>3
  <2>2. multiples \in [LeftCols(m) -> Scalar]
    BY <1>2, <2>1, MultiplesAreScalars
  <2>3. \A i \in DOMAIN m.topLeft : LeadCol(m.topLeft[i]) \in LeftCols(m)
    BY TopRows
  <2> HIDE DEF multiples
  <2> QED
    BY <2>1, <2>2, <2>3
<1> HIDE DEF new
<1>5. /\ tmp' \in Seq([DOMAIN qm.topLeft -> Scalar])
      /\ rowOrder' \in Seq(DOMAIN qm.bottomLeft)
      /\ Len(tmp') = Len(rowOrder')
  <2>1. row \in DOMAIN qm.bottomLeft
    BY <1>2
  <2> QED
    BY <1>1, <1>2, <1>3, <1>4, <2>1
<1>6. InReduce'
  <2>1. NothingYet'
    BY <1>1, <1>2 DEF NothingYet, DenseUnchanged
  <2> QED
    BY <1>1, <1>2, <1>5, <2>1 DEF InReduce
<1>7. TypeOK' /\ DenseFits'
  <2>1. \A i \in DOMAIN tmp' : tmp'[i] \in [DOMAIN qm'.topLeft -> Scalar]
    BY <1>1, <1>5
  <2>2. \A c \in PivotCols' : c \in RightCols /\ pivotRowOfCol'[c] \in [RightCols -> Scalar]
    BY <1>1, <1>2 DEF TypeOK, PivotCols
  <2>3. /\ phase' \in {"left", "right", "sparse", "back", "dense", "done"}
        /\ qm' \in QuadMatrices /\ todo' \subseteq Nat
        /\ rowOrder' \in Seq(DOMAIN qm'.bottomLeft)
        /\ lower' \in Seq([RightCols -> Scalar])
        /\ reduced' \in Seq([RightCols -> Scalar])
    BY <1>1, <1>2, <1>5 DEF TypeOK
  <2> QED
    BY <1>1, <1>2, <2>1, <2>2, <2>3, DenseUntouched DEF TypeOK
<1>8. RowsNotZero' /\ InSparse' /\ InDense' /\ ReducersInOrder' /\ InEchelonForm'
  <2>1. RowsNotZero'
    BY <1>1, <1>2 DEF RowsNotZero
  <2> QED
    BY <1>1, <2>1 DEF InSparse, InDense, ReducersInOrder, InEchelonForm
<1> QED
  BY <1>6, <1>7, <1>8 DEF Inv

LEMMA EndLeftKeeps ==
  ASSUME Inv, EndLeft
  PROVE  Inv'
<1>1. /\ phase = "left" /\ phase' = "right" /\ qm' = qm /\ todo' = DOMAIN tmp
      /\ tmp' = tmp /\ rowOrder' = rowOrder /\ lower' = lower
      /\ reduced' = reduced /\ pivotRowOfCol' = pivotRowOfCol /\ DenseUnchanged
  BY DEF EndLeft, reduceVars, denseVars, DenseUnchanged
<1>2. /\ TypeOK /\ DenseFits /\ RowsNotZero
      /\ NothingYet
      /\ tmp \in Seq([DOMAIN qm.topLeft -> Scalar])
      /\ Len(tmp) = Len(rowOrder)
  BY <1>1 DEF Inv, InReduce
<1>3. todo' \subseteq Nat
  BY <1>1, <1>2
<1>4. InReduce'
  <2>1. NothingYet'
    BY <1>1, <1>2 DEF NothingYet, DenseUnchanged
  <2> QED
    BY <1>1, <1>2, <2>1 DEF InReduce
<1>5. TypeOK' /\ DenseFits'
  <2>1. \A c \in PivotCols' : c \in RightCols /\ pivotRowOfCol'[c] \in [RightCols -> Scalar]
    BY <1>1, <1>2 DEF TypeOK, PivotCols
  <2>2. /\ phase' \in {"left", "right", "sparse", "back", "dense", "done"}
        /\ qm' \in QuadMatrices
        /\ \A i \in DOMAIN tmp' : tmp'[i] \in [DOMAIN qm'.topLeft -> Scalar]
        /\ rowOrder' \in Seq(DOMAIN qm'.bottomLeft)
        /\ lower' \in Seq([RightCols -> Scalar])
        /\ reduced' \in Seq([RightCols -> Scalar])
    BY <1>1, <1>2 DEF TypeOK
  <2> QED
    BY <1>1, <1>2, <1>3, <2>1, <2>2, DenseUntouched DEF TypeOK
<1>6. RowsNotZero' /\ InSparse' /\ InDense' /\ ReducersInOrder' /\ InEchelonForm'
  <2>1. RowsNotZero'
    BY <1>1, <1>2 DEF RowsNotZero
  <2> QED
    BY <1>1, <2>1 DEF InSparse, InDense, ReducersInOrder, InEchelonForm
<1> QED
  BY <1>4, <1>5, <1>6 DEF Inv

LEMMA ReduceRightKeeps ==
  ASSUME Inv, NEW i \in todo, ReduceRight(i)
  PROVE  Inv'
<1> DEFINE d == TakeModulus(RightSums(i))
<1>1. /\ phase = "right" /\ phase' = phase /\ qm' = qm /\ todo' = todo \ {i}
      /\ tmp' = tmp /\ rowOrder' = rowOrder
      /\ lower' = IF Zero(d) THEN lower ELSE Append(lower, d)
      /\ reduced' = reduced /\ pivotRowOfCol' = pivotRowOfCol /\ DenseUnchanged
  BY DEF ReduceRight, reduceVars, denseVars, DenseUnchanged
<1>2. /\ TypeOK /\ DenseFits /\ RowsNotZero /\ InReduce
      /\ NothingYet
      /\ tmp \in Seq([DOMAIN qm.topLeft -> Scalar])
      /\ Len(tmp) = Len(rowOrder) /\ todo \subseteq DOMAIN tmp
  BY <1>1 DEF Inv, InReduce
<1>3. d \in ScalarRow
  <2>1. i \in DOMAIN tmp
    BY <1>2
  <2>2. RightSums(i) \in [RightCols -> Nat]
    BY <1>1, <1>2, <2>1, RightSumsFit DEF DenseRow
  <2> QED
    BY <2>2, Remainders DEF TakeModulus, ScalarRow
<1> HIDE DEF d
<1>4. lower' \in Seq(ScalarRow) /\ RowsNotZero'
  <2>1. lower \in Seq(ScalarRow)
    BY <1>2 DEF TypeOK, ScalarRow
  <2>2. CASE Zero(d)
    BY <1>1, <1>2, <2>1, <2>2 DEF RowsNotZero
  <2>3. CASE ~Zero(d)
    <3>1. PICK s \in Seq(ScalarRow), e \in ScalarRow, n \in Nat :
            s = lower /\ e = d /\ n = Len(lower)
      BY <1>3, <2>1
    <3>2. lower' = Append(s, e)
      BY <1>1, <2>3, <3>1
    <3>3. /\ Append(s, e) \in Seq(ScalarRow) /\ Len(Append(s, e)) = n + 1
          /\ Append(s, e)[n + 1] = e /\ DOMAIN s = 1..n
          /\ \A k \in 1..n : Append(s, e)[k] = s[k]
      BY <3>1
    <3>4. DOMAIN Append(s, e) = 1..(n + 1)
      BY <3>3
    <3>5. \A k \in 1..(n + 1) : k \in 1..n \/ k = n + 1
      BY <3>1
    <3>6. \A k \in DOMAIN s : ~Zero(s[k])
      BY <1>2, <3>1 DEF RowsNotZero
    <3>7. \A k \in 1..(n + 1) : ~Zero(Append(s, e)[k])
      BY <2>3, <3>1, <3>3, <3>5, <3>6
    <3> QED
      BY <3>2, <3>3, <3>4, <3>7 DEF RowsNotZero
  <2> QED
    BY <2>2, <2>3
<1>5. InReduce'
  <2>1. NothingYet'
    BY <1>1, <1>2 DEF NothingYet, DenseUnchanged
  <2> QED
    BY <1>1, <1>2, <2>1 DEF InReduce
<1>6. TypeOK' /\ DenseFits'
  <2>1. \A c \in PivotCols' : c \in RightCols /\ pivotRowOfCol'[c] \in [RightCols -> Scalar]
    BY <1>1, <1>2 DEF TypeOK, PivotCols
  <2>2. lower' \in Seq([RightCols -> Scalar])
    BY <1>4 DEF ScalarRow
  <2>3. /\ phase' \in {"left", "right", "sparse", "back", "dense", "done"}
        /\ qm' \in QuadMatrices /\ todo' \subseteq Nat
        /\ \A k \in DOMAIN tmp' : tmp'[k] \in [DOMAIN qm'.topLeft -> Scalar]
        /\ rowOrder' \in Seq(DOMAIN qm'.bottomLeft)
        /\ reduced' \in Seq([RightCols -> Scalar])
    BY <1>1, <1>2 DEF TypeOK
  <2> QED
    BY <1>1, <1>2, <2>1, <2>2, <2>3, DenseUntouched DEF TypeOK
<1>7. InSparse' /\ InDense' /\ ReducersInOrder' /\ InEchelonForm'
  BY <1>1 DEF InSparse, InDense, ReducersInOrder, InEchelonForm
<1> QED
  BY <1>4, <1>5, <1>6, <1>7 DEF Inv

(* The choice of an algorithm *)
LEMMA EndRightKeeps ==
  ASSUME Inv, EndRight
  PROVE  Inv'
<1>1. /\ phase = "right" /\ qm' = qm /\ todo' = DOMAIN lower
      /\ tmp' = <<>> /\ rowOrder' = <<>> /\ lower' = lower
      /\ reduced' = reduced /\ pivotRowOfCol' = pivotRowOfCol
      /\ \/ phase' = "sparse" /\ DenseUnchanged
         \/ /\ phase' = "dense" /\ dense' = lower
            /\ leadCols' = [row \in DOMAIN lower |-> 0]
            /\ isPivotRow' = [row \in DOMAIN lower |-> FALSE]
            /\ columnHasPivot' = columnHasPivot /\ nextReducers' = nextReducers
  BY Zenon DEF EndRight, denseVars, DenseUnchanged
<1>2. /\ TypeOK /\ DenseFits /\ RowsNotZero
      /\ pivotRowOfCol = <<>> /\ reduced = <<>> /\ columnHasPivot = {} /\ nextReducers = {}
  BY <1>1 DEF Inv, InReduce, NothingYet
<1>3. lower \in Seq(ScalarRow) /\ DOMAIN lower \subseteq Nat
  <2>1. lower \in Seq(ScalarRow)
    BY <1>2 DEF TypeOK, ScalarRow
  <2> QED
    BY <2>1
<1>4. DOMAIN pivotRowOfCol' = {} /\ DOMAIN reduced' = {} /\ PivotCols' = {}
  BY <1>1, <1>2 DEF PivotCols
<1>5. /\ phase' \in {"left", "right", "sparse", "back", "dense", "done"}
      /\ qm' \in QuadMatrices /\ todo' \subseteq Nat
      /\ \A i \in DOMAIN tmp' : tmp'[i] \in [DOMAIN qm'.topLeft -> Scalar]
      /\ rowOrder' \in Seq(DOMAIN qm'.bottomLeft)
      /\ lower' \in Seq([RightCols -> Scalar])
      /\ \A c \in PivotCols' : c \in RightCols /\ pivotRowOfCol'[c] \in [RightCols -> Scalar]
      /\ reduced' \in Seq([RightCols -> Scalar])
  <2>1. DOMAIN tmp' = {}
    BY <1>1
  <2> QED
    BY <1>1, <1>2, <1>3, <1>4, <2>1 DEF TypeOK
<1>6. RowsNotZero'
  BY <1>1, <1>2 DEF RowsNotZero
<1>7. CASE phase' = "sparse" /\ DenseUnchanged
  <2>1. TypeOK' /\ DenseFits'
    BY <1>2, <1>5, <1>7, DenseUntouched DEF TypeOK
  <2>2. InSparse'
    BY <1>1, <1>2, <1>4, <1>7 DEF InSparse
  <2>3. InReduce' /\ InDense' /\ ReducersInOrder' /\ InEchelonForm'
    BY <1>7 DEF InReduce, InDense, ReducersInOrder, InEchelonForm
  <2> QED
    BY <1>6, <2>1, <2>2, <2>3 DEF Inv
<1>8. CASE /\ phase' = "dense" /\ dense' = lower
           /\ leadCols' = [row \in DOMAIN lower |-> 0]
           /\ isPivotRow' = [row \in DOMAIN lower |-> FALSE]
           /\ columnHasPivot' = columnHasPivot /\ nextReducers' = nextReducers
  <2>1. ASSUME NEW row \in DOMAIN lower
        PROVE  /\ dense'[row] \in ScalarRow /\ dense'[row] \in DenseRow /\ dense'[row] # <<>>
               /\ leadCols'[row] = 0 /\ isPivotRow'[row] = FALSE
    <3>1. dense'[row] \in ScalarRow /\ leadCols'[row] = 0 /\ isPivotRow'[row] = FALSE
      BY <1>3, <1>8
    <3>2. dense'[row] \in DenseRow
      BY <3>1, Remainders DEF ScalarRow, DenseRow, Scalar
    <3>3. RightCols # {}
      <4>1. ~Zero(dense'[row])
        BY <1>2, <1>8 DEF RowsNotZero
      <4> QED
        BY <3>1, <4>1 DEF Zero, ScalarRow
    <3>4. PICK d \in DenseRow : d = dense'[row]
      BY <3>2
    <3>5. d # <<>>
      BY <3>3, RowNotEmpty
    <3> QED
      BY <3>1, <3>2, <3>4, <3>5
  <2>2. /\ DOMAIN dense' = DOMAIN lower /\ DOMAIN leadCols' = DOMAIN lower
        /\ DOMAIN isPivotRow' = DOMAIN lower
    BY <1>8
  <2>3. NonEmptyRows' = DOMAIN lower
    BY <2>1, <2>2 DEF NonEmptyRows
  <2>4. ReducerCols' = {} /\ PastCols' = {} /\ OldCols' = {}
    BY <1>4, <2>1, <2>2 DEF ReducerCols, PastCols, OldCols
  <2>5. Claimed' = {}
    BY <1>2, <1>8, <2>1, <2>3 DEF Claimed, NextPivots
  <2>6. Right \in Nat /\ \A c \in RightCols : c \in Nat /\ ~(c < 0)
    BY QuadMatricesAssumption DEF RightCols
  <2>7. \A k \in Nat : Modulus - 1 <= Most(k) /\ Most(k) \in Nat /\ Modulus \in Nat
    BY MostGrows, Remainders
  <2>8. ASSUME NEW row \in DOMAIN lower, NEW c \in RightCols, NEW k \in Nat
        PROVE  dense'[row][c] <= Most(k)
    <3>1. dense'[row][c] \in Scalar
      BY <2>1 DEF ScalarRow
    <3> QED
      BY <2>7, <3>1 DEF Scalar
  <2>9. DenseShape'
    BY <1>1, <2>1, <2>2, <2>3 DEF DenseShape
  <2>10. RowsReduced'
    <3>1. Cardinality({}) = 0 /\ 0 \in Nat
      BY FS_EmptySet
    <3>2. ASSUME NEW row \in DOMAIN lower
          PROVE  ReducedIn(dense'[row], leadCols'[row], isPivotRow'[row], {})
      BY <2>1, <2>6, <2>8, <3>1 DEF ReducedIn
    <3> QED
      BY <2>3, <2>4, <3>2 DEF RowsReduced
  <2>11. RowsSettled' /\ NextReducersClaim' /\ ClaimsAgree'
    <3>1. RowsSettled'
      BY <1>1, <2>3 DEF RowsSettled
    <3>2. NextReducersClaim'
      BY <1>2, <1>8 DEF NextReducersClaim
    <3>3. ClaimsAgree'
      BY <1>2, <1>8, <2>4, <2>5 DEF ClaimsAgree
    <3> QED
      BY <3>1, <3>2, <3>3
  <2>12. InDense'
    BY <2>9, <2>10, <2>11 DEF InDense
  <2>13. ReducersInOrder'
    BY <1>4 DEF ReducersInOrder
  <2>14. TypeOK' /\ DenseFits'
    <3>1. DenseFits'
      BY <2>3, <2>6, <2>8 DEF DenseFits
    <3>2. /\ \A row \in NonEmptyRows' : dense'[row] \in DenseRow
          /\ \A row \in DOMAIN leadCols' : leadCols'[row] \in 0..Right
          /\ \A row \in DOMAIN isPivotRow' : isPivotRow'[row] \in BOOLEAN
          /\ columnHasPivot' \subseteq RightCols
          /\ nextReducers' \subseteq RightCols \X DOMAIN dense'
      BY <1>2, <1>8, <2>1, <2>2, <2>3, <2>6
    <3> QED
      BY <1>5, <3>1, <3>2 DEF TypeOK
  <2>15. InReduce' /\ InSparse' /\ InEchelonForm'
    BY <1>8 DEF InReduce, InSparse, InEchelonForm
  <2> QED
    BY <1>6, <2>12, <2>13, <2>14, <2>15 DEF Inv
<1> QED
  BY <1>1, <1>7, <1>8

-----------------------------------------------------------------------------
(* The theorems *)

LEMMA StutterKeeps ==
  ASSUME Inv, UNCHANGED vars
  PROVE  Inv'
<1>1. /\ phase' = phase /\ qm' = qm /\ todo' = todo /\ tmp' = tmp /\ rowOrder' = rowOrder
      /\ lower' = lower /\ pivotRowOfCol' = pivotRowOfCol /\ dense' = dense
      /\ leadCols' = leadCols /\ isPivotRow' = isPivotRow /\ columnHasPivot' = columnHasPivot
      /\ reduced' = reduced /\ nextReducers' = nextReducers
  BY DEF vars, reduceVars, denseVars
<1>2. TypeOK' /\ DenseFits' /\ RowsNotZero'
  BY <1>1 DEF Inv, TypeOK, DenseFits, RowsNotZero, PivotCols, NonEmptyRows
<1>3. InReduce'
  BY <1>1 DEF Inv, InReduce, NothingYet
<1>4. InSparse'
  BY <1>1 DEF Inv, InSparse, PivotCols
<1>5. /\ PastCols' = PastCols /\ OldCols' = OldCols /\ NonEmptyRows' = NonEmptyRows
      /\ Claimed' = Claimed
  BY <1>1 DEF PastCols, OldCols, ReducerCols, NonEmptyRows, Claimed, NextPivots
<1>6. InDense'
  <2>1. DenseShape' = DenseShape
    BY <1>1, <1>5 DEF DenseShape
  <2>2. RowsReduced' = RowsReduced
    BY <1>1, <1>5 DEF RowsReduced
  <2>3. RowsSettled' = RowsSettled
    BY <1>1, <1>5 DEF RowsSettled
  <2>4. NextReducersClaim' = NextReducersClaim
    BY <1>1, <1>5 DEF NextReducersClaim
  <2>5. ClaimsAgree' = ClaimsAgree
    BY <1>1, <1>5 DEF ClaimsAgree
  <2> QED
    BY <1>1, <2>1, <2>2, <2>3, <2>4, <2>5 DEF Inv, InDense
<1>7. ReducersInOrder' /\ InEchelonForm'
  BY <1>1, <1>5 DEF Inv, ReducersInOrder, InEchelonForm
<1> QED
  BY <1>2, <1>3, <1>4, <1>6, <1>7 DEF Inv

LEMMA InvAlways == Spec => []Inv
<1>1. Init => Inv
  BY InitHolds
<1>2. Inv /\ [Next]_vars => Inv'
  <2> SUFFICES ASSUME Inv, [Next]_vars
               PROVE  Inv'
    OBVIOUS
  <2>1. CASE RowStep
    <3>1. ASSUME NEW row \in todo, ReduceLeft(row)
          PROVE  Inv'
      BY <3>1, ReduceLeftKeeps
    <3>2. ASSUME NEW i \in todo, ReduceRight(i)
          PROVE  Inv'
      BY <3>2, ReduceRightKeeps
    <3>3. ASSUME NEW row \in todo, PivotRow(row)
          PROVE  Inv'
      BY <3>3, PivotRowKeeps
    <3>4. ASSUME NEW pivotCol \in todo, BackReduce(pivotCol)
          PROVE  Inv'
      BY <3>4, BackReduceKeeps
    <3>5. ASSUME NEW row \in todo, ReduceRow(row)
          PROVE  Inv'
      BY <3>5, ReduceRowKeeps
    <3> QED
      BY <2>1, <3>1, <3>2, <3>3, <3>4, <3>5 DEF RowStep
  <2>2. CASE CallerStep
    <3>1. CASE EndLeft
      BY <3>1, EndLeftKeeps
    <3>2. CASE EndRight
      BY <3>2, EndRightKeeps
    <3>3. CASE EndPivots
      BY <3>3, EndPivotsKeeps
    <3>4. CASE EndSparse
      BY <3>4, EndSparseKeeps
    <3>5. CASE NextIteration
      BY <3>5, NextIterationKeeps
    <3>6. CASE EndDense
      BY <3>6, EndDenseKeeps
    <3> QED
      BY <2>2, <3>1, <3>2, <3>3, <3>4, <3>5, <3>6 DEF CallerStep
  <2>3. CASE UNCHANGED vars
    BY <2>3, StutterKeeps
  <2> QED
    BY <2>1, <2>2, <2>3 DEF Next
<1> QED
  BY <1>1, <1>2, PTL DEF Spec

LEMMA InvClaims ==
  ASSUME Inv
  PROVE  PivotsClaimedOnce
<1> SUFFICES ASSUME phase = "dense"
             PROVE  /\ columnHasPivot = {leadCols[row] : row \in Claimed}
                    /\ \A r, s \in Claimed : leadCols[r] = leadCols[s] => r = s
                    /\ \A row \in NextPivots : ~isPivotRow[row]
                    /\ \A row \in Claimed : dense[row][leadCols[row]] = 1
                    /\ \A row \in NonEmptyRows : \A c \in 0..leadCols[row] - 1 :
                         dense[row][c] = 0
  BY DEF PivotsClaimedOnce
<1>1. TypeOK /\ DenseShape /\ RowsReduced /\ NextReducersClaim /\ ClaimsAgree
  BY DEF Inv, InDense
<1>2. \A row \in NextPivots : \E p \in nextReducers : row = p[2]
  BY DEF NextPivots
<1>3. \A row \in NextPivots : ~isPivotRow[row] /\ dense[row][leadCols[row]] = 1
  BY <1>1, <1>2 DEF NextReducersClaim
<1>4. \A row \in NonEmptyRows : isPivotRow[row] => dense[row][leadCols[row]] = 1
  BY <1>1 DEF RowsReduced, ReducedIn
<1>5. \A row \in Claimed : dense[row][leadCols[row]] = 1
  BY <1>3, <1>4 DEF Claimed
<1>6. columnHasPivot = {leadCols[row] : row \in Claimed}
  <2>1. PastCols = {leadCols[row] : row \in {r \in NonEmptyRows : isPivotRow[r]}}
    BY <1>1 DEF PastCols, DenseShape, NonEmptyRows
  <2>2. {p[1] : p \in nextReducers} = {leadCols[row] : row \in NextPivots}
    BY <1>1 DEF NextReducersClaim, NextPivots
  <2> QED
    BY <1>1, <2>1, <2>2 DEF ClaimsAgree, Claimed
<1>7. ASSUME NEW row \in NonEmptyRows, NEW c \in 0..leadCols[row] - 1
      PROVE  dense[row][c] = 0
  <2>1. leadCols[row] \in 0..Right
    BY <1>1 DEF TypeOK, DenseShape, NonEmptyRows
  <2>2. c \in RightCols /\ c < leadCols[row]
    BY <2>1, QuadMatricesAssumption DEF RightCols
  <2> QED
    BY <1>1, <2>2 DEF RowsReduced, ReducedIn
<1> QED
  BY <1>1, <1>3, <1>5, <1>6, <1>7 DEF ClaimsAgree

(* Whichever thread comes to the lock first, of the rows that find the same
   lead one becomes its pivot, and no row that is a pivot becomes one again. *)
THEOREM PivotsStayClaimedOnce == Spec => []PivotsClaimedOnce
<1>1. Inv => PivotsClaimedOnce
  BY InvClaims
<1> QED
  BY <1>1, InvAlways, PTL

LEMMA InvFits ==
  ASSUME Inv
  PROVE  SumsFit
<1>1. TypeOK /\ \A row \in NonEmptyRows : \A c \in RightCols : dense[row][c] <= Most(Right)
  BY DEF Inv, DenseFits
<1>2. ASSUME phase = "right", NEW i \in todo, NEW c \in RightCols
      PROVE  RightSums(i)[c] <= Most(Len(qm.topLeft))
  <2>1. InReduce /\ i \in DOMAIN tmp
    BY <1>2 DEF Inv, InReduce
  <2> QED
    BY <1>1, <1>2, <2>1, RightSumsFit
<1> QED
  BY <1>1, <1>2 DEF SumsFit, Most

(* A dense entry never exceeds a scalar and one product for each column that
   can have a pivot, for any number of rows, pivots and iterations. *)
THEOREM SumsStayFit == Spec => []SumsFit
<1>1. Inv => SumsFit
  BY InvFits
<1> QED
  BY <1>1, InvAlways, PTL

(* Either algorithm ends, when it ends, with rows that begin with 1 in columns
   where the others are zero. *)
THEOREM EchelonFormReached == Spec => []InEchelonForm
<1>1. Inv => InEchelonForm
  BY DEF Inv
<1> QED
  BY <1>1, InvAlways, PTL
=============================================================================
