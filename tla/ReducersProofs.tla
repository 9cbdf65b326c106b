--------------------------- MODULE ReducersProofs ---------------------------
(***************************************************************************)
(* Every kind of reducer divides with remainder: Reducers implements       *)
(* Reduction, for every prime, basis and sequence of reductions; and its   *)
(* results are reduced and congruent to what was given.                    *)
(***************************************************************************)
EXTENDS Reducers, FiniteSetTheorems, WellFoundedInduction, TLAPS

LEMMA MinIs ==
  ASSUME NEW S, S \subseteq Nat, S # {}
  PROVE  Min(S) \in S /\ \A n \in S : Min(S) <= n
<1>1. PICK m \in S : \A n \in S : <<n, m>> \notin OpToRel(<, Nat)
  BY NatLessThanWellFounded, WFMin
<1>2. ASSUME NEW n \in S
      PROVE  m <= n
  <2>1. m \in Nat /\ n \in Nat
    OBVIOUS
  <2>2. ~(n < m)
    BY <1>1, <2>1 DEF OpToRel
  <2> QED
    BY <2>1, <2>2
<1> QED
  BY <1>1, <1>2 DEF Min

LEMMA LargestExists ==
  ASSUME NEW n \in Nat, NEW S \in SUBSET (0..n), S # {}
  PROVE  \E x \in S : \A y \in S : x >= y
<1> DEFINE T == {i \in 0..n : n - i \in S}
<1>1. T \subseteq Nat
  OBVIOUS
<1>2. T # {}
  <2>1. PICK x \in S : TRUE
    OBVIOUS
  <2>2. n - x \in 0..n /\ n - (n - x) = x
    BY <2>1
  <2>3. n - x \in T
    BY <2>1, <2>2
  <2> QED
    BY <2>3
<1>3. Min(T) \in T /\ \A j \in T : Min(T) <= j
  <2> HIDE DEF T
  <2> QED
    BY <1>1, <1>2, MinIs
<1>4. ASSUME NEW x \in S
      PROVE  n - Min(T) >= x
  <2>1. n - x \in 0..n /\ n - (n - x) = x
    OBVIOUS
  <2>2. Min(T) <= n - x
    BY <1>3, <2>1
  <2>3. Min(T) \in 0..n
    BY <1>3
  <2> QED
    BY <2>1, <2>2, <2>3
<1>5. n - Min(T) \in S
  BY <1>3
<1> QED
  BY <1>4, <1>5

LEMMA MaxIs ==
  ASSUME NEW n \in Nat, NEW S \in SUBSET (0..n), S # {}
  PROVE  Max(S) \in S /\ \A x \in S : x <= Max(S)
<1>1. \E x \in S : \A y \in S : x >= y
  BY LargestExists
<1>2. Max(S) \in S /\ \A y \in S : Max(S) >= y
  BY <1>1 DEF Max
<1>3. \A y \in S : y \in Nat
  OBVIOUS
<1> QED
  BY <1>2, <1>3

(* What holds before a loop and is kept by each turn holds throughout. *)
LEMMA EachTurn ==
  ASSUME NEW n \in Nat, NEW T, 0 \in T, \A k \in 1..n : k - 1 \in T => k \in T
  PROVE  0..n \subseteq T
<1> SUFFICES ASSUME (0..n) \ T # {}
             PROVE  FALSE
  OBVIOUS
<1> DEFINE k == Min((0..n) \ T)
<1>1. k \in (0..n) \ T /\ \A i \in (0..n) \ T : k <= i
  BY MinIs
<1>2. k # 0 /\ k \in 1..n
  BY <1>1
<1>3. k - 1 \in 0..n /\ ~(k <= k - 1)
  BY <1>2
<1>4. k - 1 \in T
  BY <1>1, <1>3
<1> QED
  BY <1>1, <1>2, <1>4

(* The loop that F describes, up to its n-th turn *)
LoopSoFar(after, F, x, n) ==
  after = [k \in 0..n |-> IF k = 0 THEN x ELSE F[k][after[k - 1]]]

LEMMA LoopExists ==
  ASSUME NEW F, NEW x, NEW n \in Nat
  PROVE  \E after : LoopSoFar(after, F, x, n)
<1> DEFINE T == {k \in 0..n : \E after : LoopSoFar(after, F, x, k)}
<1>1. 0 \in T
  <2>1. LoopSoFar([k \in 0..0 |-> x], F, x, 0)
    BY DEF LoopSoFar
  <2> QED
    BY <2>1
<1>2. ASSUME NEW k \in 1..n, k - 1 \in T
      PROVE  k \in T
  <2>1. PICK before : LoopSoFar(before, F, x, k - 1)
    BY <1>2
  <2> DEFINE after == [i \in 0..k |-> IF i = k THEN F[k][before[k - 1]] ELSE before[i]]
  <2>2. \A i \in 0..(k - 1) : before[i] = IF i = 0 THEN x ELSE F[i][before[i - 1]]
    BY <2>1 DEF LoopSoFar
  <2>3. \A i \in 0..k : after[i] = IF i = 0 THEN x ELSE F[i][after[i - 1]]
    <3> SUFFICES ASSUME NEW i \in 0..k
                 PROVE  after[i] = IF i = 0 THEN x ELSE F[i][after[i - 1]]
      OBVIOUS
    <3>1. CASE i = k
      <4>1. k - 1 \in 0..k /\ k - 1 # k /\ i # 0
        BY <1>2, <3>1
      <4> QED
        BY <3>1, <4>1
    <3>2. CASE i \in 1..(k - 1)
      <4>1. i - 1 \in 0..k /\ i - 1 # k /\ i # k /\ i # 0 /\ i \in 0..(k - 1)
        BY <3>2
      <4> QED
        BY <2>2, <4>1
    <3>3. CASE i = 0 /\ i # k
      BY <2>2, <3>3
    <3> QED
      BY <3>1, <3>2, <3>3
  <2>4. LoopSoFar(after, F, x, k)
    BY <2>3 DEF LoopSoFar
  <2> QED
    BY <2>4
<1> HIDE DEF T
<1>3. 0..n \subseteq T
  BY <1>1, <1>2, EachTurn
<1> QED
  BY <1>3 DEF T

-----------------------------------------------------------------------------
(* Sums *)

(* The partial sums of f *)
PartialSums(upTo, f, n) == upTo = [k \in 0..n |-> IF k = 0 THEN 0 ELSE upTo[k - 1] + f[k]]

LEMMA SumsExist ==
  ASSUME NEW f, NEW n \in Nat, \A k \in 1..n : f[k] \in Nat
  PROVE  \E upTo : PartialSums(upTo, f, n) /\ \A k \in 0..n : upTo[k] \in Nat
<1> DEFINE F == [k \in 1..n |-> [x \in Nat |-> x + f[k]]]
<1>1. PICK upTo : LoopSoFar(upTo, F, 0, n)
  BY LoopExists
<1>2. upTo[0] = 0 /\ \A k \in 1..n : upTo[k] = F[k][upTo[k - 1]]
  <2> HIDE DEF F
  <2> QED
    BY <1>1 DEF LoopSoFar
<1>3. \A k \in 1..n : upTo[k - 1] \in Nat => upTo[k] = upTo[k - 1] + f[k] /\ upTo[k] \in Nat
  <2> SUFFICES ASSUME NEW k \in 1..n, upTo[k - 1] \in Nat
               PROVE  upTo[k] = upTo[k - 1] + f[k] /\ upTo[k] \in Nat
    OBVIOUS
  <2>1. upTo[k] = F[k][upTo[k - 1]] /\ F[k] = [x \in Nat |-> x + f[k]]
    BY <1>2
  <2> HIDE DEF F
  <2> QED
    BY <2>1
<1> DEFINE T == {k \in 0..n : upTo[k] \in Nat}
<1>4. 0 \in T /\ \A k \in 1..n : k - 1 \in T => k \in T
  BY <1>2, <1>3
<1>5. \A k \in 0..n : upTo[k] \in Nat
  <2> HIDE DEF T
  <2>1. 0..n \subseteq T
    BY <1>4, EachTurn
  <2> QED
    BY <2>1 DEF T
<1>6. \A k \in 1..n : upTo[k] = upTo[k - 1] + f[k]
  BY <1>3, <1>5
<1>7. upTo = [k \in 0..n |-> upTo[k]]
  BY <1>1 DEF LoopSoFar
<1>8. PartialSums(upTo, f, n)
  <2>1. \A k \in 0..n : upTo[k] = IF k = 0 THEN 0 ELSE upTo[k - 1] + f[k]
    BY <1>2, <1>6
  <2> QED
    BY <1>7, <2>1 DEF PartialSums
<1> QED
  BY <1>5, <1>8

LEMMA TotalIs ==
  ASSUME NEW f, NEW n \in Nat, \A k \in 1..n : f[k] \in Nat
  PROVE  \E upTo : PartialSums(upTo, f, n) /\ Total(f, n) = upTo[n]
<1> DEFINE upTo == CHOOSE u : u = [k \in 0..n |-> IF k = 0 THEN 0 ELSE u[k - 1] + f[k]]
<1>1. \E u : u = [k \in 0..n |-> IF k = 0 THEN 0 ELSE u[k - 1] + f[k]]
  <2>1. PICK u : PartialSums(u, f, n)
    BY SumsExist
  <2> QED
    BY <2>1 DEF PartialSums
<1>2. upTo = [k \in 0..n |-> IF k = 0 THEN 0 ELSE upTo[k - 1] + f[k]]
  BY <1>1, Zenon
<1>3. Total(f, n) = upTo[n]
  BY DEF Total
<1> QED
  BY <1>2, <1>3 DEF PartialSums

Alike(f, g, n) == \A k \in 1..n : f[k] = g[k]

LEMMA SumsAgree ==
  ASSUME NEW f, NEW g, NEW n \in Nat, NEW m \in n..n + 1, NEW u, NEW v,
         PartialSums(u, f, n), PartialSums(v, g, m),
         Alike(f, g, n)
  PROVE  u[n] = v[n]
<1>1. /\ u[0] = 0 /\ \A k \in 1..n : u[k] = u[k - 1] + f[k]
      /\ v[0] = 0 /\ \A k \in 1..n : v[k] = v[k - 1] + g[k]
  BY DEF PartialSums
<1> DEFINE T == {k \in 0..n : u[k] = v[k]}
<1>2. 0 \in T /\ \A k \in 1..n : k - 1 \in T => k \in T
  BY <1>1 DEF Alike
<1> HIDE DEF T
<1>3. 0..n \subseteq T
  BY <1>2, EachTurn
<1> QED
  BY <1>3 DEF T

LEMMA TotalNat ==
  ASSUME NEW f, NEW n \in Nat, \A k \in 1..n : f[k] \in Nat
  PROVE  Total(f, n) \in Nat
<1>1. PICK u : PartialSums(u, f, n) /\ \A k \in 0..n : u[k] \in Nat
  BY SumsExist
<1>2. PICK v : PartialSums(v, f, n) /\ Total(f, n) = v[n]
  BY TotalIs
<1>3. u[n] = v[n]
  BY <1>1, <1>2, SumsAgree DEF Alike
<1> QED
  BY <1>1, <1>2, <1>3

LEMMA TotalOfNone ==
  ASSUME NEW f
  PROVE  Total(f, 0) = 0
<1>1. PICK u : PartialSums(u, f, 0) /\ Total(f, 0) = u[0]
  BY TotalIs
<1> QED
  BY <1>1 DEF PartialSums

LEMMA TotalStep ==
  ASSUME NEW f, NEW n \in Nat, \A k \in 1..n + 1 : f[k] \in Nat
  PROVE  Total(f, n + 1) = Total(f, n) + f[n + 1]
<1>1. PICK u : PartialSums(u, f, n) /\ Total(f, n) = u[n]
  BY TotalIs
<1>2. PICK v : PartialSums(v, f, n + 1) /\ Total(f, n + 1) = v[n + 1]
  BY TotalIs
<1>3. u[n] = v[n]
  BY <1>1, <1>2, SumsAgree DEF Alike
<1>4. v[n + 1] = v[n] + f[n + 1]
  BY <1>2 DEF PartialSums
<1> QED
  BY <1>1, <1>2, <1>3, <1>4

LEMMA TotalEqual ==
  ASSUME NEW f, NEW g, NEW n \in Nat, \A k \in 1..n : f[k] \in Nat /\ f[k] = g[k]
  PROVE  Total(f, n) = Total(g, n)
<1>1. PICK u : PartialSums(u, f, n) /\ Total(f, n) = u[n]
  BY TotalIs
<1>2. PICK v : PartialSums(v, g, n) /\ Total(g, n) = v[n]
  BY TotalIs
<1>3. Alike(f, g, n) /\ n \in n..n + 1
  BY DEF Alike
<1>4. u[n] = v[n]
  BY <1>1, <1>2, <1>3, SumsAgree
<1> QED
  BY <1>1, <1>2, <1>4

(* Sequences of numbers, their turns, and what is left of one without its i-th *)
Numbers(f, n) == \A k \in 1..n : f[k] \in Nat
Without(g, f, n, i) == \A k \in 1..n - 1 : g[k] = IF k < i THEN f[k] ELSE f[k + 1]

LEMMA TotalTurns ==
  ASSUME NEW f, NEW n \in Nat, Numbers(f, n)
  PROVE  /\ Total(f, 0) = 0 /\ Total(f, n) \in Nat
         /\ \A k \in 1..n : /\ f[k] \in Nat /\ Total(f, k - 1) \in Nat /\ Total(f, k) \in Nat
                            /\ Total(f, k) = Total(f, k - 1) + f[k]
<1>1. ASSUME NEW k \in 1..n
      PROVE  /\ f[k] \in Nat /\ Total(f, k - 1) \in Nat
             /\ Total(f, k) = Total(f, k - 1) + f[k]
  <2>1. PICK m \in Nat : k = m + 1
    <3>1. k - 1 \in Nat /\ k = (k - 1) + 1
      OBVIOUS
    <3> QED
      BY <3>1
  <2>2. \A j \in 1..m + 1 : f[j] \in Nat
    BY <2>1 DEF Numbers
  <2>3. \A j \in 1..m : f[j] \in Nat
    BY <2>2
  <2>4. Total(f, m + 1) = Total(f, m) + f[m + 1] /\ Total(f, m) \in Nat
    BY <2>2, <2>3, TotalStep, TotalNat
  <2>5. k - 1 = m
    BY <2>1
  <2> QED
    BY <2>1, <2>2, <2>4, <2>5
<1>2. \A k \in 1..n : Total(f, k) \in Nat
  BY <1>1
<1>3. Total(f, n) \in Nat
  BY TotalNat DEF Numbers
<1> QED
  BY <1>1, <1>2, <1>3, TotalOfNone

LEMMA TotalOfZeros ==
  ASSUME NEW f, NEW n \in Nat, \A k \in 1..n : f[k] = 0
  PROVE  Total(f, n) = 0
<1>1. Numbers(f, n)
  BY DEF Numbers
<1>2. /\ Total(f, 0) = 0
      /\ \A k \in 1..n : Total(f, k) = Total(f, k - 1) + f[k]
  BY <1>1, TotalTurns
<1> DEFINE T == {k \in 0..n : Total(f, k) = 0}
<1>3. 0 \in T /\ \A k \in 1..n : k - 1 \in T => k \in T
  BY <1>2
<1> HIDE DEF T
<1>4. 0..n \subseteq T
  BY <1>3, EachTurn
<1> QED
  BY <1>4 DEF T

LEMMA TotalWithout ==
  ASSUME NEW f, NEW g, NEW n \in Nat, NEW i \in 1..n, Numbers(f, n), Without(g, f, n, i)
  PROVE  Total(f, n) = Total(g, n - 1) + f[i] /\ Numbers(g, n - 1)
<1>1. n - 1 \in Nat /\ Numbers(g, n - 1)
  <2> SUFFICES ASSUME NEW k \in 1..n - 1 PROVE g[k] \in Nat
    BY DEF Numbers
  <2>1. k \in 1..n /\ k + 1 \in 1..n
    OBVIOUS
  <2> QED
    BY <2>1 DEF Numbers, Without
<1>2. /\ Total(f, 0) = 0
      /\ \A k \in 1..n : /\ f[k] \in Nat /\ Total(f, k - 1) \in Nat
                         /\ Total(f, k) = Total(f, k - 1) + f[k]
  BY TotalTurns
<1>3. /\ Total(g, 0) = 0
      /\ \A k \in 1..n - 1 : /\ g[k] \in Nat /\ Total(g, k - 1) \in Nat
                             /\ Total(g, k) = Total(g, k - 1) + g[k]
  BY <1>1, TotalTurns
<1> DEFINE T == {k \in 0..n : Total(f, k) = IF k < i THEN Total(g, k) ELSE Total(g, k - 1) + f[i]}
<1>4. 0 \in T
  BY <1>2, <1>3
<1>5. ASSUME NEW k \in 1..n, k - 1 \in T
      PROVE  k \in T
  <2>1. CASE k < i
    <3>1. k \in 1..n - 1 /\ k - 1 < i
      BY <2>1
    <3>2. g[k] = f[k]
      BY <2>1, <3>1 DEF Without
    <3> QED
      BY <1>2, <1>3, <1>5, <2>1, <3>1, <3>2
  <2>2. CASE k = i
    <3>1. k - 1 < i
      BY <2>2
    <3> QED
      BY <1>2, <1>5, <2>2, <3>1
  <2>3. CASE k > i
    <3>1. k - 1 \in 1..n - 1 /\ ~(k - 1 < i) /\ (k - 1) + 1 = k
      BY <2>3
    <3>2. g[k - 1] = f[k]
      BY <3>1 DEF Without
    <3>3. Total(f, k) = Total(f, k - 1) + f[k] /\ f[k] \in Nat /\ f[i] \in Nat
      BY <1>2
    <3>4. Total(f, k - 1) = Total(g, (k - 1) - 1) + f[i]
      BY <1>5, <3>1
    <3>5. /\ Total(g, k - 1) = Total(g, (k - 1) - 1) + g[k - 1]
          /\ Total(g, (k - 1) - 1) \in Nat
      BY <1>3, <3>1
    <3>6. Total(f, k) = Total(g, k - 1) + f[i]
      BY <3>2, <3>3, <3>4, <3>5
    <3> QED
      BY <2>3, <3>6
  <2> QED
    BY <2>1, <2>2, <2>3
<1> HIDE DEF T
<1>6. 0..n \subseteq T
  BY <1>4, <1>5, EachTurn
<1>7. n \in T /\ ~(n < i)
  BY <1>6
<1> QED
  BY <1>1, <1>7 DEF T

LEMMA TotalChanged ==
  ASSUME NEW f, NEW g, NEW n \in Nat, NEW i \in 1..n, Numbers(f, n), g[i] \in Nat,
         \A k \in 1..n : k # i => g[k] = f[k]
  PROVE  Total(f, n) + g[i] = Total(g, n) + f[i]
<1> DEFINE h == [k \in 1..n - 1 |-> IF k < i THEN f[k] ELSE f[k + 1]]
<1>1. Without(h, f, n, i)
  BY DEF Without
<1>2. Without(h, g, n, i)
  <2> SUFFICES ASSUME NEW k \in 1..n - 1 PROVE h[k] = IF k < i THEN g[k] ELSE g[k + 1]
    BY DEF Without
  <2>1. k \in 1..n /\ k + 1 \in 1..n /\ (k < i => k # i) /\ (~(k < i) => k + 1 # i)
    OBVIOUS
  <2> QED
    BY <2>1
<1>3. Numbers(g, n)
  BY DEF Numbers
<1> HIDE DEF h
<1>4. Total(f, n) = Total(h, n - 1) + f[i] /\ Numbers(h, n - 1)
  BY <1>1, TotalWithout
<1>5. Total(g, n) = Total(h, n - 1) + g[i]
  BY <1>2, <1>3, TotalWithout
<1>6. Total(h, n - 1) \in Nat /\ f[i] \in Nat
  <2>1. n - 1 \in Nat
    OBVIOUS
  <2> QED
    BY <1>4, <2>1, TotalTurns DEF Numbers
<1> QED
  BY <1>4, <1>5, <1>6

(* f goes on with e *)
Joined(g, f, a, e, b) == /\ \A k \in 1..a : g[k] = f[k]
                         /\ \A k \in 1..b : g[a + k] = e[k]

LEMMA TotalJoined ==
  ASSUME NEW a \in Nat, NEW b \in Nat, NEW f, NEW e, NEW g, Numbers(f, a), Numbers(e, b),
         Joined(g, f, a, e, b)
  PROVE  Total(g, a + b) = Total(f, a) + Total(e, b) /\ Numbers(g, a + b)
<1>0. (\A k \in 1..a : g[k] = f[k]) /\ (\A k \in 1..b : g[a + k] = e[k])
  BY DEF Joined
<1>1. Numbers(g, a + b)
  <2> SUFFICES ASSUME NEW k \in 1..a + b PROVE g[k] \in Nat
    BY DEF Numbers
  <2>1. CASE k \in 1..a
    BY <1>0, <2>1 DEF Numbers
  <2>2. CASE k > a
    <3>1. k - a \in 1..b /\ a + (k - a) = k
      BY <2>2
    <3> QED
      BY <1>0, <3>1 DEF Numbers
  <2> QED
    BY <2>1, <2>2
<1>2. \A k \in 1..a + b : /\ g[k] \in Nat /\ Total(g, k - 1) \in Nat
                          /\ Total(g, k) = Total(g, k - 1) + g[k]
  BY <1>1, TotalTurns
<1>3. /\ Total(e, 0) = 0
      /\ \A k \in 1..b : /\ e[k] \in Nat /\ Total(e, k - 1) \in Nat
                         /\ Total(e, k) = Total(e, k - 1) + e[k]
  BY TotalTurns
<1>4. Total(f, a) \in Nat
  BY TotalTurns
<1>5. Total(f, a) = Total(g, a)
  <2>1. \A k \in 1..a : f[k] \in Nat /\ f[k] = g[k]
    BY <1>0 DEF Numbers
  <2> QED
    BY <2>1, TotalEqual
<1> DEFINE T == {k \in 0..b : Total(g, a + k) = Total(f, a) + Total(e, k)}
<1>6. 0 \in T
  <2>1. a + 0 = a
    OBVIOUS
  <2> QED
    BY <1>3, <1>4, <1>5, <2>1
<1>7. ASSUME NEW k \in 1..b, k - 1 \in T
      PROVE  k \in T
  <2>1. a + k \in 1..a + b /\ (a + k) - 1 = a + (k - 1)
    OBVIOUS
  <2>2. Total(g, a + k) = Total(g, a + (k - 1)) + g[a + k]
    BY <1>2, <2>1
  <2>3. Total(g, a + (k - 1)) = Total(f, a) + Total(e, k - 1)
    BY <1>7
  <2>4. /\ g[a + k] = e[k] /\ e[k] \in Nat /\ Total(e, k - 1) \in Nat
        /\ Total(e, k) = Total(e, k - 1) + e[k]
    BY <1>0, <1>3
  <2>5. Total(g, a + k) = Total(f, a) + Total(e, k)
    BY <1>4, <2>2, <2>3, <2>4
  <2> QED
    BY <2>5
<1> HIDE DEF T
<1>8. 0..b \subseteq T
  BY <1>6, <1>7, EachTurn
<1>9. b \in T
  BY <1>8
<1> QED
  BY <1>1, <1>9 DEF T

-----------------------------------------------------------------------------
(* Arithmetic modulo P *)

LEMMA Remainders ==
  ASSUME InputsFit
  PROVE  /\ P \in Nat /\ P > 1 /\ 0 \in Coefs /\ 1 \in Coefs
         /\ \A a \in Nat : a % P \in Coefs /\ a % P \in Nat
         /\ \A a \in Coefs : a % P = a /\ a \in Nat
<1>1. P \in Nat /\ P > 1
  BY DEF InputsFit
<1>2. \A a \in Nat : a % P \in 0..P - 1
  BY <1>1
<1>3. \A a \in 0..P - 1 : a % P = a
  BY <1>1
<1> QED
  BY <1>1, <1>2, <1>3 DEF Coefs

LEMMA RemainderIs ==
  ASSUME NEW n \in Nat, n > 0, NEW j \in Int, NEW r \in 0..n - 1
  PROVE  (j * n + r) % n = r
<1> DEFINE x == j * n + r
           q == x \div n
           s == x % n
<1>1. q \in Int /\ s \in 0..n - 1 /\ x = q * n + s
  OBVIOUS
<1>2. (j - q) * n = s - r
  BY <1>1
<1>3. j - q >= 1 => (j - q) * n >= n
  BY <1>1
<1>4. j - q <= -1 => (j - q) * n <= -n
  BY <1>1
<1>5. j - q = 0
  BY <1>1, <1>2, <1>3, <1>4
<1> QED
  BY <1>1, <1>2, <1>5

(* Coefficients other than 0 are invertible, as P is prime: of all the products
   with a, the least that is not 0 divides P. *)
LEMMA InverseExists ==
  ASSUME InputsFit, NEW a \in Coefs, a # 0
  PROVE  \E c \in 1 .. P - 1 : (c * a) % P = 1
<1> DEFINE M == P
           T == {x \in 1..(M - 1) : \E b \in Coefs : (a * b) % M = x}
           g == Min(T)
<1>1. M \in Nat /\ M > 1 /\ a \in 1..(M - 1)
  BY Remainders DEF Coefs
<1>2. g \in T /\ \A x \in T : g <= x
  <2>1. (a * 1) % M = a
    BY <1>1, Remainders
  <2>2. a \in T
    BY <1>1, <2>1, Remainders
  <2>3. T \subseteq Nat
    BY <1>1
  <2> HIDE DEF T
  <2> QED
    BY <2>2, <2>3, MinIs
<1>3. PICK b \in Coefs : (a * b) % M = g
  BY <1>2
<1> DEFINE q == M \div g
           r == M % g
           s == (a * b) \div M
<1>4. g \in 1..(M - 1) /\ b \in Nat
  BY <1>1, <1>2, <1>3 DEF Coefs
<1>5. q \in Nat /\ r \in 0..(g - 1) /\ M = q * g + r
  <2>1. M \in Nat /\ g \in Nat /\ g > 0
    BY <1>1, <1>4
  <2> HIDE DEF M, g
  <2> QED
    BY <2>1
<1>6. s \in Int /\ a * b = s * M + g
  BY <1>1, <1>3, <1>4
<1>7. r = 0
  <2> SUFFICES ASSUME r # 0
               PROVE  FALSE
    OBVIOUS
  <2> DEFINE c == (-(q * b)) % M
             j == (-(q * b)) \div M
  <2>1. c \in Coefs /\ c \in Int /\ j \in Int /\ -(q * b) = j * M + c
    BY <1>1, <1>4, <1>5 DEF Coefs
  <2>2. a * c = (-(1 + q * s + a * j)) * M + r
    <3> HIDE DEF M, q, r, s, c, j, g
    <3>1. a * c = a * (-(q * b) - j * M)
      BY <1>1, <1>4, <1>5, <2>1
    <3>2. a * c = -(q * (a * b)) - (a * j) * M
      BY <1>1, <1>4, <1>5, <2>1, <3>1
    <3>3. q * (a * b) = (q * s) * M + q * g
      BY <1>1, <1>4, <1>5, <1>6
    <3>4. q * g = M - r
      BY <1>1, <1>4, <1>5
    <3> QED
      BY <1>1, <1>4, <1>5, <1>6, <2>1, <3>2, <3>3, <3>4
  <2>3. (a * c) % M = r
    <3>1. (-(1 + q * s + a * j)) \in Int /\ r \in 0..(M - 1)
      BY <1>1, <1>4, <1>5, <1>6, <2>1
    <3> HIDE DEF M, q, r, s, c, j, g
    <3>2. PICK m : m = -(1 + q * s + a * j)
      OBVIOUS
    <3>3. M > 0 /\ m \in Int /\ a * c = m * M + r
      BY <1>1, <2>2, <3>1, <3>2
    <3>4. (m * M + r) % M = r
      BY <1>1, <3>1, <3>3, RemainderIs
    <3> QED
      BY <3>3, <3>4
  <2>4. r \in T /\ r < g
    <3>1. r \in 1..(M - 1) /\ r < g
      BY <1>1, <1>4, <1>5
    <3> HIDE DEF M, q, r, s, c, j, g
    <3> QED
      BY <2>1, <2>3, <3>1
  <2> HIDE DEF T
  <2> QED
    BY <1>2, <1>4, <1>5, <2>4
<1>8. g = 1
  <2> HIDE DEF g
  <2>1. g \in 2..(M - 1) => M % g # 0
    BY DEF InputsFit
  <2> QED
    BY <1>1, <1>4, <1>7, <2>1
<1>9. b \in 1..(P - 1)
  <2>1. b # 0
    <3> SUFFICES ASSUME b = 0 PROVE FALSE
      OBVIOUS
    <3>1. (a * 0) % P = 0
      BY <1>1
    <3> QED
      BY <1>3, <1>8, <3>1
  <2> QED
    BY <1>1, <2>1 DEF Coefs
<1>10. b * a = a * b
  <2>1. a \in Nat /\ b \in Nat
    <3>1. a \in Nat
      BY <1>1
    <3>2. b \in Nat
      BY <1>4
    <3> QED
      BY <3>1, <3>2
  <2> QED
    BY <2>1
<1> QED
  BY <1>3, <1>8, <1>9, <1>10

(* A part of a sum may be taken modulo P. *)
LEMMA SumModulo ==
  ASSUME InputsFit, NEW x \in Nat, NEW y \in Nat
  PROVE  ((x % P) + y) % P = (x + y) % P /\ (x + (y % P)) % P = (x + y) % P
<1>1. P \in Nat /\ P > 0
  BY Remainders
<1>2. ASSUME NEW u \in Nat, NEW v \in Nat
      PROVE  ((u % P) + v) % P = (u + v) % P
  <2> DEFINE i == u \div P
             r == u % P
             j == (r + v) \div P
             s == (r + v) % P
  <2>1. i \in Int /\ r \in 0..P - 1 /\ u = i * P + r
    BY <1>1
  <2>2. r + v \in Nat
    BY <2>1
  <2> HIDE DEF r
  <2>3. j \in Int /\ s \in 0..P - 1 /\ r + v = j * P + s
    BY <1>1, <2>2
  <2> HIDE DEF i, j, s
  <2>4. u + v = (i + j) * P + s /\ i + j \in Int
    BY <1>1, <2>1, <2>3
  <2>5. \A k \in Int : (k * P + s) % P = s
    BY <1>1, <2>3, RemainderIs
  <2>6. (u + v) % P = s
    BY <2>4, <2>5
  <2> QED
    BY <2>6 DEF r, s
<1>3. ((x % P) + y) % P = (x + y) % P
  BY <1>2
<1>4. ((y % P) + x) % P = (y + x) % P
  BY <1>2
<1>5. y % P \in Nat
  BY Remainders
<1>6. x + (y % P) = (y % P) + x /\ x + y = y + x
  BY <1>5
<1> QED
  BY <1>3, <1>4, <1>6

(* Numbers that are the same modulo P *)
Same(x, y) == x % P = y % P

LEMMA SameSum ==
  ASSUME InputsFit, NEW x \in Nat, NEW y \in Nat, NEW u \in Nat, NEW v \in Nat,
         Same(x, y), Same(u, v)
  PROVE  Same(x + u, y + v)
<1>1. x % P \in Nat /\ y % P \in Nat /\ u % P \in Nat /\ v % P \in Nat
  BY Remainders
<1>2. (x + u) % P = ((x % P) + u) % P /\ ((x % P) + u) % P = ((x % P) + (u % P)) % P
  BY <1>1, SumModulo
<1>3. (y + v) % P = ((y % P) + v) % P /\ ((y % P) + v) % P = ((y % P) + (v % P)) % P
  BY <1>1, SumModulo
<1> QED
  BY <1>2, <1>3 DEF Same

LEMMA SameModulo ==
  ASSUME InputsFit, NEW x \in Nat
  PROVE  Same(x % P, x) /\ Same(x, x % P)
<1>1. x % P \in Coefs
  BY Remainders
<1>2. (x % P) % P = x % P
  BY <1>1, Remainders
<1> QED
  BY <1>2 DEF Same

LEMMA SamePlusP ==
  ASSUME InputsFit, NEW x \in Nat
  PROVE  Same(x + P, x) /\ Same(P, 0)
<1>1. P \in Nat /\ P > 0
  BY Remainders
<1>2. P % P = 0 /\ 0 % P = 0
  BY <1>1
<1>3. (x + (P % P)) % P = (x + P) % P
  BY <1>1, SumModulo
<1>4. x + 0 = x
  OBVIOUS
<1> QED
  BY <1>2, <1>3, <1>4 DEF Same

-----------------------------------------------------------------------------
(* Terms in descending order *)

Terms == [mono : Monos, coef : Coefs]
TermSpans == {terms \in Seq(Terms) : Descending(terms)}

LEMMA TermIs ==
  ASSUME InputsFit, NEW t \in Terms
  PROVE  /\ t.mono \in Monos /\ t.mono \in Nat /\ t.mono <= Degree
         /\ t.coef \in Coefs /\ t.coef \in Nat
         /\ t = Term(t.mono, t.coef)
<1>1. t.mono \in 0..Degree /\ t.coef \in 0..P - 1 /\ t = [mono |-> t.mono, coef |-> t.coef]
  BY DEF Terms, Monos, Coefs
<1>2. Degree \in Nat /\ P \in Nat
  BY DEF InputsFit
<1> QED
  BY <1>1, <1>2 DEF Monos, Coefs, Term

LEMMA TermsAre ==
  ASSUME InputsFit, NEW terms \in TermSpans
  PROVE  /\ terms \in Seq(Terms) /\ Len(terms) \in Nat /\ DOMAIN terms = 1..Len(terms)
         /\ \A k \in 1..Len(terms) :
              /\ terms[k] \in Terms
              /\ terms[k].mono \in Monos /\ terms[k].mono \in Nat /\ terms[k].mono <= Degree
              /\ terms[k].coef \in Coefs /\ terms[k].coef \in Nat
         /\ \A i, j \in 1..Len(terms) :
              /\ i < j => terms[j].mono < terms[i].mono
              /\ terms[i].mono = terms[j].mono => i = j
<1>1. terms \in Seq(Terms) /\ Descending(terms)
  BY DEF TermSpans
<1>2. Len(terms) \in Nat /\ DOMAIN terms = 1..Len(terms) /\ \A k \in 1..Len(terms) : terms[k] \in Terms
  BY <1>1
<1>3. \A k \in 1..Len(terms) : /\ terms[k].mono \in Monos /\ terms[k].mono \in Nat
                               /\ terms[k].mono <= Degree
                               /\ terms[k].coef \in Coefs /\ terms[k].coef \in Nat
  BY <1>2, TermIs
<1>4. \A i, j \in 1..Len(terms) : i < j => terms[j].mono < terms[i].mono
  <2> SUFFICES ASSUME NEW i \in 1..Len(terms), NEW j \in 1..Len(terms), i < j
               PROVE  terms[j].mono < terms[i].mono
    OBVIOUS
  <2>1. terms[i].mono > terms[j].mono /\ terms[i].mono \in Nat /\ terms[j].mono \in Nat
    BY <1>1, <1>2, <1>3 DEF Descending
  <2> QED
    BY <2>1
<1>5. \A i, j \in 1..Len(terms) : terms[i].mono = terms[j].mono => i = j
  <2> SUFFICES ASSUME NEW i \in 1..Len(terms), NEW j \in 1..Len(terms), i < j \/ j < i
               PROVE  terms[i].mono # terms[j].mono
    BY <1>2
  <2>1. terms[i].mono \in Nat /\ terms[j].mono \in Nat
    BY <1>3
  <2>2. terms[i].mono < terms[j].mono \/ terms[j].mono < terms[i].mono
    BY <1>4
  <2> QED
    BY <2>1, <2>2
<1> QED
  BY <1>1, <1>2, <1>3, <1>4, <1>5

LEMMA CoefficientAt ==
  ASSUME InputsFit, NEW terms \in TermSpans, NEW k \in 1..Len(terms), NEW m, terms[k].mono = m
  PROVE  Coefficient(terms, m) = terms[k].coef
<1> DEFINE at == {i \in DOMAIN terms : terms[i].mono = m}
<1>1. at = {k}
  BY TermsAre
<1>2. (CHOOSE i \in at : TRUE) = k
  BY <1>1
<1>3. Coefficient(terms, m) = IF at = {} THEN 0 ELSE terms[CHOOSE i \in at : TRUE].coef
  BY DEF Coefficient
<1> QED
  BY <1>1, <1>2, <1>3

LEMMA CoefficientNone ==
  ASSUME NEW terms, NEW m, \A k \in DOMAIN terms : terms[k].mono # m
  PROVE  Coefficient(terms, m) = 0
BY DEF Coefficient

LEMMA CoefficientOfNothing == ASSUME NEW m PROVE Coefficient(<<>>, m) = 0
BY CoefficientNone

LEMMA CoefficientType ==
  ASSUME InputsFit, NEW terms \in TermSpans, NEW m
  PROVE  Coefficient(terms, m) \in Coefs /\ Coefficient(terms, m) \in Nat
<1>1. CASE \E k \in 1..Len(terms) : terms[k].mono = m
  <2>1. PICK k \in 1..Len(terms) : terms[k].mono = m
    BY <1>1
  <2>2. Coefficient(terms, m) = terms[k].coef
    BY <2>1, CoefficientAt
  <2> QED
    BY <2>2, TermsAre
<1>2. CASE \A k \in 1..Len(terms) : terms[k].mono # m
  <2>1. Coefficient(terms, m) = 0
    BY <1>2, TermsAre, CoefficientNone
  <2> QED
    BY <2>1, Remainders
<1> QED
  BY <1>1, <1>2

(* A polynomial begins with a term and goes on with smaller ones. *)
LEMMA TailIs ==
  ASSUME InputsFit, NEW terms \in TermSpans, terms # <<>>
  PROVE  /\ 1 \in 1..Len(terms) /\ Head(terms) = terms[1]
         /\ Tail(terms) \in TermSpans /\ Len(Tail(terms)) = Len(terms) - 1
         /\ \A k \in 1..Len(Tail(terms)) :
              Tail(terms)[k] = terms[k + 1] /\ Tail(terms)[k].mono < terms[1].mono
         /\ \A m \in Monos :
              /\ m # terms[1].mono => Coefficient(terms, m) = Coefficient(Tail(terms), m)
              /\ m >= terms[1].mono => Coefficient(Tail(terms), m) = 0
              /\ m = terms[1].mono => Coefficient(terms, m) = terms[1].coef
              /\ m > terms[1].mono => Coefficient(terms, m) = 0
<1>1. 1 \in 1..Len(terms) /\ Head(terms) = terms[1] /\ Len(terms) \in Nat
  BY TermsAre
<1>2. /\ Tail(terms) \in Seq(Terms) /\ Len(Tail(terms)) = Len(terms) - 1
      /\ \A k \in 1..Len(Tail(terms)) : k + 1 \in 1..Len(terms) /\ Tail(terms)[k] = terms[k + 1]
  BY <1>1, TermsAre
<1>3. DOMAIN Tail(terms) = 1..Len(Tail(terms))
  BY <1>2
<1> DEFINE tail == Tail(terms)
<1>4. \A i, j \in 1..Len(tail) : i < j => tail[j].mono < tail[i].mono
  <2> SUFFICES ASSUME NEW i \in 1..Len(tail), NEW j \in 1..Len(tail), i < j
               PROVE  tail[j].mono < tail[i].mono
    OBVIOUS
  <2>1. i + 1 < j + 1 /\ i + 1 \in 1..Len(terms) /\ j + 1 \in 1..Len(terms)
    BY <1>2
  <2> QED
    BY <1>2, <2>1, TermsAre
<1>5. tail \in TermSpans
  <2> SUFFICES ASSUME NEW i \in 1..Len(tail), NEW j \in 1..Len(tail), i < j
               PROVE  tail[i].mono > tail[j].mono
    BY <1>2, <1>3 DEF TermSpans, Descending
  <2>1. tail[i].mono \in Nat /\ tail[j].mono \in Nat
    <3>1. tail[i] \in Terms /\ tail[j] \in Terms
      BY <1>2
    <3> QED
      BY <3>1, TermIs
  <2> QED
    BY <1>4, <2>1
<1>6. \A k \in 1..Len(tail) : tail[k].mono < terms[1].mono
  <2> SUFFICES ASSUME NEW k \in 1..Len(tail) PROVE tail[k].mono < terms[1].mono
    OBVIOUS
  <2>1. k + 1 \in 1..Len(terms) /\ 1 < k + 1 /\ tail[k] = terms[k + 1]
    BY <1>2
  <2> QED
    BY <1>1, <2>1, TermsAre
<1>7. terms[1].mono \in Nat /\ \A k \in 1..Len(tail) : tail[k].mono \in Nat
  BY <1>1, <1>2, TermsAre
<1>8. Degree \in Nat
  BY DEF InputsFit
<1> HIDE DEF tail
<1>9. ASSUME NEW m \in Monos, m >= terms[1].mono
      PROVE  Coefficient(tail, m) = 0
  <2>1. m \in Nat
    BY <1>8 DEF Monos
  <2>2. \A k \in 1..Len(tail) : tail[k].mono # m
    BY <1>6, <1>7, <1>9, <2>1
  <2> QED
    BY <1>3, <2>2, CoefficientNone DEF tail
<1>10. ASSUME NEW m \in Monos, m # terms[1].mono
       PROVE  Coefficient(terms, m) = Coefficient(tail, m)
  <2>1. CASE \E k \in 1..Len(tail) : tail[k].mono = m
    <3>1. PICK k \in 1..Len(tail) : tail[k].mono = m
      BY <2>1
    <3>2. k + 1 \in 1..Len(terms) /\ tail[k] = terms[k + 1]
      BY <1>2 DEF tail
    <3>3. Coefficient(tail, m) = tail[k].coef
      BY <1>5, <3>1, CoefficientAt
    <3>4. Coefficient(terms, m) = terms[k + 1].coef
      BY <3>1, <3>2, CoefficientAt
    <3> QED
      BY <3>2, <3>3, <3>4
  <2>2. CASE \A k \in 1..Len(tail) : tail[k].mono # m
    <3>1. Coefficient(tail, m) = 0
      BY <1>3, <2>2, CoefficientNone DEF tail
    <3>2. ASSUME NEW k \in 1..Len(terms)
          PROVE  terms[k].mono # m
      <4>1. CASE k = 1
        BY <1>10, <4>1
      <4>2. CASE k # 1
        <5>1. k - 1 \in 1..Len(tail) /\ (k - 1) + 1 = k
          BY <1>1, <1>2, <4>2 DEF tail
        <5> QED
          BY <1>2, <2>2, <5>1 DEF tail
      <4> QED
        BY <4>1, <4>2
    <3> QED
      BY <3>1, <3>2, TermsAre, CoefficientNone
  <2> QED
    BY <2>1, <2>2
<1>11. ASSUME NEW m \in Monos, m > terms[1].mono
       PROVE  Coefficient(terms, m) = 0
  <2>1. m \in Nat
    BY <1>8 DEF Monos
  <2>2. m >= terms[1].mono /\ m # terms[1].mono
    BY <1>7, <1>11, <2>1
  <2> QED
    BY <1>9, <1>10, <2>2
<1>12. ASSUME NEW m \in Monos, m = terms[1].mono
       PROVE  Coefficient(terms, m) = terms[1].coef
  BY <1>1, <1>12, CoefficientAt
<1> QED
  BY <1>1, <1>2, <1>5, <1>6, <1>9, <1>10, <1>11, <1>12 DEF tail

(* A polynomial in two parts *)
LEMMA PartsAre ==
  ASSUME InputsFit, NEW terms \in TermSpans, NEW n \in 0..Len(terms)
  PROVE  /\ SubSeq(terms, 1, n) \in TermSpans /\ SubSeq(terms, n + 1, Len(terms)) \in TermSpans
         /\ Len(SubSeq(terms, 1, n)) = n
         /\ Len(SubSeq(terms, n + 1, Len(terms))) = Len(terms) - n
         /\ \A k \in 1..n : SubSeq(terms, 1, n)[k] = terms[k]
         /\ \A k \in 1..Len(terms) - n : SubSeq(terms, n + 1, Len(terms))[k] = terms[n + k]
         /\ \A m \in Monos :
              Coefficient(terms, m) = Coefficient(SubSeq(terms, 1, n), m)
                                        + Coefficient(SubSeq(terms, n + 1, Len(terms)), m)
<1>1. /\ terms \in Seq(Terms) /\ Len(terms) \in Nat /\ n \in Nat /\ n <= Len(terms)
      /\ \A k \in 1..Len(terms) : terms[k] \in Terms
  BY TermsAre
<1> DEFINE a == SubSeq(terms, 1, n)
           b == SubSeq(terms, n + 1, Len(terms))
           l == Len(terms) - n
<1>2. a \in Seq(Terms) /\ Len(a) = n /\ DOMAIN a = 1..n /\ \A k \in 1..n : a[k] = terms[k]
  BY <1>1
<1>3. b \in Seq(Terms) /\ Len(b) = l /\ DOMAIN b = 1..l /\ \A k \in 1..l : b[k] = terms[n + k]
  BY <1>1
<1> HIDE DEF a, b
<1>4. \A k \in 1..n : k \in 1..Len(terms)
  BY <1>1
<1>5. l \in Nat /\ \A k \in 1..l : n + k \in 1..Len(terms) /\ n + k \in Nat /\ n + k > n
  BY <1>1
<1> HIDE DEF l
<1>6. a \in TermSpans
  <2> SUFFICES ASSUME NEW i \in 1..n, NEW j \in 1..n, i < j
               PROVE  a[i].mono > a[j].mono
    BY <1>2 DEF TermSpans, Descending
  <2>1. terms[j].mono < terms[i].mono /\ terms[i].mono \in Nat /\ terms[j].mono \in Nat
    BY <1>4, TermsAre
  <2> QED
    BY <1>2, <2>1
<1>7. b \in TermSpans
  <2> SUFFICES ASSUME NEW i \in 1..l, NEW j \in 1..l, i < j
               PROVE  b[i].mono > b[j].mono
    BY <1>3 DEF TermSpans, Descending
  <2>1. n + i < n + j
    BY <1>1, <1>5
  <2>2. /\ terms[n + j].mono < terms[n + i].mono
        /\ terms[n + i].mono \in Nat /\ terms[n + j].mono \in Nat
    BY <1>5, <2>1, TermsAre
  <2> QED
    BY <1>3, <2>2
<1>8. ASSUME NEW m \in Monos
      PROVE  Coefficient(terms, m) = Coefficient(a, m) + Coefficient(b, m)
  <2>1. CASE \E k \in 1..n : terms[k].mono = m
    <3>1. PICK k \in 1..n : terms[k].mono = m
      BY <2>1
    <3>2. Coefficient(terms, m) = terms[k].coef /\ terms[k].coef \in Nat
      BY <1>4, <3>1, CoefficientAt, TermsAre
    <3>3. k \in 1..Len(a) /\ a[k].mono = m
      BY <1>2, <3>1
    <3>4. Coefficient(a, m) = terms[k].coef
      BY <1>2, <1>6, <3>3, CoefficientAt
    <3>5. ASSUME NEW j \in DOMAIN b PROVE b[j].mono # m
      <4>1. n + j \in 1..Len(terms) /\ n + j # k /\ b[j] = terms[n + j]
        BY SMTT(20), <1>3, <1>5
      <4> QED
        BY <1>4, <3>1, <4>1, TermsAre
    <3>6. Coefficient(b, m) = 0
      BY <3>5, CoefficientNone
    <3> QED
      BY <3>2, <3>4, <3>6
  <2>2. CASE \A k \in 1..n : terms[k].mono # m
    <3>1. Coefficient(a, m) = 0
      BY <1>2, <2>2, CoefficientNone
    <3>2. Coefficient(b, m) \in Nat
      BY <1>7, CoefficientType
    <3>3. Coefficient(terms, m) = Coefficient(b, m)
      <4>1. CASE \E k \in 1..l : terms[n + k].mono = m
        <5>1. PICK k \in 1..l : terms[n + k].mono = m
          BY <4>1
        <5>2. n + k \in 1..Len(terms) /\ k \in 1..Len(b) /\ b[k] = terms[n + k] /\ b[k].mono = m
          BY <1>3, <1>5, <5>1
        <5>3. Coefficient(terms, m) = terms[n + k].coef
          BY <5>1, <5>2, CoefficientAt
        <5>4. Coefficient(b, m) = b[k].coef
          BY <1>7, <5>2, CoefficientAt
        <5> QED
          BY <5>2, <5>3, <5>4
      <4>2. CASE \A k \in 1..l : terms[n + k].mono # m
        <5>1. ASSUME NEW k \in 1..Len(terms)
              PROVE  terms[k].mono # m
          <6>1. CASE k \in 1..n
            BY <2>2, <6>1
          <6>2. CASE k \notin 1..n
            <7>1. k - n \in 1..l /\ n + (k - n) = k
              BY <1>1, <6>2 DEF l
            <7> QED
              BY <4>2, <7>1
          <6> QED
            BY <6>1, <6>2
        <5>2. Coefficient(terms, m) = 0
          BY <5>1, TermsAre, CoefficientNone
        <5>3. Coefficient(b, m) = 0
          BY <1>3, <4>2, CoefficientNone
        <5> QED
          BY <5>2, <5>3
      <4> QED
        BY <4>1, <4>2
    <3> QED
      BY <3>1, <3>2, <3>3
  <2> QED
    BY <2>1, <2>2
<1> QED
  BY <1>2, <1>3, <1>6, <1>7, <1>8 DEF a, b, l

LEMMA SingleIs ==
  ASSUME InputsFit, NEW t \in Terms
  PROVE  /\ <<t>> \in TermSpans /\ Len(<<t>>) = 1 /\ <<t>>[1] = t /\ Tail(<<t>>) = <<>>
         /\ \A m : Coefficient(<<t>>, m) = IF m = t.mono THEN t.coef ELSE 0
<1>1. <<t>> \in Seq(Terms) /\ Len(<<t>>) = 1 /\ <<t>>[1] = t /\ DOMAIN <<t>> = 1..1 /\ Tail(<<t>>) = <<>>
  OBVIOUS
<1>2. <<t>> \in TermSpans
  <2>1. \A i, j \in 1..1 : ~(i < j)
    OBVIOUS
  <2> QED
    BY <1>1, <2>1 DEF TermSpans, Descending
<1>3. ASSUME NEW m
      PROVE  Coefficient(<<t>>, m) = IF m = t.mono THEN t.coef ELSE 0
  <2>1. CASE m = t.mono
    <3>1. 1 \in 1..Len(<<t>>)
      BY <1>1
    <3> QED
      BY <1>1, <1>2, <2>1, <3>1, CoefficientAt
  <2>2. CASE m # t.mono
    <3>1. \A k \in DOMAIN <<t>> : <<t>>[k].mono # m
      BY <1>1, <2>2
    <3> QED
      BY <2>2, <3>1, CoefficientNone
  <2> QED
    BY <2>1, <2>2
<1> QED
  BY <1>1, <1>2, <1>3

LEMMA MultipleIs ==
  ASSUME InputsFit, NEW terms \in TermSpans, NEW c \in Nat, NEW u \in Nat,
         \A k \in 1..Len(terms) : terms[k].mono + u <= Degree
  PROVE  /\ Multiple(c, u, terms) \in TermSpans
         /\ Len(Multiple(c, u, terms)) = Len(terms)
         /\ \A k \in 1..Len(terms) :
              Multiple(c, u, terms)[k] = Term(terms[k].mono + u, (terms[k].coef * c) % P)
         /\ \A m \in Monos :
              Coefficient(Multiple(c, u, terms), m)
                = IF m >= u THEN (c * Coefficient(terms, m - u)) % P ELSE 0
<1>1. terms \in Seq(Terms) /\ Len(terms) \in Nat /\ DOMAIN terms = 1..Len(terms)
  BY TermsAre
<1> DEFINE b == Multiple(c, u, terms)
           l == Len(terms)
<1>2. /\ b = [k \in 1..l |-> Term(terms[k].mono + u, (terms[k].coef * c) % P)]
      /\ l \in Nat
  BY <1>1 DEF Multiple
<1>3. \A k \in 1..l : /\ Term(terms[k].mono + u, (terms[k].coef * c) % P) \in Terms
                      /\ terms[k].mono \in Nat
                      /\ (terms[k].coef * c) % P \in Coefs
  <2> SUFFICES ASSUME NEW k \in 1..l
               PROVE  /\ Term(terms[k].mono + u, (terms[k].coef * c) % P) \in Terms
                      /\ terms[k].mono \in Nat
                      /\ (terms[k].coef * c) % P \in Coefs
    OBVIOUS
  <2>1. terms[k].mono \in Nat /\ terms[k].coef \in Nat /\ terms[k].mono + u <= Degree
    BY TermsAre
  <2>2. terms[k].mono + u \in Monos
    BY <2>1 DEF Monos, InputsFit
  <2>3. terms[k].coef * c \in Nat
    BY <2>1
  <2>4. (terms[k].coef * c) % P \in Coefs
    BY <2>3, Remainders
  <2> QED
    BY <2>1, <2>2, <2>4 DEF Term, Terms
<1> HIDE DEF b
<1>4. /\ b \in Seq(Terms) /\ Len(b) = l /\ DOMAIN b = 1..l
      /\ \A k \in 1..l : /\ b[k] = Term(terms[k].mono + u, (terms[k].coef * c) % P)
                         /\ b[k].mono = terms[k].mono + u
                         /\ b[k].coef = (terms[k].coef * c) % P
  <2>1. b \in [1..l -> Terms]
    BY <1>2, <1>3
  <2> HIDE DEF l
  <2>2. b \in Seq(Terms) /\ Len(b) = l /\ DOMAIN b = 1..l
    BY <1>2, <2>1
  <2>3. \A k \in 1..l : b[k] = Term(terms[k].mono + u, (terms[k].coef * c) % P)
    BY <1>2
  <2> QED
    BY <2>2, <2>3 DEF Term
<1>5. b \in TermSpans
  <2> SUFFICES ASSUME NEW i \in 1..l, NEW j \in 1..l, i < j
               PROVE  b[i].mono > b[j].mono
    BY <1>4 DEF TermSpans, Descending
  <2>1. terms[j].mono < terms[i].mono /\ terms[i].mono \in Nat /\ terms[j].mono \in Nat
    BY TermsAre
  <2>2. b[i].mono = terms[i].mono + u /\ b[j].mono = terms[j].mono + u
    BY <1>4
  <2> QED
    BY <2>1, <2>2
<1>6. ASSUME NEW m \in Monos
      PROVE  Coefficient(b, m) = IF m >= u THEN (c * Coefficient(terms, m - u)) % P ELSE 0
  <2>1. m \in Nat
    BY DEF Monos, InputsFit
  <2>2. CASE \E k \in 1..l : terms[k].mono + u = m
    <3>1. PICK k \in 1..l : terms[k].mono + u = m
      BY <2>2
    <3>2. m >= u /\ terms[k].mono = m - u /\ terms[k].coef \in Nat
      <4>1. terms[k].mono \in Nat /\ terms[k].coef \in Nat
        BY TermsAre
      <4> QED
        BY <2>1, <3>1, <4>1
    <3>3. Coefficient(terms, m - u) = terms[k].coef
      BY <3>2, CoefficientAt
    <3>4. k \in 1..Len(b) /\ b[k].mono = m
      BY <1>4, <3>1
    <3>5. Coefficient(b, m) = b[k].coef
      BY <1>5, <3>4, CoefficientAt
    <3>6. c * terms[k].coef = terms[k].coef * c
      BY <3>2
    <3> QED
      BY <1>4, <3>2, <3>3, <3>5, <3>6
  <2>3. CASE \A k \in 1..l : terms[k].mono + u # m
    <3>1. Coefficient(b, m) = 0
      BY <1>4, <2>3, CoefficientNone
    <3>2. CASE m >= u
      <4>1. \A k \in DOMAIN terms : terms[k].mono # m - u
        <5> SUFFICES ASSUME NEW k \in 1..l, terms[k].mono = m - u PROVE FALSE
          BY <1>1
        <5>1. terms[k].mono + u = m
          BY <2>1
        <5> QED
          BY <2>3, <5>1
      <4>2. Coefficient(terms, m - u) = 0
        BY <4>1, CoefficientNone
      <4>3. c * 0 = 0 /\ 0 % P = 0
        BY Remainders
      <4> QED
        BY <3>1, <3>2, <4>2, <4>3
    <3> QED
      BY <3>1, <3>2
  <2> QED
    BY <2>2, <2>3
<1> QED
  BY <1>4, <1>5, <1>6 DEF b

(* A remainder with one term more *)
LEMMA AppendIs ==
  ASSUME InputsFit, NEW terms \in TermSpans, NEW t \in Terms,
         terms # <<>> => t.mono < Last(terms).mono
  PROVE  /\ Append(terms, t) \in TermSpans
         /\ Append(terms, t) # <<>> /\ Last(Append(terms, t)) = t
         /\ \A m : Coefficient(Append(terms, t), m)
                     = IF m = t.mono THEN t.coef ELSE Coefficient(terms, m)
         /\ Coefficient(terms, t.mono) = 0
<1>1. terms \in Seq(Terms) /\ Len(terms) \in Nat /\ DOMAIN terms = 1..Len(terms)
  BY TermsAre
<1> DEFINE b == Append(terms, t)
           l == Len(terms)
<1>2. /\ b \in Seq(Terms) /\ Len(b) = l + 1 /\ DOMAIN b = 1..l + 1
      /\ \A k \in 1..l : b[k] = terms[k]
      /\ b[l + 1] = t /\ b # <<>>
  <2>1. l \in Nat /\ \A k \in 1..l : terms[k] \in Terms
    BY <1>1
  <2>2. Append(terms, t) \in Seq(Terms) /\ Len(Append(terms, t)) = Len(terms) + 1
    BY <1>1
  <2>3. Append(terms, t)[Len(terms) + 1] = t /\ \A k \in 1..Len(terms) : Append(terms, t)[k] = terms[k]
    BY <1>1
  <2>4. DOMAIN b = 1..l + 1
    BY <2>2
  <2>5. b # <<>>
    BY <2>2, <2>1
  <2> QED
    BY <2>2, <2>3, <2>4, <2>5
<1>3. Last(b) = t
  BY <1>2 DEF Last
<1>4. \A k \in 1..l : /\ t.mono < terms[k].mono /\ terms[k].mono # t.mono
                      /\ t.mono \in Nat /\ terms[k].mono \in Nat
  <2> SUFFICES ASSUME NEW k \in 1..l
               PROVE  /\ t.mono < terms[k].mono
                      /\ t.mono \in Nat /\ terms[k].mono \in Nat
    OBVIOUS
  <2>1. l \in 1..l /\ terms # <<>> /\ Last(terms) = terms[l]
    BY <1>1 DEF Last
  <2>2. terms[k].mono \in Nat /\ terms[l].mono \in Nat /\ (k < l => terms[l].mono < terms[k].mono)
    BY <2>1, TermsAre
  <2>3. t.mono \in Nat
    BY TermIs
  <2> QED
    BY <1>1, <2>1, <2>2, <2>3
<1> HIDE DEF b
<1>5. b \in TermSpans
  <2> SUFFICES ASSUME NEW i \in 1..l + 1, NEW j \in 1..l + 1, i < j
               PROVE  b[i].mono > b[j].mono
    BY <1>2 DEF TermSpans, Descending
  <2>1. i \in 1..l /\ (j \in 1..l \/ j = l + 1)
    BY <1>1
  <2>2. CASE j \in 1..l
    <3>1. terms[j].mono < terms[i].mono /\ terms[i].mono \in Nat /\ terms[j].mono \in Nat
      BY <2>1, <2>2, TermsAre
    <3> QED
      BY <1>2, <2>1, <2>2, <3>1
  <2>3. CASE j = l + 1
    <3>1. b[i] = terms[i] /\ b[j] = t
      BY <1>2, <2>1, <2>3
    <3>2. t.mono < terms[i].mono /\ t.mono \in Nat /\ terms[i].mono \in Nat
      BY <1>4, <2>1
    <3> QED
      BY <3>1, <3>2
  <2> QED
    BY <2>1, <2>2, <2>3
<1>6. Coefficient(terms, t.mono) = 0
  BY <1>1, <1>4, CoefficientNone
<1>7. ASSUME NEW m
      PROVE  Coefficient(b, m) = IF m = t.mono THEN t.coef ELSE Coefficient(terms, m)
  <2>1. CASE m = t.mono
    <3>1. l + 1 \in 1..Len(b) /\ b[l + 1].mono = m /\ b[l + 1].coef = t.coef
      BY <1>1, <1>2, <2>1
    <3> QED
      BY <1>5, <2>1, <3>1, CoefficientAt
  <2>2. CASE m # t.mono /\ \E k \in 1..l : terms[k].mono = m
    <3>1. PICK k \in 1..l : terms[k].mono = m
      BY <2>2
    <3>2. Coefficient(terms, m) = terms[k].coef
      BY <3>1, CoefficientAt
    <3>3. k \in 1..Len(b) /\ b[k].mono = m /\ b[k].coef = terms[k].coef
      BY <1>1, <1>2, <3>1
    <3>4. Coefficient(b, m) = b[k].coef
      BY <1>5, <3>3, CoefficientAt
    <3> QED
      BY <2>2, <3>2, <3>3, <3>4
  <2>3. CASE m # t.mono /\ \A k \in 1..l : terms[k].mono # m
    <3>1. Coefficient(terms, m) = 0
      BY <1>1, <2>3, CoefficientNone
    <3>2. \A k \in 1..l + 1 : b[k].mono # m
      BY <1>1, <1>2, <2>3
    <3>3. Coefficient(b, m) = 0
      BY <1>2, <3>2, CoefficientNone
    <3> QED
      BY <2>3, <3>1, <3>3
  <2> QED
    BY <2>1, <2>2, <2>3
<1> QED
  BY <1>2, <1>3, <1>5, <1>6, <1>7 DEF b

-----------------------------------------------------------------------------
(* What is in a queue *)

Spans == TermSpans \ {<<>>}

(* Chained entries have the current monomial in common. *)
Chains == {c \in Seq(Spans) : c # <<>> /\ \A k \in DOMAIN c : c[k][1].mono = c[1][1].mono}

LEMMA ChainIs ==
  ASSUME InputsFit, NEW c \in Chains
  PROVE  /\ c \in Seq(Spans) /\ Len(c) \in Nat /\ DOMAIN c = 1..Len(c) /\ 1 \in 1..Len(c)
         /\ Current(c) = c[1][1] /\ Current(c) \in Terms
         /\ Current(c).mono \in Monos /\ Current(c).mono \in Nat /\ Current(c).mono <= Degree
         /\ \A k \in 1..Len(c) : /\ c[k] \in Spans /\ c[k] \in TermSpans /\ c[k] # <<>>
                                 /\ c[k][1].mono = Current(c).mono
                                 /\ c[k][1] \in Terms /\ c[k][1].coef \in Nat
<1>1. c \in Seq(Spans) /\ c # <<>> /\ \A k \in DOMAIN c : c[k][1].mono = c[1][1].mono
  BY DEF Chains
<1>2. Len(c) \in Nat /\ DOMAIN c = 1..Len(c) /\ 1 \in 1..Len(c) /\ \A k \in 1..Len(c) : c[k] \in Spans
  BY <1>1
<1>3. Current(c) = c[1][1]
  BY DEF Current, Span
<1>4. ASSUME NEW k \in 1..Len(c)
      PROVE  /\ c[k] \in Spans /\ c[k] \in TermSpans /\ c[k] # <<>>
             /\ c[k][1] \in Terms /\ c[k][1].coef \in Nat /\ c[k][1].mono \in Monos
             /\ c[k][1].mono \in Nat /\ c[k][1].mono <= Degree
  <2>1. c[k] \in Spans /\ c[k] \in TermSpans /\ c[k] # <<>>
    BY <1>2 DEF Spans
  <2>2. 1 \in 1..Len(c[k])
    BY <2>1, TailIs
  <2> QED
    BY <2>1, <2>2, TermsAre
<1> QED
  BY <1>1, <1>2, <1>3, <1>4

LEMMA SingleChain ==
  ASSUME InputsFit, NEW span \in Spans
  PROVE  <<span>> \in Chains /\ Current(<<span>>) = span[1]
BY DEF Chains, Current, Span

LEMMA RestIs ==
  ASSUME InputsFit, NEW span \in Spans, NEW hashed \in BOOLEAN, NEW m \in Monos
  PROVE  /\ Coefficient(Rest(span, hashed), m) \in Nat
         /\ span[1].mono < m => Coefficient(Rest(span, hashed), m) = 0
         /\ hashed /\ span[1].mono = m => Coefficient(Rest(span, hashed), m) = 0
<1>1. span \in TermSpans /\ span # <<>> /\ Tail(span) \in TermSpans /\ 1 \in 1..Len(span)
  BY TailIs DEF Spans
<1>2. m \in Nat /\ span[1].mono \in Nat
  BY <1>1, TermsAre DEF Monos, InputsFit
<1>3. CASE hashed
  <2>1. Rest(span, hashed) = Tail(span)
    BY <1>3 DEF Rest
  <2> QED
    BY <1>1, <1>2, <2>1, TailIs, CoefficientType
<1>4. CASE ~hashed
  <2>1. Rest(span, hashed) = span
    BY <1>4 DEF Rest
  <2> QED
    BY <1>1, <1>2, <1>4, <2>1, TailIs, CoefficientType
<1> QED
  BY <1>3, <1>4

(* What the spans of an entry have of the monomial m *)
InChain(entry, hashed, m) == [k \in DOMAIN entry |-> Coefficient(Rest(entry[k], hashed), m)]

LEMMA ChainedIs ==
  ASSUME InputsFit, NEW c \in Seq(Spans), NEW hashed \in BOOLEAN, NEW m \in Monos
  PROVE  /\ Numbers(InChain(c, hashed, m), Len(c)) /\ Len(c) \in Nat /\ DOMAIN c = 1..Len(c)
         /\ \A k \in 1..Len(c) : InChain(c, hashed, m)[k] = Coefficient(Rest(c[k], hashed), m)
         /\ Chained(c, hashed, m) = Total(InChain(c, hashed, m), Len(c))
         /\ Chained(c, hashed, m) \in Nat
<1>1. Len(c) \in Nat /\ DOMAIN c = 1..Len(c) /\ \A k \in 1..Len(c) : c[k] \in Spans
  OBVIOUS
<1>2. \A k \in 1..Len(c) : InChain(c, hashed, m)[k] = Coefficient(Rest(c[k], hashed), m)
  BY <1>1 DEF InChain
<1>3. Numbers(InChain(c, hashed, m), Len(c))
  BY <1>1, <1>2, RestIs DEF Numbers
<1>4. Chained(c, hashed, m) = Total(InChain(c, hashed, m), Len(c))
  BY DEF Chained, InChain
<1>5. Total(InChain(c, hashed, m), Len(c)) \in Nat
  BY <1>1, <1>3, TotalTurns
<1> QED
  BY <1>1, <1>2, <1>3, <1>4, <1>5

LEMMA ChainedOfOne ==
  ASSUME InputsFit, NEW span \in Spans, NEW hashed \in BOOLEAN, NEW m \in Monos
  PROVE  Chained(<<span>>, hashed, m) = Coefficient(Rest(span, hashed), m)
<1> SUFFICES ASSUME NEW c \in Seq(Spans), Len(c) = 1, c[1] = span
             PROVE  Chained(c, hashed, m) = Coefficient(Rest(span, hashed), m)
  <2>1. <<span>> \in Seq(Spans) /\ Len(<<span>>) = 1 /\ <<span>>[1] = span
    OBVIOUS
  <2> QED
    BY <2>1
<1> DEFINE f == InChain(c, hashed, m)
<1>1. 1 \in 1..Len(c) /\ 1 \in 1..1
  OBVIOUS
<1>2. Chained(c, hashed, m) = Total(f, 1) /\ Numbers(f, 1)
      /\ f[1] = Coefficient(Rest(span, hashed), m)
  BY <1>1, ChainedIs
<1> HIDE DEF f
<1>3. Total(f, 1) = Total(f, 1 - 1) + f[1] /\ Total(f, 0) = 0 /\ f[1] \in Nat
  BY <1>1, <1>2, TotalTurns
<1> QED
  BY <1>2, <1>3

(* Two entries are chained. *)
LEMMA ChainedJoined ==
  ASSUME InputsFit, NEW c \in Chains, NEW d \in Chains, Current(c).mono = Current(d).mono
  PROVE  /\ c \o d \in Chains /\ Current(c \o d) = Current(c)
         /\ \A hashed \in BOOLEAN, m \in Monos :
              Chained(c \o d, hashed, m) = Chained(c, hashed, m) + Chained(d, hashed, m)
<1>1. /\ c \in Seq(Spans) /\ d \in Seq(Spans) /\ Len(c) \in Nat /\ Len(d) \in Nat
      /\ 1 \in 1..Len(c) /\ 1 \in 1..Len(d)
  BY ChainIs
<1> DEFINE e == c \o d
<1>2. /\ e \in Seq(Spans) /\ Len(e) = Len(c) + Len(d) /\ DOMAIN e = 1..Len(c) + Len(d)
      /\ \A k \in 1..Len(c) : e[k] = c[k]
      /\ \A k \in 1..Len(d) : e[Len(c) + k] = d[k]
  BY <1>1
<1> HIDE DEF e
<1>3. e # <<>> /\ e[1] = c[1] /\ Current(e) = Current(c)
  BY <1>1, <1>2 DEF Current, Span
<1>4. \A k \in 1..Len(c) + Len(d) : e[k][1].mono = Current(c).mono
  <2> SUFFICES ASSUME NEW k \in 1..Len(c) + Len(d) PROVE e[k][1].mono = Current(c).mono
    OBVIOUS
  <2>1. CASE k \in 1..Len(c)
    BY <1>2, <2>1, ChainIs
  <2>2. CASE k \notin 1..Len(c)
    <3>1. k - Len(c) \in 1..Len(d) /\ Len(c) + (k - Len(c)) = k
      BY <1>1, <2>2
    <3>2. e[k] = d[k - Len(c)]
      BY <1>2, <3>1
    <3> QED
      BY <3>1, <3>2, ChainIs
  <2> QED
    BY <2>1, <2>2
<1>5. e \in Chains
  <2>1. \A k \in DOMAIN e : e[k][1].mono = e[1][1].mono
    BY <1>2, <1>3, <1>4 DEF Current, Span
  <2> QED
    BY <1>2, <1>3, <2>1 DEF Chains
<1>6. ASSUME NEW hashed \in BOOLEAN, NEW m \in Monos
      PROVE  Chained(e, hashed, m) = Chained(c, hashed, m) + Chained(d, hashed, m)
  <2> DEFINE f == InChain(c, hashed, m)
             g == InChain(d, hashed, m)
             h == InChain(e, hashed, m)
  <2>1. /\ Numbers(f, Len(c)) /\ Chained(c, hashed, m) = Total(f, Len(c))
        /\ \A k \in 1..Len(c) : f[k] = Coefficient(Rest(c[k], hashed), m)
    BY <1>1, ChainedIs
  <2>2. /\ Numbers(g, Len(d)) /\ Chained(d, hashed, m) = Total(g, Len(d))
        /\ \A k \in 1..Len(d) : g[k] = Coefficient(Rest(d[k], hashed), m)
    BY <1>1, ChainedIs
  <2>3. /\ Chained(e, hashed, m) = Total(h, Len(c) + Len(d))
        /\ \A k \in 1..Len(c) + Len(d) : h[k] = Coefficient(Rest(e[k], hashed), m)
    BY <1>2, ChainedIs
  <2> HIDE DEF f, g, h
  <2>4. \A k \in 1..Len(c) : h[k] = f[k]
    <3> SUFFICES ASSUME NEW k \in 1..Len(c) PROVE h[k] = f[k]
      OBVIOUS
    <3>1. k \in 1..Len(c) + Len(d)
      BY <1>1
    <3> QED
      BY <1>2, <2>1, <2>3, <3>1
  <2>5. \A k \in 1..Len(d) : h[Len(c) + k] = g[k]
    <3> SUFFICES ASSUME NEW k \in 1..Len(d) PROVE h[Len(c) + k] = g[k]
      OBVIOUS
    <3>1. Len(c) + k \in 1..Len(c) + Len(d)
      BY <1>1
    <3> QED
      BY <1>2, <2>2, <2>3, <3>1
  <2>6. Joined(h, f, Len(c), g, Len(d))
    BY <2>4, <2>5 DEF Joined
  <2>7. Total(h, Len(c) + Len(d)) = Total(f, Len(c)) + Total(g, Len(d))
    BY <1>1, <2>1, <2>2, <2>6, TotalJoined
  <2> QED
    BY <2>1, <2>2, <2>3, <2>7
<1> QED
  BY <1>3, <1>5, <1>6 DEF e

(* What the entries have of the monomial m *)
InQueue(q, hashed, m) == [i \in DOMAIN q |-> Chained(q[i], hashed, m)]

LEMMA QueueIs ==
  ASSUME InputsFit, NEW q \in Seq(Chains), NEW hashed \in BOOLEAN, NEW m \in Monos
  PROVE  /\ Len(q) \in Nat /\ DOMAIN q = 1..Len(q) /\ \A i \in 1..Len(q) : q[i] \in Chains
         /\ Numbers(InQueue(q, hashed, m), Len(q))
         /\ \A i \in 1..Len(q) : /\ InQueue(q, hashed, m)[i] = Chained(q[i], hashed, m)
                                 /\ Chained(q[i], hashed, m) \in Nat
         /\ Queued(q, hashed, m) = Total(InQueue(q, hashed, m), Len(q))
         /\ Queued(q, hashed, m) \in Nat
<1>1. Len(q) \in Nat /\ DOMAIN q = 1..Len(q) /\ \A i \in 1..Len(q) : q[i] \in Chains
  OBVIOUS
<1>2. \A i \in 1..Len(q) : InQueue(q, hashed, m)[i] = Chained(q[i], hashed, m)
  BY <1>1 DEF InQueue
<1>3. \A i \in 1..Len(q) : Chained(q[i], hashed, m) \in Nat
  <2> SUFFICES ASSUME NEW i \in 1..Len(q) PROVE Chained(q[i], hashed, m) \in Nat
    OBVIOUS
  <2>1. q[i] \in Chains
    BY <1>1
  <2>2. q[i] \in Seq(Spans)
    BY <2>1, ChainIs
  <2> QED
    BY <2>2, ChainedIs
<1>4. Numbers(InQueue(q, hashed, m), Len(q))
  BY <1>2, <1>3 DEF Numbers
<1>5. Queued(q, hashed, m) = Total(InQueue(q, hashed, m), Len(q))
  BY DEF Queued, InQueue
<1>6. Total(InQueue(q, hashed, m), Len(q)) \in Nat
  BY <1>1, <1>4, TotalTurns
<1> QED
  BY <1>1, <1>2, <1>3, <1>4, <1>5, <1>6

LEMMA QueuedOfNone ==
  ASSUME NEW hashed, NEW m
  PROVE  Queued(<<>>, hashed, m) = 0
<1>1. Len(<<>>) = 0
  OBVIOUS
<1>2. Queued(<<>>, hashed, m) = Total(InQueue(<<>>, hashed, m), 0)
  BY <1>1 DEF Queued, InQueue
<1> QED
  BY <1>2, TotalOfNone

LEMMA QueuedTogether ==
  ASSUME InputsFit, NEW q \in Seq(Chains), NEW r \in Seq(Chains),
         NEW hashed \in BOOLEAN, NEW m \in Monos
  PROVE  Queued(q \o r, hashed, m) = Queued(q, hashed, m) + Queued(r, hashed, m)
<1>1. Len(q) \in Nat /\ Len(r) \in Nat
  OBVIOUS
<1> DEFINE e == q \o r
<1>2. /\ e \in Seq(Chains) /\ Len(e) = Len(q) + Len(r)
      /\ \A k \in 1..Len(q) : e[k] = q[k]
      /\ \A k \in 1..Len(r) : e[Len(q) + k] = r[k]
  OBVIOUS
<1> DEFINE f == InQueue(q, hashed, m)
           g == InQueue(r, hashed, m)
           h == InQueue(e, hashed, m)
<1> HIDE DEF e
<1>3. /\ Numbers(f, Len(q)) /\ Queued(q, hashed, m) = Total(f, Len(q))
      /\ \A k \in 1..Len(q) : f[k] = Chained(q[k], hashed, m)
  BY QueueIs
<1>4. /\ Numbers(g, Len(r)) /\ Queued(r, hashed, m) = Total(g, Len(r))
      /\ \A k \in 1..Len(r) : g[k] = Chained(r[k], hashed, m)
  BY QueueIs
<1>5. /\ Queued(e, hashed, m) = Total(h, Len(q) + Len(r))
      /\ \A k \in 1..Len(q) + Len(r) : h[k] = Chained(e[k], hashed, m)
  BY ZenonT(40), <1>2, QueueIs
<1> HIDE DEF f, g, h
<1>6. Joined(h, f, Len(q), g, Len(r))
  <2>1. ASSUME NEW k \in 1..Len(q) PROVE h[k] = f[k]
    <3>1. k \in 1..Len(q) + Len(r)
      BY <1>1
    <3> QED
      BY <1>2, <1>3, <1>5, <3>1
  <2>2. ASSUME NEW k \in 1..Len(r) PROVE h[Len(q) + k] = g[k]
    <3>1. Len(q) + k \in 1..Len(q) + Len(r)
      BY <1>1
    <3> QED
      BY <1>2, <1>4, <1>5, <3>1
  <2> QED
    BY <2>1, <2>2 DEF Joined
<1>7. Total(h, Len(q) + Len(r)) = Total(f, Len(q)) + Total(g, Len(r))
  BY <1>1, <1>3, <1>4, <1>6, TotalJoined
<1> QED
  BY <1>3, <1>4, <1>5, <1>7 DEF e

LEMMA QueuedOfOne ==
  ASSUME InputsFit, NEW c \in Chains, NEW hashed \in BOOLEAN, NEW m \in Monos
  PROVE  Queued(<<c>>, hashed, m) = Chained(c, hashed, m)
<1> SUFFICES ASSUME NEW q \in Seq(Chains), Len(q) = 1, q[1] = c
             PROVE  Queued(q, hashed, m) = Chained(c, hashed, m)
  <2>1. <<c>> \in Seq(Chains) /\ Len(<<c>>) = 1 /\ <<c>>[1] = c
    OBVIOUS
  <2> QED
    BY <2>1
<1> DEFINE f == InQueue(q, hashed, m)
<1>1. 1 \in 1..Len(q) /\ 1 \in 1..1
  OBVIOUS
<1>2. Queued(q, hashed, m) = Total(f, 1) /\ Numbers(f, 1)
      /\ f[1] = Chained(c, hashed, m)
  BY <1>1, QueueIs
<1> HIDE DEF f
<1>3. Total(f, 1) = Total(f, 1 - 1) + f[1] /\ Total(f, 0) = 0 /\ f[1] \in Nat
  BY <1>1, <1>2, TotalTurns
<1> QED
  BY <1>2, <1>3

LEMMA PushSpanIs ==
  ASSUME InputsFit, NEW q \in Seq(Chains), NEW span \in TermSpans, span # <<>>
  PROVE  /\ PushSpan(q, span) = Append(q, <<span>>) /\ <<span>> \in Chains
         /\ PushSpan(q, span) \in Seq(Chains) /\ Len(PushSpan(q, span)) = Len(q) + 1
         /\ DOMAIN PushSpan(q, span) = 1..Len(q) + 1
         /\ \A k \in 1..Len(q) : PushSpan(q, span)[k] = q[k]
         /\ PushSpan(q, span)[Len(q) + 1] = <<span>>
         /\ \A hashed \in BOOLEAN, m \in Monos :
              Queued(PushSpan(q, span), hashed, m)
                = Queued(q, hashed, m) + Coefficient(Rest(span, hashed), m)
<1>1. span \in Spans /\ <<span>> \in Chains
  BY SingleChain DEF Spans
<1>2. PushSpan(q, span) = Append(q, <<span>>)
  BY DEF PushSpan
<1>3. /\ Append(q, <<span>>) \in Seq(Chains) /\ Len(Append(q, <<span>>)) = Len(q) + 1
      /\ DOMAIN Append(q, <<span>>) = 1..Len(q) + 1
      /\ \A k \in 1..Len(q) : Append(q, <<span>>)[k] = q[k]
      /\ Append(q, <<span>>)[Len(q) + 1] = <<span>>
  <2> DEFINE c == <<span>>
  <2>1. c \in Chains
    BY <1>1
  <2> HIDE DEF c
  <2>2. /\ Append(q, c) \in Seq(Chains) /\ Len(Append(q, c)) = Len(q) + 1
        /\ DOMAIN Append(q, c) = 1..Len(q) + 1
        /\ \A k \in 1..Len(q) : Append(q, c)[k] = q[k]
        /\ Append(q, c)[Len(q) + 1] = c
    BY <2>1
  <2> QED
    BY <2>2 DEF c
<1>4. ASSUME NEW hashed \in BOOLEAN, NEW m \in Monos
      PROVE  Queued(Append(q, <<span>>), hashed, m)
               = Queued(q, hashed, m) + Coefficient(Rest(span, hashed), m)
  <2> DEFINE c == <<span>>
  <2>1. c \in Chains /\ Chained(c, hashed, m) = Coefficient(Rest(span, hashed), m)
    BY <1>1, ChainedOfOne
  <2> HIDE DEF c
  <2>2. Append(q, c) = q \o <<c>> /\ <<c>> \in Seq(Chains)
    BY <2>1
  <2>3. Queued(q \o <<c>>, hashed, m) = Queued(q, hashed, m) + Queued(<<c>>, hashed, m)
    BY <2>2, QueuedTogether
  <2>4. Queued(<<c>>, hashed, m) = Chained(c, hashed, m)
    BY <2>1, QueuedOfOne
  <2> QED
    BY <2>1, <2>2, <2>3, <2>4 DEF c
<1> QED
  BY <1>1, <1>2, <1>3, <1>4

LEMMA ConcatIs ==
  ASSUME NEW S, NEW a \in Seq(S), NEW b \in Seq(S)
  PROVE  /\ a \o b \in Seq(S) /\ Len(a \o b) = Len(a) + Len(b)
         /\ \A k \in 1..Len(a) : (a \o b)[k] = a[k]
         /\ \A k \in 1..Len(b) : (a \o b)[Len(a) + k] = b[k]
OBVIOUS

LEMMA RemoveAtIs ==
  ASSUME NEW S, NEW q \in Seq(S), NEW i \in 1..Len(q)
  PROVE  /\ RemoveAt(q, i) \in Seq(S) /\ Len(RemoveAt(q, i)) = Len(q) - 1
         /\ Len(q) - 1 \in Nat /\ DOMAIN RemoveAt(q, i) = 1..Len(q) - 1
         /\ \A k \in 1..Len(q) - 1 :
              RemoveAt(q, i)[k] = IF k < i THEN q[k] ELSE q[k + 1]
<1>1. Len(q) \in Nat /\ i \in Nat /\ \A k \in 1..Len(q) : q[k] \in S
  OBVIOUS
<1> DEFINE a == SubSeq(q, 1, i - 1)
           b == SubSeq(q, i + 1, Len(q))
           n == Len(q)
<1>2. a \in Seq(S) /\ Len(a) = i - 1 /\ \A k \in 1..i - 1 : a[k] = q[k]
  BY <1>1
<1>3. b \in Seq(S) /\ Len(b) = n - i /\ \A k \in 1..n - i : b[k] = q[i + k]
  BY <1>1
<1> HIDE DEF a, b
<1>4. a \o b \in Seq(S) /\ Len(a \o b) = n - 1
  <2>1. a \o b \in Seq(S) /\ Len(a \o b) = Len(a) + Len(b)
    BY <1>2, <1>3, ConcatIs
  <2>2. Len(a) + Len(b) = n - 1
    <3>1. n \in Nat
      BY <1>1
    <3> HIDE DEF n
    <3>2. (i - 1) + (n - i) = n - 1
      BY <1>1, <3>1
    <3> QED
      BY <1>2, <1>3, <3>2
  <2> QED
    BY <2>1, <2>2
<1>5. /\ \A k \in 1..i - 1 : (a \o b)[k] = a[k]
      /\ \A k \in 1..n - i : (a \o b)[(i - 1) + k] = b[k]
  <2>0. a \in Seq(S) /\ b \in Seq(S)
    BY <1>2, <1>3
  <2>1. /\ \A k \in 1..Len(a) : (a \o b)[k] = a[k]
        /\ \A k \in 1..Len(b) : (a \o b)[Len(a) + k] = b[k]
    BY <2>0, ConcatIs
  <2> QED
    BY <1>2, <1>3, <2>1
<1>6. ASSUME NEW k \in 1..n - 1
      PROVE  (a \o b)[k] = IF k < i THEN q[k] ELSE q[k + 1]
  <2>1. CASE k < i
    <3>1. k \in 1..i - 1
      BY <2>1
    <3> QED
      BY <1>2, <1>5, <2>1, <3>1
  <2>2. CASE ~(k < i)
    <3>1. PICK j \in 1..n - i : (i - 1) + j = k /\ i + j = k + 1
      <4>1. k - (i - 1) \in 1..n - i /\ (i - 1) + (k - (i - 1)) = k /\ i + (k - (i - 1)) = k + 1
        BY <1>1, <2>2
      <4> QED
        BY <4>1
    <3>2. (a \o b)[(i - 1) + j] = b[j] /\ b[j] = q[i + j]
      BY <1>3, <1>5
    <3> QED
      BY <2>2, <3>1, <3>2
  <2> QED
    BY <2>1, <2>2
<1>7. RemoveAt(q, i) = a \o b
  BY DEF RemoveAt, a, b
<1>8. n - 1 \in Nat /\ DOMAIN (a \o b) = 1..n - 1
  BY <1>1, <1>4
<1> QED
  BY <1>4, <1>6, <1>7, <1>8

LEMMA QueuedWithout ==
  ASSUME InputsFit, NEW q \in Seq(Chains), NEW i \in 1..Len(q),
         NEW hashed \in BOOLEAN, NEW m \in Monos
  PROVE  Queued(q, hashed, m) = Queued(RemoveAt(q, i), hashed, m) + Chained(q[i], hashed, m)
<1> DEFINE r == RemoveAt(q, i)
           n == Len(q)
<1>1. /\ r \in Seq(Chains) /\ Len(r) = n - 1
      /\ \A k \in 1..n - 1 : r[k] = IF k < i THEN q[k] ELSE q[k + 1]
  BY RemoveAtIs
<1> HIDE DEF r
<1> DEFINE f == InQueue(q, hashed, m)
           g == InQueue(r, hashed, m)
<1>2. /\ n \in Nat /\ Numbers(f, n) /\ Queued(q, hashed, m) = Total(f, n)
      /\ \A k \in 1..n : f[k] = Chained(q[k], hashed, m)
  BY QueueIs
<1>3. /\ Queued(r, hashed, m) = Total(g, n - 1)
      /\ \A k \in 1..n - 1 : g[k] = Chained(r[k], hashed, m)
  BY <1>1, QueueIs
<1> HIDE DEF f, g
<1>4. Without(g, f, n, i)
  <2> SUFFICES ASSUME NEW k \in 1..n - 1 PROVE g[k] = IF k < i THEN f[k] ELSE f[k + 1]
    BY DEF Without
  <2>1. k \in 1..n /\ k + 1 \in 1..n
    BY <1>2
  <2> QED
    BY <1>1, <1>2, <1>3, <2>1
<1>5. Total(f, n) = Total(g, n - 1) + f[i]
  BY <1>2, <1>4, TotalWithout
<1> QED
  BY <1>2, <1>3, <1>5 DEF r

LEMMA QueuedChanged ==
  ASSUME InputsFit, NEW q \in Seq(Chains), NEW i \in 1..Len(q), NEW c \in Chains,
         NEW hashed \in BOOLEAN, NEW m \in Monos
  PROVE  Queued(q, hashed, m) + Chained(c, hashed, m)
           = Queued([q EXCEPT ![i] = c], hashed, m) + Chained(q[i], hashed, m)
<1> DEFINE r == [q EXCEPT ![i] = c]
           n == Len(q)
<1>1. /\ r \in Seq(Chains) /\ Len(r) = n /\ r[i] = c
      /\ \A k \in 1..n : k # i => r[k] = q[k]
  OBVIOUS
<1> HIDE DEF r
<1> DEFINE f == InQueue(q, hashed, m)
           g == InQueue(r, hashed, m)
<1>2. /\ n \in Nat /\ Numbers(f, n) /\ Queued(q, hashed, m) = Total(f, n)
      /\ \A k \in 1..n : f[k] = Chained(q[k], hashed, m)
  BY QueueIs
<1>3. /\ Numbers(g, n) /\ Queued(r, hashed, m) = Total(g, n)
      /\ \A k \in 1..n : g[k] = Chained(r[k], hashed, m)
  BY <1>1, QueueIs
<1> HIDE DEF f, g
<1>4. g[i] \in Nat /\ \A k \in 1..n : k # i => g[k] = f[k]
  BY <1>1, <1>2, <1>3 DEF Numbers
<1>5. Total(f, n) + g[i] = Total(g, n) + f[i]
  BY <1>2, <1>4, TotalChanged
<1> QED
  BY <1>1, <1>2, <1>3, <1>5 DEF r

QueueBelow(q, b) == \A i \in DOMAIN q : Current(q[i]).mono < b

(* Entries have nothing above their current monomials, and those that are hashed
   have nothing at them either. *)
LEMMA NothingAbove ==
  ASSUME InputsFit, NEW q \in Seq(Chains), NEW hashed \in BOOLEAN, NEW m \in Monos,
         QueueBelow(q, m) \/ (hashed /\ QueueBelow(q, m + 1))
  PROVE  Queued(q, hashed, m) = 0
<1>1. m \in Nat
  BY DEF Monos, InputsFit
<1>2. /\ Len(q) \in Nat /\ DOMAIN q = 1..Len(q) /\ \A i \in 1..Len(q) : q[i] \in Chains
      /\ \A i \in 1..Len(q) : InQueue(q, hashed, m)[i] = Chained(q[i], hashed, m)
      /\ Queued(q, hashed, m) = Total(InQueue(q, hashed, m), Len(q))
  BY QueueIs
<1>3. ASSUME NEW i \in 1..Len(q)
      PROVE  Chained(q[i], hashed, m) = 0
  <2> DEFINE c == q[i]
  <2>1. /\ c \in Chains /\ Current(c).mono < m + 1 /\ (Current(c).mono = m => hashed)
    <3>1. c \in Chains
      BY <1>2
    <3>2. Current(c).mono \in Nat
      BY <3>1, ChainIs
    <3>3. CASE QueueBelow(q, m)
      <4>1. Current(c).mono < m
        BY <1>2, <3>3 DEF QueueBelow
      <4> QED
        BY <1>1, <3>1, <3>2, <4>1
    <3>4. CASE hashed /\ QueueBelow(q, m + 1)
      BY <1>2, <3>1, <3>4 DEF QueueBelow
    <3> QED
      BY <3>3, <3>4
  <2> HIDE DEF c
  <2>2. /\ c \in Seq(Spans) /\ Len(c) \in Nat
        /\ \A k \in 1..Len(c) : c[k] \in Spans /\ c[k][1].mono = Current(c).mono
        /\ Current(c).mono \in Nat
    BY <2>1, ChainIs
  <2>3. \A k \in 1..Len(c) : Coefficient(Rest(c[k], hashed), m) = 0
    <3> SUFFICES ASSUME NEW k \in 1..Len(c) PROVE Coefficient(Rest(c[k], hashed), m) = 0
      OBVIOUS
    <3>1. c[k] \in Spans /\ (c[k][1].mono < m \/ (hashed /\ c[k][1].mono = m))
      BY <1>1, <2>1, <2>2
    <3> QED
      BY <3>1, RestIs
  <2> DEFINE f == InChain(c, hashed, m)
  <2>4. Chained(c, hashed, m) = Total(f, Len(c)) /\ \A k \in 1..Len(c) : f[k] = 0
    BY <2>2, <2>3, ChainedIs
  <2> HIDE DEF f
  <2>5. Total(f, Len(c)) = 0
    BY <2>2, <2>4, TotalOfZeros
  <2> QED
    BY <2>4, <2>5 DEF c
<1> DEFINE f == InQueue(q, hashed, m)
<1>4. Queued(q, hashed, m) = Total(f, Len(q)) /\ \A i \in 1..Len(q) : f[i] = 0
  BY <1>2, <1>3
<1> HIDE DEF f
<1>5. Total(f, Len(q)) = 0
  BY <1>2, <1>4, TotalOfZeros
<1> QED
  BY <1>4, <1>5

-----------------------------------------------------------------------------
(* Stores *)

(* Each entry of a hashed reducer is a span of its own, for a monomial of its own. *)
Distinct(q) ==
  \A i \in DOMAIN q :
    /\ Len(q[i]) = 1
    /\ \A j \in DOMAIN q : Current(q[i]).mono = Current(q[j]).mono => i = j

SoundTable(tab, q) ==
  /\ tab \in [MonosIn(q) -> Coefs]
  /\ Distinct(q)

IsStore(s) == s = [queue |-> s.queue, table |-> s.table]

SoundStore(s, kind) ==
  /\ IsStore(s)
  /\ s.queue \in Seq(Chains)
  /\ IF kind \in {"Hash", "HashPack"} THEN SoundTable(s.table, s.queue) ELSE s.table = <<>>
  /\ kind = "Dedup" => \A i \in DOMAIN s.queue : Len(s.queue[i]) = 1 /\ Len(s.queue[i][1]) = 1

StoreSum(s, hashed, m) == Queued(s.queue, hashed, m) + Stored(s.table, m)

(* new is s with terms added. *)
Grown(new, s, terms) ==
  /\ SoundStore(new, reducer)
  /\ \A m \in Monos : Same(StoreSum(new, Hashed, m), StoreSum(s, Hashed, m) + Coefficient(terms, m))
  /\ \A b \in Nat : QueueBelow(s.queue, b) /\ (\A k \in 1..Len(terms) : terms[k].mono < b)
                      => QueueBelow(new.queue, b)

LEMMA HashedType == Hashed \in BOOLEAN
BY DEF Hashed

LEMMA MonosInIs ==
  ASSUME InputsFit, NEW q \in Seq(Chains)
  PROVE  /\ MonosIn(q) \subseteq Monos
         /\ \A i \in 1..Len(q) : Current(q[i]).mono \in MonosIn(q)
         /\ \A m \in MonosIn(q) : \E i \in 1..Len(q) : m = Current(q[i]).mono
<1>1. DOMAIN q = 1..Len(q) /\ \A i \in 1..Len(q) : q[i] \in Chains
  OBVIOUS
<1>2. \A i \in 1..Len(q) : Current(q[i]).mono \in Monos
  BY <1>1, ChainIs
<1> QED
  BY <1>1, <1>2 DEF MonosIn

LEMMA StoreSumType ==
  ASSUME InputsFit, NEW s, SoundStore(s, reducer), NEW m \in Monos
  PROVE  /\ StoreSum(s, Hashed, m) \in Nat
         /\ Queued(s.queue, Hashed, m) \in Nat
         /\ Stored(s.table, m) \in Nat /\ Stored(s.table, m) \in Coefs
         /\ ~Hashed => Stored(s.table, m) = 0
<1>1. s.queue \in Seq(Chains)
  BY DEF SoundStore
<1>2. Queued(s.queue, Hashed, m) \in Nat
  BY <1>1, HashedType, QueueIs
<1>3. Stored(s.table, m) \in Coefs /\ (~Hashed => Stored(s.table, m) = 0)
  <2>1. CASE Hashed
    <3>1. s.table \in [MonosIn(s.queue) -> Coefs]
      BY <2>1 DEF Hashed, SoundStore, SoundTable
    <3> QED
      BY <2>1, <3>1, Remainders DEF Stored
  <2>2. CASE ~Hashed
    <3>1. s.table = <<>> /\ DOMAIN <<>> = {}
      BY <2>2 DEF Hashed, SoundStore
    <3>2. Stored(s.table, m) = 0
      BY <3>1 DEF Stored
    <3> QED
      BY <2>2, <3>2, Remainders
  <2> QED
    BY <2>1, <2>2
<1> QED
  BY <1>2, <1>3, Remainders DEF StoreSum

LEMMA GrownByNothing ==
  ASSUME InputsFit, NEW s, SoundStore(s, reducer)
  PROVE  Grown(s, s, <<>>)
<1>1. ASSUME NEW m \in Monos
      PROVE  Same(StoreSum(s, Hashed, m), StoreSum(s, Hashed, m) + Coefficient(<<>>, m))
  <2>1. StoreSum(s, Hashed, m) + Coefficient(<<>>, m) = StoreSum(s, Hashed, m)
    BY StoreSumType, CoefficientOfNothing
  <2> QED
    BY <2>1 DEF Same
<1> QED
  BY <1>1 DEF Grown

PartOf(x, z) == \A k \in 1..Len(x) : \E l \in 1..Len(z) : x[k] = z[l]
AddsTo(z, x, y) == \A m \in Monos : Coefficient(z, m) = Coefficient(x, m) + Coefficient(y, m)

LEMMA GrownTwice ==
  ASSUME InputsFit, NEW s, NEW a, NEW b, NEW x \in TermSpans, NEW y \in TermSpans,
         NEW z \in TermSpans, SoundStore(s, reducer), Grown(a, s, x), Grown(b, a, y),
         AddsTo(z, x, y), PartOf(x, z), PartOf(y, z)
  PROVE  Grown(b, s, z)
<1>0. /\ \A m \in Monos : Coefficient(z, m) = Coefficient(x, m) + Coefficient(y, m)
      /\ \A k \in 1..Len(x) : \E l \in 1..Len(z) : x[k] = z[l]
      /\ \A k \in 1..Len(y) : \E l \in 1..Len(z) : y[k] = z[l]
  BY DEF AddsTo, PartOf
<1>1. SoundStore(a, reducer) /\ SoundStore(b, reducer)
  BY DEF Grown
<1>2. ASSUME NEW m \in Monos
      PROVE  Same(StoreSum(b, Hashed, m), StoreSum(s, Hashed, m) + Coefficient(z, m))
  <2>1. PICK n \in Nat, na \in Nat, nb \in Nat, cx \in Nat, cy \in Nat :
          /\ n = StoreSum(s, Hashed, m) /\ na = StoreSum(a, Hashed, m)
          /\ nb = StoreSum(b, Hashed, m)
          /\ cx = Coefficient(x, m) /\ cy = Coefficient(y, m)
    BY <1>1, StoreSumType, CoefficientType
  <2>2. Same(na, n + cx) /\ Same(nb, na + cy)
    BY <2>1 DEF Grown
  <2>3. Same(na + cy, (n + cx) + cy)
    <3>1. Same(cy, cy) /\ n + cx \in Nat
      BY DEF Same
    <3> QED
      BY <2>2, <3>1, SameSum
  <2>4. Same(nb, (n + cx) + cy)
    BY <2>2, <2>3 DEF Same
  <2>5. (n + cx) + cy = n + (cx + cy) /\ Coefficient(z, m) = cx + cy
    BY <1>0, <2>1
  <2> QED
    BY <2>1, <2>4, <2>5
<1>3. ASSUME NEW n \in Nat, QueueBelow(s.queue, n), \A k \in 1..Len(z) : z[k].mono < n
      PROVE  QueueBelow(b.queue, n)
  <2>1. \A k \in 1..Len(x) : x[k].mono < n
    BY <1>0, <1>3
  <2>2. \A k \in 1..Len(y) : y[k].mono < n
    BY <1>0, <1>3
  <2>3. QueueBelow(a.queue, n)
    BY <1>3, <2>1 DEF Grown
  <2> QED
    BY <2>2, <2>3 DEF Grown
<1> QED
  BY <1>1, <1>2, <1>3 DEF Grown

LEMMA HashedStore ==
  ASSUME InputsFit, NEW s, SoundStore(s, reducer), Hashed
  PROVE  /\ s.queue \in Seq(Chains) /\ s.table \in [MonosIn(s.queue) -> Coefs]
         /\ Distinct(s.queue) /\ SoundTable(s.table, s.queue)
         /\ DOMAIN s.table = MonosIn(s.queue) /\ DOMAIN s.table \subseteq Monos
<1>1. s.queue \in Seq(Chains) /\ SoundTable(s.table, s.queue)
  BY DEF SoundStore, Hashed
<1>2. s.table \in [MonosIn(s.queue) -> Coefs] /\ Distinct(s.queue)
  BY <1>1 DEF SoundTable
<1>3. DOMAIN s.table = MonosIn(s.queue)
  BY <1>2
<1> QED
  BY <1>1, <1>2, <1>3, MonosInIs

LEMMA HashedSound ==
  ASSUME Hashed, NEW q \in Seq(Chains), NEW tab \in [MonosIn(q) -> Coefs], Distinct(q)
  PROVE  SoundStore([queue |-> q, table |-> tab], reducer)
<1>1. reducer \in {"Hash", "HashPack"} /\ reducer # "Dedup"
  BY DEF Hashed
<1> DEFINE s == [queue |-> q, table |-> tab]
<1>2. s.queue = q /\ s.table = tab
  OBVIOUS
<1>0. IsStore(s)
  BY DEF IsStore
<1> HIDE DEF s
<1>3. SoundStore(s, reducer)
  BY <1>0, <1>1, <1>2 DEF SoundStore, SoundTable
<1> QED
  BY <1>3 DEF s

(* The coefficients of terms whose monomials are all in the table are added there. *)
Added(tab, old, x) == tab = [m \in DOMAIN old |-> (old[m] + Coefficient(x, m)) % P]

LEMMA TableGrown ==
  ASSUME InputsFit, NEW s, SoundStore(s, reducer), Hashed, NEW x \in TermSpans,
         \A k \in 1..Len(x) : x[k].mono \in DOMAIN s.table,
         NEW tab, Added(tab, s.table, x)
  PROVE  Grown([queue |-> s.queue, table |-> tab], s, x)
<1>0. /\ DOMAIN tab = DOMAIN s.table /\ tab = [m \in DOMAIN tab |-> tab[m]]
      /\ \A m \in DOMAIN s.table : tab[m] = (s.table[m] + Coefficient(x, m)) % P
  BY DEF Added
<1> DEFINE q == s.queue
<1>1. /\ q \in Seq(Chains) /\ s.table \in [MonosIn(q) -> Coefs] /\ Distinct(q)
      /\ DOMAIN s.table = MonosIn(q) /\ DOMAIN s.table \subseteq Monos
  BY HashedStore
<1>2. \A m \in MonosIn(q) : tab[m] \in Coefs
  <2> SUFFICES ASSUME NEW m \in MonosIn(q) PROVE tab[m] \in Coefs
    OBVIOUS
  <2>1. s.table[m] \in Nat
    BY <1>1, Remainders
  <2>2. Coefficient(x, m) \in Nat
    BY CoefficientType
  <2>3. s.table[m] + Coefficient(x, m) \in Nat
    BY <2>1, <2>2
  <2> QED
    BY <1>0, <1>1, <2>3, Remainders
<1>3. tab \in [MonosIn(q) -> Coefs]
  BY <1>0, <1>1, <1>2
<1> DEFINE new == [queue |-> q, table |-> tab]
<1>4. SoundStore(new, reducer)
  BY <1>1, <1>3, HashedSound
<1>5. new.queue = q /\ new.table = tab
  OBVIOUS
<1> HIDE DEF new
<1>6. ASSUME NEW m \in Monos
      PROVE  Same(StoreSum(new, Hashed, m), StoreSum(s, Hashed, m) + Coefficient(x, m))
  <2>1. PICK n \in Nat, a \in Nat, c \in Nat, d \in Nat :
          /\ n = Queued(q, Hashed, m) /\ a = Stored(s.table, m) /\ d = Stored(tab, m)
          /\ c = Coefficient(x, m)
    BY <1>4, <1>5, StoreSumType, CoefficientType
  <2>2. Same(d, a + c)
    <3>1. CASE m \in DOMAIN s.table
      <4>1. a = s.table[m] /\ d = (a + c) % P
        BY <1>0, <2>1, <3>1 DEF Stored
      <4>2. a + c \in Nat
        OBVIOUS
      <4> QED
        BY <4>1, <4>2, SameModulo
    <3>2. CASE m \notin DOMAIN s.table
      <4>1. a = 0 /\ d = 0
        BY <1>0, <2>1, <3>2 DEF Stored
      <4>2. \A k \in DOMAIN x : x[k].mono # m
        BY <3>2, TermsAre
      <4>3. c = 0
        BY <2>1, <4>2, CoefficientNone
      <4> QED
        BY <4>1, <4>3 DEF Same
    <3> QED
      BY <3>1, <3>2
  <2>3. Same(n, n) /\ a + c \in Nat
    BY DEF Same
  <2>4. Same(n + d, n + (a + c))
    BY <2>2, <2>3, SameSum
  <2>5. StoreSum(new, Hashed, m) = n + d /\ StoreSum(s, Hashed, m) = n + a
    BY <1>5, <2>1 DEF StoreSum
  <2>6. n + (a + c) = (n + a) + c
    OBVIOUS
  <2> QED
    BY <2>1, <2>4, <2>5, <2>6
<1> QED
  BY <1>4, <1>5, <1>6 DEF Grown, new

(* A span whose first term is new to the table *)
LEMMA NewEntry ==
  ASSUME InputsFit, NEW s, SoundStore(s, reducer), Hashed, NEW span \in Spans,
         span[1].mono \notin DOMAIN s.table
  PROVE  Grown([queue |-> PushSpan(s.queue, span), table |-> AddToTable(s.table, span[1])],
               s, span)
<1> DEFINE q == s.queue
           t == span[1]
           nq == PushSpan(q, span)
           nt == AddToTable(s.table, t)
           n == Len(q)
<1>1. /\ q \in Seq(Chains) /\ s.table \in [MonosIn(q) -> Coefs] /\ Distinct(q)
      /\ DOMAIN s.table = MonosIn(q) /\ DOMAIN s.table \subseteq Monos /\ n \in Nat
      /\ DOMAIN q = 1..n
  BY HashedStore
<1>2. span \in TermSpans /\ span # <<>> /\ 1 \in 1..Len(span)
  BY TailIs DEF Spans
<1>3. t \in Terms /\ t.mono \in Monos /\ t.mono \in Nat /\ t.coef \in Coefs /\ t.coef \in Nat
  BY <1>2, TermsAre
<1>4. /\ nq \in Seq(Chains) /\ DOMAIN nq = 1..n + 1 /\ nq[n + 1] = <<span>>
      /\ \A k \in 1..n : nq[k] = q[k]
      /\ \A m \in Monos : Queued(nq, Hashed, m) = Queued(q, Hashed, m) + Coefficient(Tail(span), m)
  <2>1. \A m \in Monos : Queued(nq, TRUE, m) = Queued(q, TRUE, m) + Coefficient(Rest(span, TRUE), m)
    BY <1>1, <1>2, PushSpanIs
  <2>2. Rest(span, TRUE) = Tail(span) /\ Hashed = TRUE
    BY HashedType DEF Rest
  <2> QED
    BY <1>1, <1>2, <2>1, <2>2, PushSpanIs
<1>5. Current(nq[n + 1]) = t /\ Len(nq[n + 1]) = 1 /\ n + 1 \in 1..n + 1
  BY <1>1, <1>4 DEF Current, Span
<1> HIDE DEF nq
<1>6. \A i \in 1..n : i \in 1..n + 1 /\ nq[i] = q[i] /\ Current(q[i]).mono # t.mono
  BY <1>1, <1>4, MonosInIs
<1>7. \A i \in 1..n + 1 : i \in 1..n \/ i = n + 1
  BY <1>1
<1>8. MonosIn(nq) = MonosIn(q) \cup {t.mono}
  <2>1. ASSUME NEW m \in MonosIn(nq)
        PROVE  m \in MonosIn(q) \cup {t.mono}
    <3>1. PICK i \in 1..n + 1 : m = Current(nq[i]).mono
      BY <1>4 DEF MonosIn
    <3>2. CASE i \in 1..n
      BY <1>1, <1>6, <3>1, <3>2, MonosInIs
    <3>3. CASE i = n + 1
      BY <1>5, <3>1, <3>3
    <3> QED
      BY <1>7, <3>2, <3>3
  <2>2. ASSUME NEW m \in MonosIn(q)
        PROVE  m \in MonosIn(nq)
    <3>1. PICK i \in 1..n : m = Current(q[i]).mono
      BY <1>1, MonosInIs
    <3>2. i \in 1..n + 1 /\ m = Current(nq[i]).mono
      BY <1>6, <3>1
    <3> QED
      BY <1>4, <3>2 DEF MonosIn
  <2>3. t.mono \in MonosIn(nq)
    BY <1>4, <1>5 DEF MonosIn
  <2> QED
    BY <2>1, <2>2, <2>3
<1>9. Distinct(nq)
  <2> SUFFICES ASSUME NEW i \in 1..n + 1
               PROVE  /\ Len(nq[i]) = 1
                      /\ \A j \in 1..n + 1 :
                           Current(nq[i]).mono = Current(nq[j]).mono => i = j
    BY <1>4 DEF Distinct
  <2>1. CASE i \in 1..n
    <3>1. /\ nq[i] = q[i] /\ Len(q[i]) = 1 /\ Current(q[i]).mono # t.mono
          /\ \A j \in 1..n : Current(q[i]).mono = Current(q[j]).mono => i = j
      BY <1>1, <1>6, <2>1 DEF Distinct
    <3>2. ASSUME NEW j \in 1..n + 1, Current(nq[i]).mono = Current(nq[j]).mono
          PROVE  i = j
      <4>1. CASE j \in 1..n
        BY <1>6, <3>1, <3>2, <4>1
      <4>2. CASE j = n + 1
        BY <1>5, <3>1, <3>2, <4>2
      <4> QED
        BY <1>7, <4>1, <4>2
    <3> QED
      BY <3>1, <3>2
  <2>2. CASE i = n + 1
    <3>1. ASSUME NEW j \in 1..n + 1, Current(nq[i]).mono = Current(nq[j]).mono
          PROVE  i = j
      <4>1. CASE j \in 1..n
        BY <1>5, <1>6, <2>2, <3>1, <4>1
      <4>2. CASE j = n + 1
        BY <2>2, <4>2
      <4> QED
        BY <1>7, <4>1, <4>2
    <3> QED
      BY <1>5, <2>2, <3>1
  <2> QED
    BY <1>7, <2>1, <2>2
<1>10. nt = [m \in DOMAIN s.table \cup {t.mono} |-> IF m = t.mono THEN t.coef ELSE s.table[m]]
  BY DEF AddToTable
<1>11. /\ nt \in [MonosIn(nq) -> Coefs] /\ nt[t.mono] = t.coef
       /\ \A m \in MonosIn(q) : nt[m] = s.table[m]
  <2>1. nt = [m \in {t.mono} \cup MonosIn(q) |-> IF m = t.mono THEN t.coef ELSE s.table[m]]
    BY <1>1, <1>10
  <2> QED
    BY <1>1, <1>3, <1>8, <2>1
<1> HIDE DEF nt
<1> DEFINE new == [queue |-> nq, table |-> nt]
<1>12. SoundStore(new, reducer)
  BY <1>4, <1>9, <1>11, HashedSound
<1>13. new.queue = nq /\ new.table = nt
  OBVIOUS
<1> HIDE DEF new
<1>14. ASSUME NEW m \in Monos
       PROVE  Same(StoreSum(new, Hashed, m), StoreSum(s, Hashed, m) + Coefficient(span, m))
  <2>1. PICK x \in Nat, a \in Nat, c \in Nat, d \in Nat, e \in Nat :
          /\ x = Queued(q, Hashed, m) /\ a = Stored(s.table, m) /\ d = Stored(nt, m)
          /\ c = Coefficient(span, m) /\ e = Coefficient(Tail(span), m)
    <3>1. Tail(span) \in TermSpans
      BY <1>2, TailIs
    <3> QED
      BY <1>2, <1>12, <1>13, <3>1, StoreSumType, CoefficientType
  <2>2. (x + e) + d = (x + a) + c
    <3>1. CASE m = t.mono
      <4>1. e = 0 /\ c = t.coef
        <5>1. m >= t.mono
          BY <1>3, <3>1
        <5> QED
          BY <1>2, <2>1, <3>1, <5>1, TailIs
      <4>2. a = 0
        BY <2>1, <3>1 DEF Stored
      <4>3. d = t.coef
        BY <1>8, <1>11, <2>1, <3>1 DEF Stored
      <4> QED
        BY <2>1, <4>1, <4>2, <4>3
    <3>2. CASE m # t.mono
      <4>1. e = c
        BY <1>2, <2>1, <3>2, TailIs
      <4>2. a = d
        BY <1>1, <1>8, <1>11, <2>1, <3>2 DEF Stored
      <4>3. (x + c) + a = (x + a) + c
        OBVIOUS
      <4> QED
        BY <4>1, <4>2, <4>3
    <3> QED
      BY <3>1, <3>2
  <2>3. StoreSum(new, Hashed, m) = (x + e) + d /\ StoreSum(s, Hashed, m) = x + a
    BY <1>4, <1>13, <2>1 DEF StoreSum
  <2> QED
    BY <2>1, <2>2, <2>3 DEF Same
<1>15. ASSUME NEW b \in Nat, QueueBelow(q, b), \A k \in 1..Len(span) : span[k].mono < b
       PROVE  QueueBelow(nq, b)
  <2>1. t.mono < b
    BY <1>2, <1>15
  <2> QED
    BY <1>1, <1>4, <1>5, <1>6, <1>7, <1>15, <2>1 DEF QueueBelow
<1> QED
  BY <1>12, <1>13, <1>14, <1>15 DEF Grown, new, nt, nq

(* HashPack inserts a span up to the first term that is new to the table. *)
LEMMA EntryInserted ==
  ASSUME InputsFit, NEW s, SoundStore(s, reducer), Hashed, NEW span \in TermSpans
  PROVE  Grown(InsertEntry(s, span), s, span)
<1> DEFINE F == {n \in 0..Len(span) : \A i \in 1..n : span[i].mono \in DOMAIN s.table}
           found == Max(F)
           first == SubSeq(span, 1, found)
           rest == SubSeq(span, found + 1, Len(span))
           added == [m \in DOMAIN s.table |-> (s.table[m] + Coefficient(first, m)) % P]
           mid == [queue |-> s.queue, table |-> added]
<1>1. Len(span) \in Nat /\ span \in Seq(Terms)
  BY TermsAre
<1>2. found \in 0..Len(span) /\ \A i \in 1..found : span[i].mono \in DOMAIN s.table
  <2>1. F \in SUBSET (0..Len(span)) /\ 0 \in F
    BY <1>1
  <2> HIDE DEF F
  <2>2. found \in F
    BY <1>1, <2>1, MaxIs
  <2> QED
    BY <2>2 DEF F
<1>3. found + 1 \in 0..Len(span) => span[found + 1].mono \notin DOMAIN s.table
  <2> SUFFICES ASSUME found + 1 \in 0..Len(span), span[found + 1].mono \in DOMAIN s.table
               PROVE  FALSE
    OBVIOUS
  <2>1. \A i \in 1..found + 1 : i \in 1..found \/ i = found + 1
    BY <1>2
  <2>2. found + 1 \in F
    BY <1>2, <2>1
  <2>3. F \in SUBSET (0..Len(span)) /\ F # {}
    BY <2>2
  <2> DEFINE G == F
  <2> HIDE DEF F
  <2>4. found + 1 <= found
    BY <1>1, <2>2, <2>3, MaxIs
  <2> QED
    BY <1>2, <2>4
<1>4. InsertEntry(s, span) = [queue |-> PushSpan(s.queue, rest),
                              table |-> IF rest = <<>> THEN added ELSE AddToTable(added, rest[1])]
  BY DEF InsertEntry
<1> HIDE DEF F, found
<1>5. /\ first \in TermSpans /\ rest \in TermSpans
      /\ Len(first) = found /\ Len(rest) = Len(span) - found
      /\ \A k \in 1..found : first[k] = span[k]
      /\ \A k \in 1..Len(span) - found : rest[k] = span[found + k]
      /\ \A m \in Monos : Coefficient(span, m) = Coefficient(first, m) + Coefficient(rest, m)
  BY <1>2, PartsAre
<1> HIDE DEF first, rest
<1>6. Added(added, s.table, first)
  BY DEF Added
<1>7. DOMAIN added = DOMAIN s.table
  OBVIOUS
<1>8. \A k \in 1..Len(first) : first[k].mono \in DOMAIN s.table
  BY <1>2, <1>5
<1> HIDE DEF added
<1>9. Grown(mid, s, first)
  BY <1>5, <1>6, <1>8, TableGrown
<1>10. mid.queue = s.queue /\ mid.table = added /\ SoundStore(mid, reducer)
  BY <1>9 DEF Grown
<1> HIDE DEF mid
<1>11. Grown(InsertEntry(s, span), mid, rest)
  <2>1. CASE rest = <<>>
    <3>1. InsertEntry(s, span) = mid
      BY <1>4, <2>1 DEF mid, PushSpan
    <3>2. Grown(mid, mid, <<>>)
      BY <1>10, GrownByNothing
    <3> QED
      BY <2>1, <3>1, <3>2
  <2>2. CASE rest # <<>>
    <3>1. rest \in Spans /\ 1 \in 1..Len(rest)
      BY <1>5, <2>2, TailIs DEF Spans
    <3>2. rest[1] = span[found + 1] /\ found + 1 \in 0..Len(span)
      BY <1>1, <1>2, <1>5, <3>1
    <3>3. rest[1].mono \notin DOMAIN mid.table
      BY <1>3, <1>7, <1>10, <3>2
    <3>4. Grown([queue |-> PushSpan(mid.queue, rest), table |-> AddToTable(mid.table, rest[1])],
                mid, rest)
      BY <1>10, <3>1, <3>3, NewEntry
    <3> QED
      BY <1>4, <1>10, <2>2, <3>4
  <2> QED
    BY <2>1, <2>2
<1>12. PartOf(first, span)
  <2> SUFFICES ASSUME NEW k \in 1..Len(first) PROVE \E l \in 1..Len(span) : first[k] = span[l]
    BY DEF PartOf
  <2>1. k \in 1..Len(span) /\ first[k] = span[k]
    BY <1>1, <1>2, <1>5
  <2> QED
    BY <2>1
<1>13. PartOf(rest, span)
  <2> SUFFICES ASSUME NEW k \in 1..Len(rest) PROVE \E l \in 1..Len(span) : rest[k] = span[l]
    BY DEF PartOf
  <2>1. found + k \in 1..Len(span) /\ rest[k] = span[found + k]
    BY <1>1, <1>2, <1>5
  <2> QED
    BY <2>1
<1>14. AddsTo(span, first, rest)
  BY <1>5 DEF AddsTo
<1> QED
  BY <1>5, <1>9, <1>11, <1>12, <1>13, <1>14, GrownTwice

(* Hash inserts a term. *)
LEMMA TermInserted ==
  ASSUME InputsFit, NEW s, SoundStore(s, reducer), Hashed, NEW t \in Terms
  PROVE  Grown(InsertTerm(s, t), s, <<t>>)
<1> DEFINE x == <<t>>
<1>1. /\ x \in TermSpans /\ Len(x) = 1 /\ x[1] = t /\ x # <<>>
      /\ \A m : Coefficient(x, m) = IF m = t.mono THEN t.coef ELSE 0
  BY SingleIs
<1>2. t.mono \in Monos /\ t.coef \in Nat
  BY TermIs
<1> HIDE DEF x
<1>3. CASE t.mono \in DOMAIN s.table
  <2> DEFINE tab == AddToTable(s.table, t)
  <2>1. tab = [s.table EXCEPT ![t.mono] = (s.table[t.mono] + t.coef) % P]
    BY <1>3 DEF AddToTable
  <2>2. InsertTerm(s, t) = [queue |-> s.queue, table |-> tab]
    BY <1>3 DEF InsertTerm
  <2> HIDE DEF tab
  <2>3. /\ s.table \in [MonosIn(s.queue) -> Coefs] /\ DOMAIN s.table = MonosIn(s.queue)
    BY HashedStore
  <2>4. \A m \in DOMAIN s.table : tab[m] = (s.table[m] + Coefficient(x, m)) % P
    <3> SUFFICES ASSUME NEW m \in DOMAIN s.table
                 PROVE  tab[m] = (s.table[m] + Coefficient(x, m)) % P
      OBVIOUS
    <3>1. CASE m = t.mono
      <4>1. tab[m] = (s.table[m] + t.coef) % P
        BY <2>1, <3>1
      <4> QED
        BY <1>1, <3>1, <4>1
    <3>2. CASE m # t.mono
      <4>1. tab[m] = s.table[m] /\ s.table[m] \in Coefs
        BY <2>1, <2>3, <3>2
      <4>2. Coefficient(x, m) = 0 /\ s.table[m] + 0 = s.table[m] /\ s.table[m] % P = s.table[m]
        BY <1>1, <3>2, <4>1, Remainders
      <4> QED
        BY <4>1, <4>2
    <3> QED
      BY <3>1, <3>2
  <2>5. tab = [m \in DOMAIN s.table |-> tab[m]]
    BY <2>1
  <2>6. Added(tab, s.table, x)
    BY <2>4, <2>5 DEF Added
  <2>7. \A k \in 1..Len(x) : x[k].mono \in DOMAIN s.table
    BY <1>1, <1>3
  <2>8. Grown([queue |-> s.queue, table |-> tab], s, x)
    BY <1>1, <2>6, <2>7, TableGrown
  <2> QED
    BY <2>2, <2>8 DEF x
<1>4. CASE t.mono \notin DOMAIN s.table
  <2>1. PushSpan(s.queue, x) = Append(s.queue, <<<<t>>>>)
    BY <1>1 DEF PushSpan, x
  <2>2. InsertTerm(s, t) = [queue |-> PushSpan(s.queue, x), table |-> AddToTable(s.table, x[1])]
    BY <1>1, <1>4, <2>1 DEF InsertTerm
  <2>3. x \in Spans /\ x[1].mono \notin DOMAIN s.table
    BY <1>1, <1>4 DEF Spans
  <2>4. Grown([queue |-> PushSpan(s.queue, x), table |-> AddToTable(s.table, x[1])], s, x)
    BY <2>3, NewEntry
  <2> QED
    BY <2>2, <2>4 DEF x
<1> QED
  BY <1>3, <1>4

(* Hash inserts the terms one by one. *)
Inserting(after, s, terms, n) ==
  after = [k \in 0..n |-> IF k = 0 THEN s ELSE InsertTerm(after[k - 1], terms[k])]

LEMMA InsertingExists ==
  ASSUME NEW s, NEW terms, NEW n \in Nat
  PROVE  \E after : Inserting(after, s, terms, n)
<1> DEFINE T == {k \in 0..n : \E after : Inserting(after, s, terms, k)}
<1>1. 0 \in T
  <2>1. Inserting([k \in 0..0 |-> s], s, terms, 0)
    BY DEF Inserting
  <2> QED
    BY <2>1
<1>2. ASSUME NEW k \in 1..n, k - 1 \in T
      PROVE  k \in T
  <2>1. PICK before : Inserting(before, s, terms, k - 1)
    BY <1>2
  <2> DEFINE after == [i \in 0..k |-> IF i = k THEN InsertTerm(before[k - 1], terms[k])
                                               ELSE before[i]]
  <2>2. \A i \in 0..(k - 1) : before[i] = IF i = 0 THEN s ELSE InsertTerm(before[i - 1], terms[i])
    BY <2>1 DEF Inserting
  <2>3. \A i \in 0..k : after[i] = IF i = 0 THEN s ELSE InsertTerm(after[i - 1], terms[i])
    <3> SUFFICES ASSUME NEW i \in 0..k
                 PROVE  after[i] = IF i = 0 THEN s ELSE InsertTerm(after[i - 1], terms[i])
      OBVIOUS
    <3>1. CASE i = k
      <4>1. k - 1 \in 0..k /\ k - 1 # k /\ i # 0
        BY <1>2, <3>1
      <4> QED
        BY <3>1, <4>1
    <3>2. CASE i \in 1..(k - 1)
      <4>1. i - 1 \in 0..k /\ i - 1 # k /\ i # k /\ i # 0 /\ i \in 0..(k - 1)
        BY <3>2
      <4> QED
        BY <2>2, <4>1
    <3>3. CASE i = 0 /\ i # k
      BY <2>2, <3>3
    <3> QED
      BY <3>1, <3>2, <3>3
  <2>4. Inserting(after, s, terms, k)
    BY <2>3 DEF Inserting
  <2> QED
    BY <2>4
<1> HIDE DEF T
<1>3. 0..n \subseteq T
  BY <1>1, <1>2, EachTurn
<1> QED
  BY <1>3 DEF T

LEMMA PrefixIs ==
  ASSUME InputsFit, NEW terms \in TermSpans, NEW k \in 1..Len(terms)
  PROVE  /\ SubSeq(terms, 1, k - 1) \in TermSpans /\ SubSeq(terms, 1, k) \in TermSpans
         /\ terms[k] \in Terms
         /\ PartOf(SubSeq(terms, 1, k - 1), SubSeq(terms, 1, k))
         /\ \E l \in 1..Len(SubSeq(terms, 1, k)) : terms[k] = SubSeq(terms, 1, k)[l]
         /\ AddsTo(SubSeq(terms, 1, k), SubSeq(terms, 1, k - 1), <<terms[k]>>)
<1> DEFINE x == SubSeq(terms, 1, k - 1)
           z == SubSeq(terms, 1, k)
           t == terms[k]
<1>0. Len(terms) \in Nat /\ k - 1 \in 0..Len(terms) /\ k \in 0..Len(terms) /\ k \in Nat /\ t \in Terms
  BY TermsAre
<1>1. x \in TermSpans /\ Len(x) = k - 1 /\ \A i \in 1..k - 1 : x[i] = terms[i]
  BY <1>0, PartsAre
<1>2. z \in TermSpans /\ Len(z) = k /\ \A i \in 1..k : z[i] = terms[i]
  BY <1>0, PartsAre
<1> HIDE DEF x, z
<1>3. z = Append(x, t)
  <2>1. x \in Seq(Terms) /\ z \in Seq(Terms)
    BY <1>1, <1>2, TermsAre
  <2>2. Append(x, t) \in Seq(Terms) /\ Len(Append(x, t)) = k
    BY <1>0, <1>1, <2>1
  <2>3. \A i \in 1..k : Append(x, t)[i] = z[i]
    <3> SUFFICES ASSUME NEW i \in 1..k PROVE Append(x, t)[i] = z[i]
      OBVIOUS
    <3>1. CASE i = k
      BY <1>0, <1>1, <1>2, <2>1, <3>1
    <3>2. CASE i # k
      <4>1. i \in 1..k - 1
        BY <1>0, <3>2
      <4> QED
        BY <1>0, <1>1, <1>2, <2>1, <4>1
    <3> QED
      BY <3>1, <3>2
  <2> QED
    BY <1>2, <2>1, <2>2, <2>3
<1>4. x # <<>> => t.mono < Last(x).mono
  <2> SUFFICES ASSUME x # <<>> PROVE t.mono < Last(x).mono
    OBVIOUS
  <2>1. k - 1 \in 1..k - 1
    <3>1. 1 \in 1..Len(x)
      BY <1>1, TailIs
    <3> QED
      BY <1>0, <1>1, <3>1
  <2>2. Last(x) = terms[k - 1]
    BY <1>1, <2>1 DEF Last
  <2>3. k - 1 \in 1..Len(terms) /\ k - 1 < k
    BY <1>0, <2>1
  <2> QED
    BY <2>2, <2>3, TermsAre
<1>5. /\ \A m : Coefficient(z, m) = IF m = t.mono THEN t.coef ELSE Coefficient(x, m)
      /\ Coefficient(x, t.mono) = 0
  BY <1>0, <1>1, <1>3, <1>4, AppendIs
<1>6. ASSUME NEW m \in Monos
      PROVE  Coefficient(z, m) = Coefficient(x, m) + Coefficient(<<t>>, m)
  <2>1. Coefficient(<<t>>, m) = IF m = t.mono THEN t.coef ELSE 0
    BY <1>0, SingleIs
  <2>2. Coefficient(x, m) \in Nat /\ t.coef \in Nat
    BY <1>0, <1>1, CoefficientType, TermIs
  <2> QED
    BY <1>5, <2>1, <2>2
<1>7. PartOf(x, z)
  BY <1>0, <1>1, <1>2 DEF PartOf
<1>8. \E l \in 1..Len(z) : t = z[l]
  BY <1>0, <1>2
<1> QED
  BY <1>0, <1>1, <1>2, <1>6, <1>7, <1>8 DEF x, z, AddsTo

LEMMA TermsInserted ==
  ASSUME InputsFit, NEW s, SoundStore(s, reducer), Hashed, NEW terms \in TermSpans
  PROVE  Grown(InsertTerms(s, terms), s, terms)
<1> DEFINE n == Len(terms)
           after == CHOOSE a : a = [k \in 0..n |-> IF k = 0 THEN s
                                                   ELSE InsertTerm(a[k - 1], terms[k])]
<1>1. n \in Nat /\ terms \in Seq(Terms)
  BY TermsAre
<1>2. \E a : a = [k \in 0..n |-> IF k = 0 THEN s ELSE InsertTerm(a[k - 1], terms[k])]
  <2>1. PICK a : Inserting(a, s, terms, n)
    BY <1>1, InsertingExists
  <2> QED
    BY <2>1 DEF Inserting
<1>3. after = [k \in 0..n |-> IF k = 0 THEN s ELSE InsertTerm(after[k - 1], terms[k])]
  BY <1>2, Zenon
<1>4. InsertTerms(s, terms) = after[n]
  BY DEF InsertTerms
<1> HIDE DEF after
<1>5. after[0] = s /\ \A k \in 1..n : after[k] = InsertTerm(after[k - 1], terms[k])
  <2>1. Inserting(after, s, terms, n)
    BY <1>3 DEF Inserting
  <2>2. after[0] = s
    BY <1>1, <2>1 DEF Inserting
  <2>3. ASSUME NEW k \in 1..n PROVE after[k] = InsertTerm(after[k - 1], terms[k])
    <3>1. k \in 0..n /\ k # 0
      OBVIOUS
    <3> QED
      BY <2>1, <3>1 DEF Inserting
  <2> QED
    BY <2>2, <2>3
<1> DEFINE T == {k \in 0..n : Grown(after[k], s, SubSeq(terms, 1, k))}
<1>6. 0 \in T
  <2>1. SubSeq(terms, 1, 0) = <<>>
    BY <1>1
  <2> QED
    <3>1. Grown(s, s, <<>>)
      BY GrownByNothing
    <3>2. Grown(after[0], s, SubSeq(terms, 1, 0))
      BY <1>5, <2>1, <3>1
    <3> QED
      BY <1>1, <3>2
<1>7. ASSUME NEW k \in 1..n, k - 1 \in T
      PROVE  k \in T
  <2> DEFINE x == SubSeq(terms, 1, k - 1)
             z == SubSeq(terms, 1, k)
             y == <<terms[k]>>
  <2>1. Grown(after[k - 1], s, x) /\ SoundStore(after[k - 1], reducer)
    BY <1>7 DEF Grown
  <2>2. /\ x \in TermSpans /\ z \in TermSpans /\ terms[k] \in Terms
        /\ PartOf(x, z)
        /\ \E l \in 1..Len(z) : terms[k] = z[l]
        /\ AddsTo(z, x, y)
    BY PrefixIs
  <2> HIDE DEF x, z
  <2>3. Grown(InsertTerm(after[k - 1], terms[k]), after[k - 1], y)
    BY <2>1, <2>2, TermInserted
  <2>4. Grown(after[k], after[k - 1], y)
    BY <1>5, <2>3
  <2>5. y \in TermSpans /\ Len(y) = 1 /\ y[1] = terms[k]
    BY <2>2, SingleIs
  <2> HIDE DEF y
  <2>6. PartOf(y, z)
    BY <2>2, <2>5 DEF PartOf
  <2>7. Grown(after[k], s, z)
    BY <2>1, <2>2, <2>4, <2>5, <2>6, GrownTwice
  <2> QED
    BY <2>7 DEF z
<1> HIDE DEF T
<1>8. 0..n \subseteq T
  BY <1>1, <1>6, <1>7, EachTurn
<1>9. Grown(after[n], s, SubSeq(terms, 1, n))
  BY <1>1, <1>8 DEF T
<1>10. SubSeq(terms, 1, n) = terms
  BY <1>1
<1> QED
  BY <1>4, <1>9, <1>10

(* The entries of NoDedup and Dedup *)
Singles(terms) == [i \in DOMAIN terms |-> <<<<terms[i]>>>>]
Single(entry) == Len(entry) = 1 /\ Len(entry[1]) = 1

LEMMA SingleEntry ==
  ASSUME InputsFit, NEW t \in Terms
  PROVE  /\ <<<<t>>>> \in Chains /\ Current(<<<<t>>>>) = t /\ Single(<<<<t>>>>)
         /\ \A m \in Monos : Chained(<<<<t>>>>, FALSE, m) = IF m = t.mono THEN t.coef ELSE 0
<1> DEFINE x == <<t>>
<1>1. /\ x \in Spans /\ Len(x) = 1 /\ x[1] = t
      /\ \A m : Coefficient(x, m) = IF m = t.mono THEN t.coef ELSE 0
  BY SingleIs DEF Spans
<1> HIDE DEF x
<1>2. <<x>> \in Chains /\ Current(<<x>>) = t
  BY <1>1, SingleChain
<1>3. Single(<<x>>)
  BY <1>1 DEF Single
<1>4. \A m \in Monos : Chained(<<x>>, FALSE, m) = Coefficient(Rest(x, FALSE), m)
  BY <1>1, ChainedOfOne
<1>5. Rest(x, FALSE) = x
  BY DEF Rest
<1> QED
  BY <1>1, <1>2, <1>3, <1>4, <1>5 DEF x

LEMMA SinglesAre ==
  ASSUME InputsFit, NEW terms \in TermSpans
  PROVE  /\ Singles(terms) \in Seq(Chains) /\ Len(Singles(terms)) = Len(terms)
         /\ \A i \in 1..Len(terms) : /\ Current(Singles(terms)[i]) = terms[i]
                                     /\ Single(Singles(terms)[i])
         /\ \A m \in Monos : Queued(Singles(terms), FALSE, m) = Coefficient(terms, m)
<1> DEFINE r == Singles(terms)
           n == Len(terms)
<1>1. n \in Nat /\ DOMAIN terms = 1..n /\ \A i \in 1..n : terms[i] \in Terms
  BY TermsAre
<1>2. r = [i \in 1..n |-> r[i]] /\ \A i \in 1..n : r[i] = <<<<terms[i]>>>>
  BY <1>1 DEF Singles
<1>3. \A i \in 1..n : /\ r[i] \in Chains /\ Current(r[i]) = terms[i] /\ Single(r[i])
                      /\ \A m \in Monos : Chained(r[i], FALSE, m)
                                            = IF m = terms[i].mono THEN terms[i].coef ELSE 0
  <2> SUFFICES ASSUME NEW i \in 1..n
               PROVE  /\ r[i] \in Chains /\ Current(r[i]) = terms[i] /\ Single(r[i])
                      /\ \A m \in Monos : Chained(r[i], FALSE, m)
                                            = IF m = terms[i].mono THEN terms[i].coef ELSE 0
    OBVIOUS
  <2> DEFINE t == terms[i]
  <2>1. t \in Terms /\ r[i] = <<<<t>>>>
    BY <1>1, <1>2
  <2> HIDE DEF t, r
  <2> DEFINE c == <<<<t>>>>
  <2>2. /\ c \in Chains /\ Current(c) = t /\ Single(c)
        /\ \A m \in Monos : Chained(c, FALSE, m) = IF m = t.mono THEN t.coef ELSE 0
    BY <2>1, SingleEntry
  <2>3. r[i] = c
    BY <2>1
  <2> HIDE DEF c
  <2> QED
    BY <2>2, <2>3 DEF t
<1> HIDE DEF r
<1>4. r \in Seq(Chains) /\ Len(r) = n
  <2>1. r \in [1..n -> Chains]
    BY <1>2, <1>3
  <2> QED
    BY <1>1, <2>1
<1>5. ASSUME NEW m \in Monos
      PROVE  Queued(r, FALSE, m) = Coefficient(terms, m)
  <2> DEFINE f == InQueue(r, FALSE, m)
             g == [i \in 1..n |-> 0]
  <2>1. /\ Queued(r, FALSE, m) = Total(f, n) /\ Numbers(f, n)
        /\ \A i \in 1..n : f[i] = Chained(r[i], FALSE, m)
    BY <1>4, QueueIs
  <2>2. \A i \in 1..n : f[i] = IF m = terms[i].mono THEN terms[i].coef ELSE 0
    BY <1>3, <2>1
  <2> HIDE DEF f
  <2>3. CASE \A i \in 1..n : terms[i].mono # m
    <3>1. Coefficient(terms, m) = 0
      BY <1>1, <2>3, CoefficientNone
    <3>2. \A i \in 1..n : f[i] = 0
      BY <2>2, <2>3
    <3>3. Total(f, n) = 0
      BY <1>1, <3>2, TotalOfZeros
    <3> QED
      BY <2>1, <3>1, <3>3
  <2>4. CASE \E i \in 1..n : terms[i].mono = m
    <3>1. PICK i \in 1..n : terms[i].mono = m
      BY <2>4
    <3>2. Coefficient(terms, m) = terms[i].coef /\ terms[i].coef \in Nat
      BY <3>1, CoefficientAt, TermsAre
    <3>3. f[i] = terms[i].coef
      BY <2>2, <3>1
    <3>4. \A k \in 1..n : k # i => g[k] = f[k]
      <4> SUFFICES ASSUME NEW k \in 1..n, k # i PROVE f[k] = 0
        OBVIOUS
      <4>1. terms[k].mono # m
        BY <3>1, TermsAre
      <4> QED
        BY <2>2, <4>1
    <3>5. g[i] = 0 /\ \A k \in 1..n : g[k] = 0
      OBVIOUS
    <3> HIDE DEF g
    <3>6. Total(f, n) + g[i] = Total(g, n) + f[i]
      BY <1>1, <2>1, <3>4, <3>5, TotalChanged
    <3>7. Total(g, n) = 0 /\ Total(f, n) \in Nat
      BY <1>1, <2>1, <3>5, TotalOfZeros, TotalTurns
    <3>8. Total(f, n) = Total(f, n) + 0 /\ 0 + f[i] = f[i]
      BY <3>2, <3>3, <3>7
    <3> QED
      BY <2>1, <3>2, <3>3, <3>5, <3>6, <3>7, <3>8
  <2> QED
    BY <2>3, <2>4
<1> QED
  BY <1>3, <1>4, <1>5 DEF r

(* The reducers without a hash table *)
LEMMA PlainStore ==
  ASSUME ~Hashed, NEW s, SoundStore(s, reducer)
  PROVE  /\ s.queue \in Seq(Chains) /\ s.table = <<>> /\ IsStore(s)
         /\ reducer = "Dedup" => \A i \in DOMAIN s.queue : Single(s.queue[i])
BY DEF SoundStore, Hashed, Single

LEMMA QueueGrown ==
  ASSUME InputsFit, ~Hashed, NEW s, SoundStore(s, reducer), NEW q \in Seq(Chains),
         reducer = "Dedup" => \A i \in DOMAIN q : Single(q[i]), NEW x \in TermSpans,
         \A m \in Monos : Same(Queued(q, FALSE, m), Queued(s.queue, FALSE, m) + Coefficient(x, m)),
         \A b \in Nat : QueueBelow(s.queue, b) /\ (\A k \in 1..Len(x) : x[k].mono < b)
                          => QueueBelow(q, b)
  PROVE  Grown([s EXCEPT !.queue = q], s, x)
<1> DEFINE new == [s EXCEPT !.queue = q]
<1>1. s.table = <<>> /\ IsStore(s)
  BY PlainStore
<1>2. new.queue = q /\ new.table = <<>> /\ IsStore(new)
  BY <1>1 DEF IsStore
<1> HIDE DEF new
<1>3. SoundStore(new, reducer)
  BY <1>2 DEF SoundStore, Hashed, Single
<1>4. ASSUME NEW m \in Monos
      PROVE  Same(StoreSum(new, Hashed, m), StoreSum(s, Hashed, m) + Coefficient(x, m))
  <2>1. Stored(s.table, m) = 0 /\ Stored(new.table, m) = 0 /\ Hashed = FALSE
    BY <1>3, HashedType, StoreSumType
  <2>2. Queued(new.queue, Hashed, m) \in Nat /\ Queued(s.queue, Hashed, m) \in Nat
    BY <1>3, StoreSumType
  <2>3. StoreSum(new, Hashed, m) = Queued(q, FALSE, m) + 0 /\ Queued(q, FALSE, m) \in Nat
    BY <1>2, <2>1, <2>2 DEF StoreSum
  <2>4. StoreSum(s, Hashed, m) = Queued(s.queue, FALSE, m) + 0 /\ Queued(s.queue, FALSE, m) \in Nat
    BY <2>1, <2>2 DEF StoreSum
  <2>5. /\ StoreSum(new, Hashed, m) = Queued(q, FALSE, m)
        /\ StoreSum(s, Hashed, m) = Queued(s.queue, FALSE, m)
    <3>1. \A a \in Nat : a + 0 = a
      OBVIOUS
    <3>2. Queued(q, FALSE, m) + 0 = Queued(q, FALSE, m)
      BY <2>3, <3>1
    <3>3. Queued(s.queue, FALSE, m) + 0 = Queued(s.queue, FALSE, m)
      BY <2>4, <3>1
    <3> QED
      BY <2>3, <2>4, <3>2, <3>3
  <2> QED
    BY <2>5
<1> QED
  BY <1>2, <1>3, <1>4 DEF Grown, new

(* A span, or nothing when it has no term left, is pushed. *)
LEMMA PushedIs ==
  ASSUME InputsFit, NEW q \in Seq(Chains), NEW terms \in TermSpans
  PROVE  /\ PushSpan(q, terms) \in Seq(Chains)
         /\ \A m \in Monos : /\ Queued(q, FALSE, m) \in Nat
                              /\ Queued(PushSpan(q, terms), FALSE, m)
                                   = Queued(q, FALSE, m) + Coefficient(terms, m)
         /\ \A b \in Nat : QueueBelow(q, b) /\ (\A k \in 1..Len(terms) : terms[k].mono < b)
                             => QueueBelow(PushSpan(q, terms), b)
<1> DEFINE p == PushSpan(q, terms)
<1>1. \A m \in Monos : Queued(q, FALSE, m) \in Nat /\ Coefficient(terms, m) \in Nat
  BY QueueIs, CoefficientType
<1>2. CASE terms = <<>>
  <2>1. p = q
    BY <1>2 DEF PushSpan
  <2>2. \A a \in Nat : a + 0 = a
    OBVIOUS
  <2>3. \A m \in Monos : Queued(q, FALSE, m) = Queued(q, FALSE, m) + Coefficient(terms, m)
    BY <1>1, <1>2, <2>2, CoefficientOfNothing
  <2> QED
    BY <1>1, <2>1, <2>3
<1>3. CASE terms # <<>>
  <2>1. /\ p \in Seq(Chains) /\ DOMAIN p = 1..Len(q) + 1
        /\ \A k \in 1..Len(q) : p[k] = q[k]
        /\ p[Len(q) + 1] = <<terms>>
        /\ \A m \in Monos : Queued(p, FALSE, m) = Queued(q, FALSE, m)
                                                    + Coefficient(Rest(terms, FALSE), m)
    BY <1>3, PushSpanIs
  <2> HIDE DEF p
  <2>2. Rest(terms, FALSE) = terms
    BY DEF Rest
  <2>3. ASSUME NEW b \in Nat, QueueBelow(q, b), \A k \in 1..Len(terms) : terms[k].mono < b
        PROVE  QueueBelow(p, b)
    <3>1. Current(<<terms>>).mono < b
      <4>1. 1 \in 1..Len(terms) /\ Current(<<terms>>) = terms[1]
        BY <1>3, TailIs DEF Current, Span
      <4> QED
        BY <2>3, <4>1
    <3>2. \A k \in 1..Len(q) : Current(q[k]).mono < b
      BY <2>3 DEF QueueBelow
    <3>3. \A k \in DOMAIN p : k \in 1..Len(q) \/ k = Len(q) + 1
      BY <2>1
    <3> QED
      BY <2>1, <3>1, <3>2, <3>3 DEF QueueBelow
  <2> QED
    BY <1>1, <2>1, <2>2, <2>3 DEF p
<1> QED
  BY <1>2, <1>3

(* Pack and PackDedup *)
LEMMA SpanPushed ==
  ASSUME InputsFit, ~Hashed, reducer # "Dedup", NEW s, SoundStore(s, reducer),
         NEW terms \in TermSpans
  PROVE  Grown([s EXCEPT !.queue = PushSpan(s.queue, terms)], s, terms)
<1> DEFINE q == PushSpan(s.queue, terms)
<1>1. s.queue \in Seq(Chains)
  BY PlainStore
<1>2. /\ q \in Seq(Chains)
      /\ \A m \in Monos : Queued(q, FALSE, m) = Queued(s.queue, FALSE, m) + Coefficient(terms, m)
      /\ \A b \in Nat : QueueBelow(s.queue, b) /\ (\A k \in 1..Len(terms) : terms[k].mono < b)
                          => QueueBelow(q, b)
  BY <1>1, PushedIs
<1> HIDE DEF q
<1>3. \A m \in Monos : Same(Queued(q, FALSE, m), Queued(s.queue, FALSE, m) + Coefficient(terms, m))
  BY <1>2 DEF Same
<1>4. Grown([s EXCEPT !.queue = q], s, terms)
  BY <1>2, <1>3, QueueGrown
<1> QED
  BY <1>4 DEF q

(* NoDedup and Dedup *)
LEMMA SinglesAppended ==
  ASSUME InputsFit, ~Hashed, NEW s, SoundStore(s, reducer), NEW terms \in TermSpans
  PROVE  Grown([s EXCEPT !.queue = s.queue \o Singles(terms)], s, terms)
<1> DEFINE r == Singles(terms)
           q == s.queue \o r
<1>1. /\ s.queue \in Seq(Chains)
      /\ reducer = "Dedup" => \A i \in DOMAIN s.queue : Single(s.queue[i])
  BY PlainStore
<1>2. /\ r \in Seq(Chains) /\ Len(r) = Len(terms)
      /\ \A i \in 1..Len(terms) : Current(r[i]) = terms[i] /\ Single(r[i])
      /\ \A m \in Monos : Queued(r, FALSE, m) = Coefficient(terms, m)
  BY SinglesAre
<1> HIDE DEF r
<1>3. /\ q \in Seq(Chains) /\ Len(q) = Len(s.queue) + Len(r)
      /\ \A k \in 1..Len(s.queue) : q[k] = s.queue[k]
      /\ \A k \in 1..Len(r) : q[Len(s.queue) + k] = r[k]
  <2> DEFINE a == s.queue
  <2>1. a \in Seq(Chains) /\ r \in Seq(Chains)
    BY <1>1, <1>2
  <2> HIDE DEF a
  <2>2. /\ a \o r \in Seq(Chains) /\ Len(a \o r) = Len(a) + Len(r)
        /\ \A k \in 1..Len(a) : (a \o r)[k] = a[k]
        /\ \A k \in 1..Len(r) : (a \o r)[Len(a) + k] = r[k]
    BY <2>1
  <2> QED
    BY <2>2 DEF a
<1>4. \A m \in Monos : Queued(q, FALSE, m) = Queued(s.queue, FALSE, m) + Queued(r, FALSE, m)
  BY <1>1, <1>2, QueuedTogether
<1> HIDE DEF q
<1>5. \A m \in Monos : Same(Queued(q, FALSE, m), Queued(s.queue, FALSE, m) + Coefficient(terms, m))
  BY <1>2, <1>4 DEF Same
<1>6. Len(s.queue) \in Nat /\ Len(r) \in Nat /\ DOMAIN s.queue = 1..Len(s.queue)
      /\ DOMAIN q = 1..Len(s.queue) + Len(r)
  BY <1>1, <1>2, <1>3
<1>7. \A k \in DOMAIN q : \/ k \in 1..Len(s.queue) /\ q[k] = s.queue[k]
                          \/ \E i \in 1..Len(r) : q[k] = r[i]
  <2> SUFFICES ASSUME NEW k \in 1..Len(s.queue) + Len(r)
               PROVE  \/ k \in 1..Len(s.queue) /\ q[k] = s.queue[k]
                      \/ \E i \in 1..Len(r) : q[k] = r[i]
    BY <1>6
  <2>1. CASE k \in 1..Len(s.queue)
    BY <1>3, <2>1
  <2>2. CASE k \notin 1..Len(s.queue)
    <3>1. k - Len(s.queue) \in 1..Len(r) /\ Len(s.queue) + (k - Len(s.queue)) = k
      BY <1>6, <2>2
    <3> QED
      BY <1>3, <3>1
  <2> QED
    BY <2>1, <2>2
<1>8. reducer = "Dedup" => \A i \in DOMAIN q : Single(q[i])
  BY <1>1, <1>2, <1>6, <1>7
<1>9. \A b \in Nat : QueueBelow(s.queue, b) /\ (\A k \in 1..Len(terms) : terms[k].mono < b)
                       => QueueBelow(q, b)
  BY <1>2, <1>6, <1>7 DEF QueueBelow
<1>10. Grown([s EXCEPT !.queue = q], s, terms)
  BY <1>3, <1>5, <1>8, <1>9, QueueGrown
<1> QED
  BY <1>10 DEF q, r

(* Every reducer adds the terms that it inserts. *)
LEMMA Inserted ==
  ASSUME InputsFit, reducer \in Kinds, NEW s, SoundStore(s, reducer), NEW terms \in TermSpans
  PROVE  Grown(Insert(s, terms), s, terms)
<1>1. CASE reducer = "HashPack"
  <2>1. Hashed /\ Insert(s, terms) = InsertEntry(s, terms)
    BY <1>1 DEF Hashed, Insert
  <2> QED
    BY <2>1, EntryInserted
<1>2. CASE reducer = "Hash"
  <2>1. Hashed /\ Insert(s, terms) = InsertTerms(s, terms)
    BY <1>2 DEF Hashed, Insert
  <2> QED
    BY <2>1, TermsInserted
<1>3. CASE reducer \in {"Pack", "PackDedup"}
  <2>1. ~Hashed /\ reducer # "Dedup" /\ reducer # "HashPack" /\ reducer # "Hash"
    BY <1>3 DEF Hashed
  <2>2. Insert(s, terms) = [s EXCEPT !.queue = PushSpan(s.queue, terms)]
    BY <1>3, <2>1 DEF Insert
  <2> QED
    BY <2>1, <2>2, SpanPushed
<1>4. CASE reducer \in {"NoDedup", "Dedup"}
  <2>1. ~Hashed /\ reducer # "HashPack" /\ reducer # "Hash" /\ reducer \notin {"Pack", "PackDedup"}
    BY <1>4 DEF Hashed
  <2>2. Insert(s, terms) = [s EXCEPT !.queue = s.queue \o Singles(terms)]
    BY <2>1 DEF Insert, Singles
  <2> QED
    BY <2>1, <2>2, SinglesAppended
<1> QED
  BY <1>1, <1>2, <1>3, <1>4 DEF Kinds

(* The entries that are left when one of them is removed *)
LEMMA EntriesLeft ==
  ASSUME InputsFit, NEW q \in Seq(Chains), NEW i \in 1..Len(q)
  PROVE  /\ RemoveAt(q, i) \in Seq(Chains) /\ DOMAIN RemoveAt(q, i) = 1..Len(q) - 1
         /\ DOMAIN q = 1..Len(q)
         /\ \A k \in 1..Len(q) - 1 : \E j \in 1..Len(q) : j # i /\ RemoveAt(q, i)[k] = q[j]
         /\ \A j \in 1..Len(q) : j # i => \E k \in 1..Len(q) - 1 : RemoveAt(q, i)[k] = q[j]
         /\ \A b : QueueBelow(q, b) => QueueBelow(RemoveAt(q, i), b)
<1> DEFINE r == RemoveAt(q, i)
           n == Len(q)
<1>1. /\ r \in Seq(Chains) /\ n \in Nat /\ DOMAIN r = 1..n - 1 /\ DOMAIN q = 1..n
      /\ \A k \in 1..n - 1 : r[k] = IF k < i THEN q[k] ELSE q[k + 1]
  <2>1. DOMAIN q = 1..n /\ n \in Nat
    OBVIOUS
  <2>2. /\ r \in Seq(Chains) /\ DOMAIN r = 1..n - 1
        /\ \A k \in 1..n - 1 : r[k] = IF k < i THEN q[k] ELSE q[k + 1]
    BY RemoveAtIs
  <2> QED
    BY <2>1, <2>2
<1> HIDE DEF r
<1>2. \A k \in 1..n - 1 : \E j \in 1..n : j # i /\ r[k] = q[j]
  <2> SUFFICES ASSUME NEW k \in 1..n - 1
               PROVE  \E j \in 1..n : j # i /\ r[k] = q[j]
    OBVIOUS
  <2>1. k \in 1..n /\ k + 1 \in 1..n /\ (k < i => k # i) /\ (~(k < i) => k + 1 # i)
    BY <1>1
  <2> QED
    BY <1>1, <2>1
<1>3. \A j \in 1..n : j # i => \E k \in 1..n - 1 : r[k] = q[j]
  <2> SUFFICES ASSUME NEW j \in 1..n, j # i
               PROVE  \E k \in 1..n - 1 : r[k] = q[j]
    OBVIOUS
  <2>1. CASE j < i
    <3>1. j \in 1..n - 1
      BY <1>1, <2>1
    <3> QED
      BY <1>1, <2>1, <3>1
  <2>2. CASE ~(j < i)
    <3>1. j - 1 \in 1..n - 1 /\ ~(j - 1 < i) /\ (j - 1) + 1 = j
      BY <1>1, <2>2
    <3> QED
      BY <1>1, <3>1
  <2> QED
    BY <2>1, <2>2
<1>4. \A b : QueueBelow(q, b) => QueueBelow(r, b)
  BY <1>1, <1>2 DEF QueueBelow
<1> QED
  BY <1>1, <1>2, <1>3, <1>4 DEF r

LEMMA DistinctLeft ==
  ASSUME InputsFit, NEW q \in Seq(Chains), NEW i \in 1..Len(q), Distinct(q)
  PROVE  /\ Distinct(RemoveAt(q, i))
         /\ MonosIn(RemoveAt(q, i)) = MonosIn(q) \ {Current(q[i]).mono}
<1> DEFINE r == RemoveAt(q, i)
           n == Len(q)
<1>1. /\ r \in Seq(Chains) /\ n \in Nat /\ Len(r) = n - 1 /\ DOMAIN r = 1..n - 1 /\ DOMAIN q = 1..n
      /\ \A k \in 1..n - 1 : r[k] = IF k < i THEN q[k] ELSE q[k + 1]
  BY RemoveAtIs
<1>2. /\ \A k \in 1..n - 1 : \E j \in 1..n : j # i /\ r[k] = q[j]
      /\ \A j \in 1..n : j # i => \E k \in 1..n - 1 : r[k] = q[j]
  BY EntriesLeft
<1> HIDE DEF r
<1>3. \A k \in 1..n : /\ Len(q[k]) = 1
                      /\ \A j \in 1..n : Current(q[k]).mono = Current(q[j]).mono => k = j
  BY <1>1 DEF Distinct
<1>4. Distinct(r)
  <2> SUFFICES ASSUME NEW k \in 1..n - 1
               PROVE  /\ Len(r[k]) = 1
                      /\ \A j \in 1..n - 1 : Current(r[k]).mono = Current(r[j]).mono => k = j
    BY <1>1 DEF Distinct
  <2>1. Len(r[k]) = 1
    <3>1. PICK j \in 1..n : r[k] = q[j]
      BY <1>2
    <3>2. Len(q[j]) = 1
      BY <1>3
    <3> QED
      BY <3>1, <3>2
  <2>2. ASSUME NEW j \in 1..n - 1, Current(r[k]).mono = Current(r[j]).mono
        PROVE  k = j
    <3> DEFINE a == IF k < i THEN k ELSE k + 1
               b == IF j < i THEN j ELSE j + 1
    <3>1. a \in 1..n /\ b \in 1..n
      BY <1>1
    <3>2. r[k] = q[a] /\ r[j] = q[b]
      BY <1>1
    <3>3. a = b => k = j
      BY <1>1
    <3> HIDE DEF a, b
    <3> QED
      BY <1>3, <2>2, <3>1, <3>2, <3>3
  <2> QED
    BY <2>1, <2>2
<1>5. MonosIn(r) = MonosIn(q) \ {Current(q[i]).mono}
  <2>1. ASSUME NEW m \in MonosIn(r)
        PROVE  m \in MonosIn(q) /\ m # Current(q[i]).mono
    <3>1. PICK k \in 1..n - 1 : m = Current(r[k]).mono
      BY <1>1 DEF MonosIn
    <3>2. PICK j \in 1..n : j # i /\ r[k] = q[j]
      BY <1>2
    <3>3. m = Current(q[j]).mono
      BY <3>1, <3>2
    <3> QED
      BY <1>1, <1>3, <3>2, <3>3 DEF MonosIn
  <2>2. ASSUME NEW m \in MonosIn(q), m # Current(q[i]).mono
        PROVE  m \in MonosIn(r)
    <3>1. PICK j \in 1..n : m = Current(q[j]).mono
      BY <1>1 DEF MonosIn
    <3>2. PICK k \in 1..n - 1 : r[k] = q[j]
      BY <1>2, <2>2, <3>1
    <3>3. m = Current(r[k]).mono
      BY <3>1, <3>2
    <3> QED
      BY <1>1, <3>3 DEF MonosIn
  <2> QED
    BY <2>1, <2>2
<1> QED
  BY <1>4, <1>5 DEF r

(* A top entry is one of the largest. *)
LEMMA TopIs ==
  ASSUME InputsFit, NEW q \in Seq(Chains), NEW i \in Tops(q)
  PROVE  /\ i \in 1..Len(q) /\ q[i] \in Chains
         /\ Current(q[i]).mono \in Monos /\ Current(q[i]).mono \in Nat
         /\ QueueBelow(q, Current(q[i]).mono + 1)
<1>1. i \in 1..Len(q) /\ Current(q[i]).mono = Max(MonosIn(q)) /\ DOMAIN q = 1..Len(q)
  BY DEF Tops
<1>2. q[i] \in Chains /\ Current(q[i]).mono \in Monos /\ Current(q[i]).mono \in Nat
  <2>1. q[i] \in Chains
    BY <1>1
  <2> QED
    BY <2>1, ChainIs
<1>3. Degree \in Nat /\ MonosIn(q) \in SUBSET (0..Degree) /\ MonosIn(q) # {}
  BY <1>1, MonosInIs DEF Monos, InputsFit
<1>4. \A m \in MonosIn(q) : m <= Max(MonosIn(q))
  BY <1>3, MaxIs
<1>5. \A k \in 1..Len(q) : Current(q[k]).mono < Current(q[i]).mono + 1
  <2> SUFFICES ASSUME NEW k \in 1..Len(q)
               PROVE  Current(q[k]).mono < Current(q[i]).mono + 1
    OBVIOUS
  <2>1. Current(q[k]).mono \in MonosIn(q) /\ Current(q[k]).mono \in Nat
    <3>1. q[k] \in Chains
      OBVIOUS
    <3> QED
      BY <3>1, ChainIs, MonosInIs
  <2>2. Current(q[k]).mono <= Current(q[i]).mono
    BY <1>1, <1>4, <2>1
  <2> QED
    BY <1>2, <2>1, <2>2
<1> QED
  BY <1>1, <1>2, <1>5 DEF QueueBelow

LEMMA NoTopLike ==
  ASSUME InputsFit, NEW q \in Seq(Chains), NEW m \in Nat, QueueBelow(q, m + 1),
         \A i \in Tops(q) : Current(q[i]).mono # m
  PROVE  QueueBelow(q, m)
<1> SUFFICES ASSUME NEW i \in 1..Len(q), ~(Current(q[i]).mono < m)
             PROVE  FALSE
  BY DEF QueueBelow
<1>1. \A k \in 1..Len(q) : Current(q[k]).mono \in Nat /\ Current(q[k]).mono <= m
  <2> SUFFICES ASSUME NEW k \in 1..Len(q)
               PROVE  Current(q[k]).mono \in Nat /\ Current(q[k]).mono <= m
    OBVIOUS
  <2>1. q[k] \in Chains /\ Current(q[k]).mono < m + 1
    BY DEF QueueBelow
  <2>2. Current(q[k]).mono \in Nat
    BY <2>1, ChainIs
  <2> QED
    BY <2>1, <2>2
<1>2. Current(q[i]).mono = m
  BY <1>1
<1>3. Degree \in Nat /\ MonosIn(q) \in SUBSET (0..Degree) /\ MonosIn(q) # {}
  BY MonosInIs DEF Monos, InputsFit
<1>4. Max(MonosIn(q)) \in MonosIn(q) /\ \A x \in MonosIn(q) : x <= Max(MonosIn(q))
  BY <1>3, MaxIs
<1>5. PICK k \in 1..Len(q) : Max(MonosIn(q)) = Current(q[k]).mono
  BY <1>4, MonosInIs
<1>6. m <= Max(MonosIn(q)) /\ Max(MonosIn(q)) <= m /\ Max(MonosIn(q)) \in Nat
  BY <1>1, <1>2, <1>4, <1>5, MonosInIs
<1>7. i \in Tops(q)
  BY <1>2, <1>6 DEF Tops
<1> QED
  BY <1>2, <1>7

(* The top of a hashed reducer goes with what the table has of it. *)
MonoOf(entry, m0) == m0 = Current(entry).mono
Removed(r, s, i) ==
  r = [queue |-> RemoveAt(s.queue, i),
       table |-> Restrict(s.table, DOMAIN s.table \ {Current(s.queue[i]).mono})]

(* Without its top, which goes on with x, the store s is r. *)
TopTaken(s, r, x, m0) ==
  /\ SoundStore(r, reducer) /\ QueueBelow(r.queue, m0) /\ x \in TermSpans
  /\ \A k \in 1..Len(x) : x[k].mono < m0
  /\ \A m \in Monos : m # m0 => StoreSum(s, Hashed, m) = StoreSum(r, Hashed, m) + Coefficient(x, m)
  /\ StoreSum(s, Hashed, m0) = s.table[m0] /\ s.table[m0] \in Coefs
  /\ \A m \in Monos : m > m0 => StoreSum(s, Hashed, m) = 0

LEMMA EntryTaken ==
  ASSUME InputsFit, Hashed, NEW s, SoundStore(s, reducer), NEW i \in Tops(s.queue),
         NEW m0, MonoOf(s.queue[i], m0), NEW r, Removed(r, s, i)
  PROVE  TopTaken(s, r, Tail(Span(s.queue[i])), m0)
<1> DEFINE q == s.queue
           n == Len(q)
           rq == RemoveAt(q, i)
           rt == Restrict(s.table, DOMAIN s.table \ {m0})
           x == Tail(Span(q[i]))
<1>0. m0 = Current(q[i]).mono
  BY DEF MonoOf
<1>1. /\ q \in Seq(Chains) /\ s.table \in [MonosIn(q) -> Coefs] /\ Distinct(q)
      /\ DOMAIN s.table = MonosIn(q) /\ DOMAIN s.table \subseteq Monos /\ DOMAIN q = 1..n
  BY HashedStore
<1>2. i \in 1..n /\ q[i] \in Chains /\ m0 \in Monos /\ m0 \in Nat /\ QueueBelow(q, m0 + 1)
  BY <1>0, <1>1, TopIs
<1>3. /\ rq \in Seq(Chains) /\ DOMAIN rq = 1..n - 1
      /\ \A k \in 1..n - 1 : \E j \in 1..n : j # i /\ rq[k] = q[j]
      /\ Distinct(rq) /\ MonosIn(rq) = MonosIn(q) \ {m0}
  BY <1>0, <1>1, <1>2, EntriesLeft, DistinctLeft
<1>4. r.queue = rq /\ r.table = rt /\ r = [queue |-> rq, table |-> rt]
  BY <1>0 DEF Removed
<1>5. rt = [m \in MonosIn(q) \ {m0} |-> s.table[m]]
  BY <1>1 DEF Restrict
<1> HIDE DEF rq, rt
<1>6. rt \in [MonosIn(rq) -> Coefs]
  BY <1>1, <1>3, <1>5
<1>7. SoundStore(r, reducer)
  BY <1>3, <1>4, <1>6, HashedSound
<1>8. QueueBelow(rq, m0)
  <2> SUFFICES ASSUME NEW k \in 1..n - 1
               PROVE  Current(rq[k]).mono < m0
    BY <1>3 DEF QueueBelow
  <2>1. PICK j \in 1..n : j # i /\ rq[k] = q[j]
    BY <1>3
  <2>2. Current(q[j]).mono < m0 + 1 /\ Current(q[j]).mono # m0
    BY <1>0, <1>1, <1>2, <2>1 DEF QueueBelow, Distinct
  <2>3. Current(q[j]).mono \in Nat
    <3>1. q[j] \in Chains
      BY <1>1
    <3> QED
      BY <3>1, ChainIs
  <2>4. Current(q[j]).mono < m0
    BY <1>2, <2>2, <2>3
  <2> QED
    BY <2>1, <2>4
<1>9. /\ q[i][1] \in TermSpans /\ q[i][1] # <<>> /\ q[i][1] \in Spans /\ q[i][1][1].mono = m0
      /\ Span(q[i]) = q[i][1] /\ Len(q[i]) = 1 /\ q[i] \in Seq(Spans)
  <2>1. Len(q[i]) = 1
    BY <1>1, <1>2 DEF Distinct
  <2>2. /\ q[i] \in Seq(Spans) /\ 1 \in 1..Len(q[i])
    BY <1>2, ChainIs
  <2>3. /\ q[i][1] \in TermSpans /\ q[i][1] # <<>> /\ q[i][1] \in Spans
        /\ q[i][1][1].mono = Current(q[i]).mono
    BY <1>2, <2>2, ChainIs
  <2> QED
    BY <1>0, <2>1, <2>2, <2>3 DEF Span
<1>10. /\ x \in TermSpans /\ \A k \in 1..Len(x) : x[k].mono < m0
  BY <1>9, TailIs
<1>11. ASSUME NEW m \in Monos
       PROVE  Chained(q[i], Hashed, m) = Coefficient(x, m)
  <2> DEFINE c == q[i]
             f == InChain(c, Hashed, m)
  <2>1. /\ Chained(c, Hashed, m) = Total(f, 1) /\ Numbers(f, 1)
        /\ f[1] = Coefficient(Rest(c[1], Hashed), m)
    <3>1. 1 \in 1..Len(c) /\ Len(c) = 1 /\ c \in Seq(Spans)
      BY <1>9
    <3> HIDE DEF c
    <3> QED
      BY <3>1, HashedType, ChainedIs
  <2>2. Rest(c[1], Hashed) = x
    BY <1>9 DEF Rest
  <2> HIDE DEF f
  <2>3. Total(f, 1) = Total(f, 1 - 1) + f[1] /\ Total(f, 0) = 0 /\ f[1] \in Nat
    <3>1. 1 \in 1..1
      OBVIOUS
    <3> QED
      BY <2>1, <3>1, TotalTurns
  <2>4. Total(f, 1) = f[1]
    BY <2>3
  <2> QED
    BY <2>1, <2>2, <2>4
<1>12. ASSUME NEW m \in Monos
       PROVE  Queued(q, Hashed, m) = Queued(rq, Hashed, m) + Coefficient(x, m)
  <2>1. Queued(q, Hashed, m) = Queued(RemoveAt(q, i), Hashed, m) + Chained(q[i], Hashed, m)
    BY <1>1, <1>2, HashedType, QueuedWithout
  <2> QED
    BY <1>11, <2>1 DEF rq
<1> HIDE DEF x
<1>13. ASSUME NEW m \in Monos, m # m0
       PROVE  StoreSum(s, Hashed, m) = StoreSum(r, Hashed, m) + Coefficient(x, m)
  <2>1. Stored(s.table, m) = Stored(rt, m)
    BY <1>1, <1>5, <1>13 DEF Stored
  <2>2. PICK a \in Nat, b \in Nat, c \in Nat :
           a = Queued(rq, Hashed, m) /\ b = Stored(rt, m) /\ c = Coefficient(x, m)
    BY <1>4, <1>7, <1>10, StoreSumType, CoefficientType
  <2>3. StoreSum(s, Hashed, m) = (a + c) + b /\ StoreSum(r, Hashed, m) = a + b
    BY <1>4, <1>12, <2>1, <2>2 DEF StoreSum
  <2>4. (a + c) + b = (a + b) + c
    OBVIOUS
  <2> QED
    BY <2>2, <2>3, <2>4
<1>14. m0 \in MonosIn(q) /\ s.table[m0] \in Coefs
  BY <1>0, <1>1, <1>2, MonosInIs
<1>15. StoreSum(s, Hashed, m0) = s.table[m0]
  <2>1. Queued(q, Hashed, m0) = 0
    BY <1>1, <1>2, HashedType, NothingAbove
  <2>2. Stored(s.table, m0) = s.table[m0]
    BY <1>1, <1>14 DEF Stored
  <2>3. s.table[m0] \in Nat /\ \A a \in Nat : 0 + a = a
    BY <1>14, Remainders
  <2> QED
    BY <2>1, <2>2, <2>3 DEF StoreSum
<1>16. ASSUME NEW m \in Monos, m > m0
       PROVE  StoreSum(s, Hashed, m) = 0
  <2>0. m \in Nat /\ m0 + 1 <= m
    BY <1>2, <1>16 DEF Monos, InputsFit
  <2>1. \A k \in 1..n : Current(q[k]).mono < m
    <3> SUFFICES ASSUME NEW k \in 1..n PROVE Current(q[k]).mono < m
      OBVIOUS
    <3>1. q[k] \in Chains /\ Current(q[k]).mono < m0 + 1
      BY <1>1, <1>2 DEF QueueBelow
    <3>2. Current(q[k]).mono \in Nat
      BY <3>1, ChainIs
    <3> QED
      BY <1>2, <2>0, <3>1, <3>2
  <2>2. QueueBelow(q, m)
    BY <1>1, <2>1 DEF QueueBelow
  <2>3. Queued(q, Hashed, m) = 0
    BY <1>1, <2>2, HashedType, NothingAbove
  <2>4. m \notin MonosIn(q)
    <3> SUFFICES ASSUME m \in MonosIn(q) PROVE FALSE
      OBVIOUS
    <3>1. PICK k \in 1..n : m = Current(q[k]).mono
      BY <1>1, MonosInIs
    <3>2. m < m
      BY <2>1, <3>1
    <3> QED
      BY <2>0, <3>2
  <2>5. Stored(s.table, m) = 0
    BY <1>1, <2>4 DEF Stored
  <2>6. StoreSum(s, Hashed, m) = Queued(q, Hashed, m) + Stored(s.table, m)
    BY DEF StoreSum
  <2>7. 0 + 0 = 0
    OBVIOUS
  <2> QED
    BY <2>3, <2>5, <2>6, <2>7
<1>17. TopTaken(s, r, x, m0)
  BY <1>4, <1>7, <1>8, <1>10, <1>13, <1>14, <1>15, <1>16 DEF TopTaken
<1> QED
  BY <1>17 DEF x

LEMMA TopRemoved ==
  ASSUME InputsFit, Hashed, NEW s, SoundStore(s, reducer), NEW i \in Tops(s.queue),
         NEW m0, MonoOf(s.queue[i], m0)
  PROVE  /\ SoundStore(RemoveTop(s, i), reducer) /\ QueueBelow(RemoveTop(s, i).queue, m0)
         /\ m0 \in Monos /\ s.table[m0] \in Coefs
         /\ \A m \in Monos :
              /\ m # m0 => Same(StoreSum(RemoveTop(s, i), Hashed, m), StoreSum(s, Hashed, m))
              /\ m = m0 => StoreSum(RemoveTop(s, i), Hashed, m) = 0
                             /\ StoreSum(s, Hashed, m) = s.table[m0]
              /\ m > m0 => StoreSum(s, Hashed, m) = 0
<1> DEFINE x == Tail(Span(s.queue[i]))
           new == RemoveTop(s, i)
<1>1. PICK r : Removed(r, s, i)
  BY DEF Removed
<1>2. new = InsertEntry(r, x)
  BY <1>1 DEF RemoveTop, Removed
<1>3. /\ SoundStore(r, reducer) /\ QueueBelow(r.queue, m0) /\ x \in TermSpans
      /\ \A k \in 1..Len(x) : x[k].mono < m0
      /\ \A m \in Monos : m # m0 => StoreSum(s, Hashed, m) = StoreSum(r, Hashed, m) + Coefficient(x, m)
      /\ StoreSum(s, Hashed, m0) = s.table[m0] /\ s.table[m0] \in Coefs
      /\ \A m \in Monos : m > m0 => StoreSum(s, Hashed, m) = 0
  <2>1. TopTaken(s, r, Tail(Span(s.queue[i])), m0)
    BY <1>1, EntryTaken
  <2>2. TopTaken(s, r, x, m0)
    BY <2>1
  <2> HIDE DEF x
  <2> QED
    BY <2>2 DEF TopTaken
<1>4. m0 \in Monos /\ m0 \in Nat
  BY HashedStore, TopIs DEF MonoOf
<1> HIDE DEF x, new
<1>5. Grown(new, r, x)
  BY <1>2, <1>3, EntryInserted
<1>6. SoundStore(new, reducer) /\ QueueBelow(new.queue, m0)
  BY <1>3, <1>4, <1>5 DEF Grown
<1>7. ASSUME NEW m \in Monos, m # m0
      PROVE  Same(StoreSum(new, Hashed, m), StoreSum(s, Hashed, m))
  BY <1>3, <1>5, <1>7 DEF Grown
<1>8. StoreSum(new, Hashed, m0) = 0
  <2>1. new.queue \in Seq(Chains) /\ DOMAIN new.table = MonosIn(new.queue)
    BY <1>6, HashedStore
  <2>2. Queued(new.queue, Hashed, m0) = 0
    BY <1>4, <1>6, <2>1, HashedType, NothingAbove
  <2>3. m0 \notin MonosIn(new.queue)
    <3> SUFFICES ASSUME m0 \in MonosIn(new.queue) PROVE FALSE
      OBVIOUS
    <3>1. PICK k \in 1..Len(new.queue) : m0 = Current(new.queue[k]).mono
      BY <2>1, MonosInIs
    <3>2. k \in DOMAIN new.queue
      BY <2>1
    <3>3. m0 < m0
      BY <1>6, <3>1, <3>2 DEF QueueBelow
    <3> QED
      BY <1>4, <3>3
  <2>4. Stored(new.table, m0) = 0
    BY <2>1, <2>3 DEF Stored
  <2>5. StoreSum(new, Hashed, m0) = Queued(new.queue, Hashed, m0) + Stored(new.table, m0)
    BY DEF StoreSum
  <2>6. 0 + 0 = 0
    OBVIOUS
  <2> QED
    BY <2>2, <2>4, <2>5, <2>6
<1> QED
  BY <1>3, <1>4, <1>6, <1>7, <1>8 DEF new

(* The spans of an entry move on. *)
Pushing(after, q, c, n) ==
  after = [k \in 0..n |-> IF k = 0 THEN q ELSE PushSpan(after[k - 1], Tail(c[k]))]

LEMMA PushingExists ==
  ASSUME NEW q, NEW c, NEW n \in Nat
  PROVE  \E after : Pushing(after, q, c, n)
<1> DEFINE T == {k \in 0..n : \E after : Pushing(after, q, c, k)}
<1>1. 0 \in T
  <2>1. Pushing([k \in 0..0 |-> q], q, c, 0)
    BY DEF Pushing
  <2> QED
    BY <2>1
<1>2. ASSUME NEW k \in 1..n, k - 1 \in T
      PROVE  k \in T
  <2>1. PICK before : Pushing(before, q, c, k - 1)
    BY <1>2
  <2> DEFINE after == [i \in 0..k |-> IF i = k THEN PushSpan(before[k - 1], Tail(c[k]))
                                               ELSE before[i]]
  <2>2. \A i \in 0..(k - 1) : before[i] = IF i = 0 THEN q ELSE PushSpan(before[i - 1], Tail(c[i]))
    BY <2>1 DEF Pushing
  <2>3. \A i \in 0..k : after[i] = IF i = 0 THEN q ELSE PushSpan(after[i - 1], Tail(c[i]))
    <3> SUFFICES ASSUME NEW i \in 0..k
                 PROVE  after[i] = IF i = 0 THEN q ELSE PushSpan(after[i - 1], Tail(c[i]))
      OBVIOUS
    <3>1. CASE i = k
      <4>1. k - 1 \in 0..k /\ k - 1 # k /\ i # 0
        BY <1>2, <3>1
      <4> QED
        BY <3>1, <4>1
    <3>2. CASE i \in 1..(k - 1)
      <4>1. i - 1 \in 0..k /\ i - 1 # k /\ i # k /\ i # 0 /\ i \in 0..(k - 1)
        BY <3>2
      <4> QED
        BY <2>2, <4>1
    <3>3. CASE i = 0 /\ i # k
      BY <2>2, <3>3
    <3> QED
      BY <3>1, <3>2, <3>3
  <2>4. Pushing(after, q, c, k)
    BY <2>3 DEF Pushing
  <2> QED
    BY <2>4
<1> HIDE DEF T
<1>3. 0..n \subseteq T
  BY <1>1, <1>2, EachTurn
<1> QED
  BY <1>3 DEF T

(* What the spans of an entry have after their current terms *)
Following(c, m) == [k \in DOMAIN c |-> Coefficient(Tail(c[k]), m)]
Leading(c) == [k \in DOMAIN c |-> c[k][1].coef]

LEMMA FollowingIs ==
  ASSUME InputsFit, NEW c \in Chains, NEW m \in Monos
  PROVE  /\ Numbers(Following(c, m), Len(c)) /\ Numbers(Leading(c), Len(c))
         /\ \A k \in 1..Len(c) : /\ Following(c, m)[k] = Coefficient(Tail(c[k]), m)
                                 /\ Tail(c[k]) \in TermSpans
                                 /\ \A l \in 1..Len(Tail(c[k])) : Tail(c[k])[l].mono < Current(c).mono
         /\ Chained(c, FALSE, m) = Total(Following(c, m), Len(c))
                                     + (IF m = Current(c).mono THEN Total(Leading(c), Len(c)) ELSE 0)
<1> DEFINE n == Len(c)
           f == InChain(c, FALSE, m)
           g == Following(c, m)
           h == Leading(c)
           m0 == Current(c).mono
<1>1. /\ c \in Seq(Spans) /\ n \in Nat /\ DOMAIN c = 1..n /\ m0 \in Nat
      /\ \A k \in 1..n : /\ c[k] \in TermSpans /\ c[k] # <<>> /\ c[k][1].mono = m0
                         /\ c[k][1].coef \in Nat
  BY ChainIs
<1>2. \A k \in 1..n : /\ Tail(c[k]) \in TermSpans
                      /\ \A l \in 1..Len(Tail(c[k])) : Tail(c[k])[l].mono < m0
                      /\ m # m0 => Coefficient(c[k], m) = Coefficient(Tail(c[k]), m)
                      /\ m = m0 => Coefficient(c[k], m) = c[k][1].coef /\ Coefficient(Tail(c[k]), m) = 0
  <2> SUFFICES ASSUME NEW k \in 1..n
               PROVE  /\ Tail(c[k]) \in TermSpans
                      /\ \A l \in 1..Len(Tail(c[k])) : Tail(c[k])[l].mono < m0
                      /\ m # m0 => Coefficient(c[k], m) = Coefficient(Tail(c[k]), m)
                      /\ m = m0 => /\ Coefficient(c[k], m) = c[k][1].coef
                                   /\ Coefficient(Tail(c[k]), m) = 0
    OBVIOUS
  <2>1. c[k] \in TermSpans /\ c[k] # <<>> /\ c[k][1].mono = m0 /\ m0 \in Nat
    BY <1>1
  <2> HIDE DEF m0
  <2>2. m = m0 => m >= m0
    BY <2>1
  <2> QED
    BY <2>1, <2>2, TailIs
<1>3. \A k \in 1..n : g[k] = Coefficient(Tail(c[k]), m) /\ h[k] = c[k][1].coef
  BY <1>1 DEF Following, Leading
<1>4. Numbers(g, n) /\ Numbers(h, n)
  BY <1>1, <1>2, <1>3, CoefficientType DEF Numbers
<1>5. Numbers(f, n) /\ Chained(c, FALSE, m) = Total(f, n) /\ \A k \in 1..n : f[k] = Coefficient(c[k], m)
  <2>1. Numbers(f, n) /\ Chained(c, FALSE, m) = Total(f, n)
        /\ \A k \in 1..n : f[k] = Coefficient(Rest(c[k], FALSE), m)
    BY <1>1, ChainedIs
  <2> HIDE DEF f
  <2> QED
    BY <2>1 DEF Rest
<1> HIDE DEF f, g, h, m0
<1>6. Total(g, n) \in Nat /\ Total(h, n) \in Nat /\ \A a \in Nat : a + 0 = a /\ 0 + a = a
  BY <1>1, <1>4, TotalTurns
<1>7. CASE m = m0
  <2>1. \A k \in 1..n : g[k] = 0
    BY <1>2, <1>3, <1>7
  <2>2. Total(g, n) = 0
    BY <1>1, <2>1, TotalOfZeros
  <2>3. \A k \in 1..n : f[k] \in Nat /\ f[k] = h[k]
    BY <1>2, <1>3, <1>5, <1>7 DEF Numbers
  <2>4. Total(f, n) = Total(h, n)
    BY <1>1, <2>3, TotalEqual
  <2>5. 0 + Total(h, n) = Total(h, n)
    BY <1>6
  <2>6. Chained(c, FALSE, m) = Total(g, n) + Total(h, n)
    BY <1>5, <2>2, <2>4, <2>5
  <2> QED
    BY <1>2, <1>3, <1>4, <1>7, <2>6 DEF g, h, m0
<1>8. CASE m # m0
  <2>1. \A k \in 1..n : f[k] \in Nat /\ f[k] = g[k]
    BY <1>2, <1>3, <1>5, <1>8 DEF Numbers
  <2>2. Total(f, n) = Total(g, n)
    BY <1>1, <2>1, TotalEqual
  <2>3. Total(g, n) + 0 = Total(g, n)
    BY <1>6
  <2>4. Chained(c, FALSE, m) = Total(g, n) + 0
    BY <1>5, <2>2, <2>3
  <2> QED
    BY <1>2, <1>3, <1>4, <1>8, <2>4 DEF g, h, m0
<1> QED
  BY <1>7, <1>8

LEMMA PushedAll ==
  ASSUME InputsFit, NEW q \in Seq(Chains), NEW c \in Chains, NEW u, Pushing(u, q, c, Len(c))
  PROVE  /\ u[Len(c)] \in Seq(Chains)
         /\ \A m \in Monos : Queued(u[Len(c)], FALSE, m)
                               = Queued(q, FALSE, m) + Total(Following(c, m), Len(c))
         /\ \A b \in Nat : QueueBelow(q, b) /\ Current(c).mono <= b => QueueBelow(u[Len(c)], b)
         /\ Single(c) => u[Len(c)] = q
<1> DEFINE n == Len(c)
           m0 == Current(c).mono
<1>1. /\ n \in Nat /\ m0 \in Nat /\ DOMAIN c = 1..n
      /\ \A m \in Monos : /\ Numbers(Following(c, m), n)
                          /\ \A k \in 1..n : Following(c, m)[k] = Coefficient(Tail(c[k]), m)
      /\ \A k \in 1..n : /\ Tail(c[k]) \in TermSpans
                         /\ \A l \in 1..Len(Tail(c[k])) : Tail(c[k])[l].mono < m0
  <2>1. n \in Nat /\ m0 \in Nat /\ DOMAIN c = 1..n
    BY ChainIs
  <2>2. \A m \in Monos : /\ Numbers(Following(c, m), n)
                         /\ \A k \in 1..n : Following(c, m)[k] = Coefficient(Tail(c[k]), m)
    BY FollowingIs
  <2>3. 0 \in Monos
    BY DEF Monos, InputsFit
  <2>4. \A k \in 1..n : /\ Tail(c[k]) \in TermSpans
                        /\ \A l \in 1..Len(Tail(c[k])) : Tail(c[k])[l].mono < m0
    BY <2>3, FollowingIs
  <2> QED
    BY <2>1, <2>2, <2>4
<1>2. u[0] = q /\ \A k \in 1..n : u[k] = PushSpan(u[k - 1], Tail(c[k]))
  <2>1. u[0] = q
    BY <1>1 DEF Pushing
  <2>2. ASSUME NEW k \in 1..n PROVE u[k] = PushSpan(u[k - 1], Tail(c[k]))
    <3>1. k \in 0..n /\ k # 0
      OBVIOUS
    <3> QED
      BY <3>1 DEF Pushing
  <2> QED
    BY <2>1, <2>2
<1> DEFINE T == {k \in 0..n :
                   /\ u[k] \in Seq(Chains)
                   /\ \A m \in Monos : Queued(u[k], FALSE, m) = Queued(q, FALSE, m)
                                                                 + Total(Following(c, m), k)
                   /\ \A b \in Nat : QueueBelow(q, b) /\ m0 <= b => QueueBelow(u[k], b)}
<1>3. 0 \in T
  <2>1. \A m \in Monos : Queued(q, FALSE, m) = Queued(q, FALSE, m) + Total(Following(c, m), 0)
    <3> SUFFICES ASSUME NEW m \in Monos
                 PROVE  Queued(q, FALSE, m) = Queued(q, FALSE, m) + Total(Following(c, m), 0)
      OBVIOUS
    <3>1. Queued(q, FALSE, m) \in Nat /\ Total(Following(c, m), 0) = 0
      BY QueueIs, TotalOfNone
    <3>2. \A a \in Nat : a = a + 0
      OBVIOUS
    <3> QED
      BY <3>1, <3>2
  <2>2. /\ u[0] \in Seq(Chains)
        /\ \A m \in Monos : Queued(u[0], FALSE, m) = Queued(q, FALSE, m) + Total(Following(c, m), 0)
        /\ \A b \in Nat : QueueBelow(q, b) /\ m0 <= b => QueueBelow(u[0], b)
    BY <1>2, <2>1
  <2>3. 0 \in 0..n
    BY <1>1
  <2> QED
    BY <2>2, <2>3
<1>4. ASSUME NEW k \in 1..n, k - 1 \in T
      PROVE  k \in T
  <2> DEFINE x == Tail(c[k])
             before == u[k - 1]
  <2>1. /\ before \in Seq(Chains)
        /\ \A m \in Monos : Queued(before, FALSE, m) = Queued(q, FALSE, m)
                                                        + Total(Following(c, m), k - 1)
        /\ \A b \in Nat : QueueBelow(q, b) /\ m0 <= b => QueueBelow(before, b)
    BY <1>4
  <2>2. x \in TermSpans /\ \A l \in 1..Len(x) : x[l].mono < m0
    BY <1>1
  <2>3. u[k] = PushSpan(before, x)
    BY <1>2
  <2> HIDE DEF x, before
  <2>4. /\ u[k] \in Seq(Chains)
        /\ \A m \in Monos : Queued(u[k], FALSE, m) = Queued(before, FALSE, m) + Coefficient(x, m)
        /\ \A b \in Nat : QueueBelow(before, b) /\ (\A l \in 1..Len(x) : x[l].mono < b)
                            => QueueBelow(u[k], b)
    BY <2>1, <2>2, <2>3, PushedIs
  <2>5. ASSUME NEW m \in Monos
        PROVE  Queued(u[k], FALSE, m) = Queued(q, FALSE, m) + Total(Following(c, m), k)
    <3> DEFINE g == Following(c, m)
    <3>1. Numbers(g, n) /\ g[k] = Coefficient(x, m)
      BY <1>1 DEF x
    <3> HIDE DEF g
    <3>2. g[k] \in Nat /\ Total(g, k - 1) \in Nat /\ Total(g, k) = Total(g, k - 1) + g[k]
      BY <1>1, <3>1, TotalTurns
    <3>3. Queued(q, FALSE, m) \in Nat
      BY QueueIs
    <3>4. Queued(u[k], FALSE, m) = (Queued(q, FALSE, m) + Total(g, k - 1)) + g[k]
      BY <2>1, <2>4, <3>1 DEF g
    <3>5. (Queued(q, FALSE, m) + Total(g, k - 1)) + g[k]
            = Queued(q, FALSE, m) + (Total(g, k - 1) + g[k])
      <4>1. \A a, b, d \in Nat : (a + b) + d = a + (b + d)
        OBVIOUS
      <4> QED
        BY <3>2, <3>3, <4>1
    <3>6. Queued(u[k], FALSE, m) = Queued(q, FALSE, m) + Total(g, k)
      BY <3>2, <3>4, <3>5
    <3> QED
      BY <3>6 DEF g
  <2>6. ASSUME NEW b \in Nat, QueueBelow(q, b), m0 <= b
        PROVE  QueueBelow(u[k], b)
    <3>1. QueueBelow(before, b)
      BY <2>1, <2>6
    <3>2. \A l \in 1..Len(x) : x[l].mono < b
      <4> SUFFICES ASSUME NEW l \in 1..Len(x) PROVE x[l].mono < b
        OBVIOUS
      <4>1. x[l].mono < m0 /\ x[l].mono \in Nat
        BY <2>2, TermsAre
      <4> HIDE DEF m0
      <4> QED
        BY <1>1, <2>6, <4>1
    <3> QED
      BY <2>4, <3>1, <3>2
  <2>7. k \in 0..n
    OBVIOUS
  <2> QED
    BY <2>4, <2>5, <2>6, <2>7
<1> HIDE DEF T
<1>5. 0..n \subseteq T
  BY <1>1, <1>3, <1>4, EachTurn
<1>6. n \in T
  BY <1>1, <1>5
<1>7. Single(c) => u[n] = q
  <2> SUFFICES ASSUME Single(c) PROVE u[n] = q
    OBVIOUS
  <2>1. n = 1 /\ Len(c[1]) = 1 /\ 1 \in 1..n
    BY DEF Single
  <2>2. c[1] \in TermSpans /\ c[1] # <<>>
    BY <2>1, ChainIs
  <2>3. Tail(c[1]) \in Seq(Terms) /\ Len(Tail(c[1])) = 0
    BY <2>1, <2>2, TailIs, TermsAre
  <2>4. Tail(c[1]) = <<>>
    <3> DEFINE x == Tail(c[1])
    <3>1. x \in Seq(Terms) /\ Len(x) = 0
      BY <2>3
    <3> HIDE DEF x
    <3>2. x = <<>>
      BY <3>1
    <3> QED
      BY <3>2 DEF x
  <2>5. u[1] = PushSpan(u[1 - 1], Tail(c[1]))
    BY <1>2, <2>1
  <2>6. u[1] = q
    BY <1>2, <2>4, <2>5 DEF PushSpan
  <2> QED
    BY <2>1, <2>6
<1> QED
  BY <1>6, <1>7 DEF T

(* An entry without hashing moves on, and only its current terms are gone. *)
Gone(s, q, m0, sum) ==
  /\ SoundStore([queue |-> q, table |-> s.table], reducer)
  /\ QueueBelow(q, m0 + 1)
  /\ m0 \in Monos /\ sum \in Coefs
  /\ \A m \in Monos : Same(Queued(s.queue, FALSE, m),
                           Queued(q, FALSE, m) + (IF m = m0 THEN sum ELSE 0))

LEMMA Advanced ==
  ASSUME InputsFit, ~Hashed, SoundStore(Store, reducer), NEW i \in Tops(queue)
  PROVE  Gone(Store, Advance(i), Current(queue[i]).mono, ChainSum(queue[i]))
<1> DEFINE q == queue
           c == queue[i]
           n == Len(c)
           r == RemoveAt(q, i)
           m0 == Current(c).mono
           u == CHOOSE u : u = [k \in 0..n |-> IF k = 0 THEN r ELSE PushSpan(u[k - 1], Tail(c[k]))]
<1>1. /\ q \in Seq(Chains) /\ table = <<>>
      /\ reducer = "Dedup" => \A k \in DOMAIN q : Single(q[k])
  BY PlainStore DEF Store
<1>2. /\ i \in 1..Len(q) /\ c \in Chains /\ m0 \in Monos /\ m0 \in Nat /\ QueueBelow(q, m0 + 1)
      /\ DOMAIN q = 1..Len(q)
  BY <1>1, TopIs
<1>3. n \in Nat /\ DOMAIN c = 1..n
  BY <1>2, ChainIs
<1>4. \E v : v = [k \in 0..n |-> IF k = 0 THEN r ELSE PushSpan(v[k - 1], Tail(c[k]))]
  <2>1. PICK v : Pushing(v, r, c, n)
    BY <1>3, PushingExists
  <2> QED
    BY <2>1 DEF Pushing
<1>5. u = [k \in 0..n |-> IF k = 0 THEN r ELSE PushSpan(u[k - 1], Tail(c[k]))]
  BY <1>4, Zenon
<1>6. Advance(i) = u[n]
  BY DEF Advance
<1> HIDE DEF u
<1>7. Pushing(u, r, c, n)
  BY <1>5 DEF Pushing
<1>8. /\ r \in Seq(Chains) /\ DOMAIN r = 1..Len(q) - 1
      /\ \A k \in 1..Len(q) - 1 : \E j \in 1..Len(q) : j # i /\ r[k] = q[j]
      /\ QueueBelow(r, m0 + 1)
  BY <1>1, <1>2, EntriesLeft
<1> HIDE DEF r
<1>9. /\ u[n] \in Seq(Chains)
      /\ \A m \in Monos : Queued(u[n], FALSE, m) = Queued(r, FALSE, m) + Total(Following(c, m), n)
      /\ \A b \in Nat : QueueBelow(r, b) /\ m0 <= b => QueueBelow(u[n], b)
      /\ Single(c) => u[n] = r
  BY <1>2, <1>7, <1>8, PushedAll
<1>10. QueueBelow(u[n], m0 + 1)
  <2>1. m0 + 1 \in Nat /\ m0 <= m0 + 1
    BY <1>2
  <2> QED
    BY <1>8, <1>9, <2>1
<1>11. reducer = "Dedup" => \A k \in DOMAIN u[n] : Single(u[n][k])
  BY <1>1, <1>2, <1>8, <1>9
<1>12. SoundStore([queue |-> u[n], table |-> Store.table], reducer)
  <2> DEFINE s == [queue |-> u[n], table |-> Store.table]
  <2>1. s.queue = u[n] /\ s.table = <<>> /\ IsStore(s)
    BY <1>1 DEF IsStore, Store
  <2> HIDE DEF s
  <2>2. SoundStore(s, reducer)
    BY <1>9, <1>11, <2>1 DEF SoundStore, Hashed, Single
  <2> QED
    BY <2>2 DEF s
<1>13. Numbers(Leading(c), n) /\ Total(Leading(c), n) \in Nat
       /\ ChainSum(c) = Total(Leading(c), n) % P /\ ChainSum(c) \in Coefs
  <2>1. Numbers(Leading(c), n)
    BY <1>2, FollowingIs
  <2>2. Total(Leading(c), n) \in Nat
    BY <1>3, <2>1, TotalTurns
  <2>3. ChainSum(c) = Total(Leading(c), n) % P
    BY DEF ChainSum, Leading
  <2> QED
    BY <2>1, <2>2, <2>3, Remainders
<1>14. ASSUME NEW m \in Monos
       PROVE  Same(Queued(q, FALSE, m),
                   Queued(u[n], FALSE, m) + (IF m = m0 THEN ChainSum(c) ELSE 0))
  <2>1. Queued(q, FALSE, m) = Queued(r, FALSE, m) + Chained(c, FALSE, m)
    BY <1>1, <1>2, QueuedWithout DEF r
  <2>2. /\ Chained(c, FALSE, m) = Total(Following(c, m), n)
                                    + (IF m = m0 THEN Total(Leading(c), n) ELSE 0)
        /\ Numbers(Following(c, m), n)
    BY <1>2, FollowingIs
  <2>3. PICK a \in Nat, b \in Nat, d \in Nat, e \in Nat :
          /\ a = Queued(r, FALSE, m) /\ b = Total(Following(c, m), n)
          /\ d = (IF m = m0 THEN Total(Leading(c), n) ELSE 0)
          /\ e = (IF m = m0 THEN ChainSum(c) ELSE 0)
    <3>1. Queued(r, FALSE, m) \in Nat
      BY <1>8, QueueIs
    <3>2. Total(Following(c, m), n) \in Nat
      BY <1>3, <2>2, TotalTurns
    <3>3. ChainSum(c) \in Nat
      BY <1>13, Remainders
    <3> QED
      BY <1>13, <3>1, <3>2, <3>3
  <2>4. Same(d, e)
    <3>1. CASE m = m0
      <4>1. d = Total(Leading(c), n) /\ e = Total(Leading(c), n) % P
        BY <1>13, <2>3, <3>1
      <4>2. Same(Total(Leading(c), n), Total(Leading(c), n) % P)
        BY <1>13, SameModulo
      <4> QED
        BY <4>1, <4>2
    <3>2. CASE m # m0
      BY <2>3, <3>2 DEF Same
    <3> QED
      BY <3>1, <3>2
  <2>5. Queued(q, FALSE, m) = (a + b) + d
    <3>1. a + (b + d) = (a + b) + d
      OBVIOUS
    <3>2. Queued(q, FALSE, m) = a + (b + d)
      BY <2>1, <2>2, <2>3
    <3> QED
      BY <3>1, <3>2
  <2>6. Queued(u[n], FALSE, m) = a + b
    BY <1>9, <2>3
  <2>7. Same((a + b) + d, (a + b) + e)
    <3>1. Same(a + b, a + b) /\ a + b \in Nat
      BY DEF Same
    <3> QED
      BY <2>4, <3>1, SameSum
  <2> QED
    BY <2>3, <2>5, <2>6, <2>7
<1>15. Gone(Store, u[n], m0, ChainSum(c))
  <2>1. Store.queue = q
    BY DEF Store
  <2> QED
    BY <1>2, <1>10, <1>12, <1>13, <1>14, <2>1 DEF Gone
<1> QED
  BY <1>6, <1>15

LEMMA SameCancel ==
  ASSUME InputsFit, NEW x \in Nat, NEW y \in Nat, NEW u \in Nat, NEW v \in Nat,
         Same(x + u, y + v), Same(u, v)
  PROVE  Same(x, y)
<1> DEFINE r == v % P
           w == P - r
<1>1. r \in 0..P - 1 /\ r \in Nat /\ P \in Nat
  BY Remainders DEF Coefs
<1>2. w \in Nat /\ r + w = P
  BY <1>1
<1>3. Same(r, v)
  BY SameModulo
<1> HIDE DEF r, w
<1>4. Same(w, w) /\ Same(x, x) /\ Same(y, y)
  BY DEF Same
<1>5. Same(r + w, v + w) /\ Same(P, 0)
  BY <1>1, <1>2, <1>3, <1>4, SameSum, SamePlusP
<1>6. Same(v + w, 0)
  BY <1>2, <1>5 DEF Same
<1>7. Same(u + w, v + w)
  BY <1>2, <1>4, SameSum
<1>8. Same(u + w, 0)
  BY <1>6, <1>7 DEF Same
<1>9. u + w \in Nat /\ v + w \in Nat /\ x + u \in Nat /\ y + v \in Nat /\ 0 \in Nat
  BY <1>2
<1>10. Same(x + (u + w), x + 0)
  BY <1>4, <1>8, <1>9, SameSum
<1>11. Same(y + (v + w), y + 0)
  BY <1>4, <1>6, <1>9, SameSum
<1>12. Same((x + u) + w, (y + v) + w)
  BY <1>2, <1>4, <1>9, SameSum
<1>13. /\ (x + u) + w = x + (u + w) /\ (y + v) + w = y + (v + w)
       /\ x + 0 = x /\ y + 0 = y
  BY <1>2
<1>14. Same(x + (u + w), y + (v + w))
  BY <1>12, <1>13
<1>15. Same(x + (u + w), x) /\ Same(y + (v + w), y)
  BY <1>10, <1>11, <1>13
<1> QED
  BY <1>14, <1>15 DEF Same

LEMMA SingleOnly ==
  ASSUME InputsFit, NEW c \in Chains, Single(c)
  PROVE  c = <<<<Current(c)>>>> /\ Current(c) \in Terms
<1>1. c \in Seq(Spans) /\ Len(c) = 1 /\ Len(c[1]) = 1 /\ c[1] \in TermSpans
      /\ Current(c) = c[1][1] /\ Current(c) \in Terms
  BY ChainIs DEF Single
<1> DEFINE x == c[1]
           t == Current(c)
<1>2. x \in Seq(Terms) /\ Len(x) = 1 /\ x[1] = t
  BY <1>1, TermsAre
<1> HIDE DEF x
<1>3. x = <<t>>
  BY <1>2
<1>4. c = <<x>>
  <2>1. c[1] = x
    BY DEF x
  <2> QED
    BY <1>1, <2>1
<1> QED
  BY <1>1, <1>3, <1>4

(* What the queue makes of two like entries *)
Merged(q, i, j) ==
  IF reducer = "Dedup"
    THEN <<<<Term(Current(q[i]).mono, (Current(q[i]).coef + Current(q[j]).coef) % P)>>>>
    ELSE q[i] \o q[j]

LEMMA MergedIs ==
  ASSUME InputsFit, NEW q \in Seq(Chains), NEW i \in 1..Len(q), NEW j \in 1..Len(q),
         Current(q[i]).mono = Current(q[j]).mono,
         reducer = "Dedup" => Single(q[i]) /\ Single(q[j])
  PROVE  /\ Merged(q, i, j) \in Chains /\ (reducer = "Dedup" => Single(Merged(q, i, j)))
         /\ Current(Merged(q, i, j)).mono = Current(q[i]).mono
         /\ \A m \in Monos : /\ Chained(Merged(q, i, j), FALSE, m) \in Nat
                             /\ Same(Chained(Merged(q, i, j), FALSE, m),
                                     Chained(q[i], FALSE, m) + Chained(q[j], FALSE, m))
<1>1. q[i] \in Chains /\ q[j] \in Chains
  OBVIOUS
<1>2. CASE reducer = "Dedup"
  <2>1. PICK a \in Terms, b \in Terms : /\ q[i] = <<<<a>>>> /\ q[j] = <<<<b>>>>
                                        /\ a = Current(q[i]) /\ b = Current(q[j])
    BY <1>1, <1>2, SingleOnly
  <2> DEFINE t == Term(a.mono, (a.coef + b.coef) % P)
             d == Merged(q, i, j)
  <2>2. /\ a.mono \in Monos /\ a.coef \in Nat /\ b.coef \in Nat /\ a.mono = b.mono
    BY <2>1, TermIs
  <2>3. (a.coef + b.coef) % P \in Coefs /\ a.coef + b.coef \in Nat
    <3>1. a.coef + b.coef \in Nat
      BY <2>2
    <3> QED
      BY <3>1, Remainders
  <2>4. t \in Terms /\ t.mono = a.mono /\ t.coef = (a.coef + b.coef) % P
    BY <2>2, <2>3 DEF Term, Terms
  <2>5. d = <<<<t>>>>
    BY <1>2, <2>1 DEF Merged
  <2> HIDE DEF t
  <2>6. /\ <<<<t>>>> \in Chains /\ Current(<<<<t>>>>) = t /\ Single(<<<<t>>>>)
        /\ \A m \in Monos : Chained(<<<<t>>>>, FALSE, m) = IF m = t.mono THEN t.coef ELSE 0
    BY <2>4, SingleEntry
  <2>7. /\ \A m \in Monos : Chained(<<<<a>>>>, FALSE, m) = IF m = a.mono THEN a.coef ELSE 0
        /\ \A m \in Monos : Chained(<<<<b>>>>, FALSE, m) = IF m = b.mono THEN b.coef ELSE 0
    BY SingleEntry
  <2>8. ASSUME NEW m \in Monos
        PROVE  /\ Chained(d, FALSE, m) \in Nat
               /\ Same(Chained(d, FALSE, m), Chained(q[i], FALSE, m) + Chained(q[j], FALSE, m))
    <3> HIDE DEF d
    <3>0. Chained(d, FALSE, m) = (IF m = a.mono THEN t.coef ELSE 0)
      BY <2>4, <2>5, <2>6
    <3>1. /\ Chained(q[i], FALSE, m) = (IF m = a.mono THEN a.coef ELSE 0)
          /\ Chained(q[j], FALSE, m) = (IF m = a.mono THEN b.coef ELSE 0)
      BY <2>1, <2>2, <2>7
    <3>2. CASE m = a.mono
      <4>1. Same((a.coef + b.coef) % P, a.coef + b.coef)
        BY <2>3, SameModulo
      <4>2. t.coef \in Nat
        BY <2>3, <2>4, Remainders
      <4> QED
        BY <2>4, <3>0, <3>1, <3>2, <4>1, <4>2
    <3>3. CASE m # a.mono
      <4>1. 0 = 0 + 0
        OBVIOUS
      <4>2. Chained(d, FALSE, m) = 0 /\ Chained(q[i], FALSE, m) + Chained(q[j], FALSE, m) = 0
        BY <3>0, <3>1, <3>3, <4>1
      <4>3. Same(0, 0) /\ 0 \in Nat
        BY DEF Same
      <4> QED
        BY <4>2, <4>3
    <3> QED
      BY <3>2, <3>3
  <2>9. d \in Chains /\ Single(d) /\ Current(d).mono = Current(q[i]).mono
    <3>1. d \in Chains /\ Single(d) /\ Current(d) = t
      BY <2>5, <2>6
    <3> HIDE DEF d
    <3> QED
      BY <2>1, <2>4, <3>1
  <2> QED
    BY <2>8, <2>9 DEF d
<1>3. CASE reducer # "Dedup"
  <2> DEFINE d == q[i] \o q[j]
  <2>1. Merged(q, i, j) = d
    BY <1>3 DEF Merged
  <2>2. /\ d \in Chains /\ Current(d) = Current(q[i])
        /\ \A m \in Monos : Chained(d, FALSE, m) = Chained(q[i], FALSE, m) + Chained(q[j], FALSE, m)
    BY <1>1, ChainedJoined
  <2> HIDE DEF d
  <2>3. \A m \in Monos : Chained(d, FALSE, m) \in Nat
    <3>1. d \in Seq(Spans)
      BY <2>2, ChainIs
    <3> QED
      BY <3>1, ChainedIs
  <2> QED
    BY <1>3, <2>1, <2>2, <2>3 DEF Same
<1> QED
  BY <1>2, <1>3

LEMMA Deduplicated ==
  ASSUME InputsFit, ~Hashed, NEW s, SoundStore(s, reducer),
         NEW i \in DOMAIN s.queue, NEW j \in DOMAIN s.queue, i < j,
         Current(s.queue[i]).mono = Current(s.queue[j]).mono,
         NEW p, p = RemoveAt([s.queue EXCEPT ![i] = Merged(s.queue, i, j)], j)
  PROVE  /\ SoundStore([queue |-> p, table |-> s.table], reducer)
         /\ \A m \in Monos : Same(Queued(s.queue, FALSE, m), Queued(p, FALSE, m))
         /\ \A b \in Nat : QueueBelow(s.queue, b) => QueueBelow(p, b)
<1> DEFINE q == s.queue
           n == Len(q)
           d == Merged(q, i, j)
           e == [q EXCEPT ![i] = d]
<1>1. /\ q \in Seq(Chains) /\ s.table = <<>> /\ DOMAIN q = 1..n /\ n \in Nat
      /\ reducer = "Dedup" => \A k \in DOMAIN q : Single(q[k])
  BY PlainStore
<1>2. i \in 1..n /\ j \in 1..n /\ i # j
  BY <1>1
<1>3. /\ d \in Chains /\ (reducer = "Dedup" => Single(d))
      /\ Current(d).mono = Current(q[i]).mono
      /\ \A m \in Monos : /\ Chained(d, FALSE, m) \in Nat
                          /\ Same(Chained(d, FALSE, m), Chained(q[i], FALSE, m) + Chained(q[j], FALSE, m))
  BY <1>1, <1>2, MergedIs
<1> HIDE DEF d
<1>4. /\ e \in Seq(Chains) /\ Len(e) = n /\ DOMAIN e = 1..n /\ e[i] = d
      /\ \A k \in 1..n : k # i => e[k] = q[k]
  BY <1>1, <1>2, <1>3
<1>5. \A m \in Monos : Queued(q, FALSE, m) + Chained(d, FALSE, m)
                         = Queued(e, FALSE, m) + Chained(q[i], FALSE, m)
  BY <1>1, <1>2, <1>3, QueuedChanged
<1>6. p = RemoveAt(e, j)
  BY DEF d
<1> HIDE DEF e
<1>7. /\ p \in Seq(Chains) /\ DOMAIN p = 1..n - 1
      /\ \A k \in 1..n - 1 : \E l \in 1..n : l # j /\ p[k] = e[l]
      /\ \A b : QueueBelow(e, b) => QueueBelow(p, b)
      /\ \A m \in Monos : Queued(e, FALSE, m) = Queued(p, FALSE, m) + Chained(e[j], FALSE, m)
  <2>1. j \in 1..Len(e)
    BY <1>2, <1>4
  <2>2. /\ RemoveAt(e, j) \in Seq(Chains) /\ DOMAIN RemoveAt(e, j) = 1..Len(e) - 1
        /\ \A k \in 1..Len(e) - 1 : \E l \in 1..Len(e) : l # j /\ RemoveAt(e, j)[k] = e[l]
        /\ \A b : QueueBelow(e, b) => QueueBelow(RemoveAt(e, j), b)
    BY <1>4, <2>1, EntriesLeft
  <2>3. \A m \in Monos : Queued(e, FALSE, m) = Queued(RemoveAt(e, j), FALSE, m) + Chained(e[j], FALSE, m)
    BY <1>4, <2>1, QueuedWithout
  <2> QED
    BY <1>4, <1>6, <2>2, <2>3
<1>8. reducer = "Dedup" => \A k \in DOMAIN p : Single(p[k])
  <2> SUFFICES ASSUME reducer = "Dedup", NEW k \in DOMAIN p PROVE Single(p[k])
    OBVIOUS
  <2>1. PICK l \in 1..n : p[k] = e[l]
    BY <1>7
  <2> QED
    BY <1>1, <1>3, <1>4, <2>1
<1>9. SoundStore([queue |-> p, table |-> s.table], reducer)
  <2> DEFINE z == [queue |-> p, table |-> s.table]
  <2>1. z.queue = p /\ z.table = <<>> /\ IsStore(z)
    BY <1>1 DEF IsStore
  <2> HIDE DEF z
  <2>2. SoundStore(z, reducer)
    BY <1>7, <1>8, <2>1 DEF SoundStore, Hashed, Single
  <2> QED
    BY <2>2 DEF z
<1>10. ASSUME NEW m \in Monos
       PROVE  Same(Queued(q, FALSE, m), Queued(p, FALSE, m))
  <2>1. PICK x \in Nat, y \in Nat, u \in Nat, v \in Nat, w \in Nat :
          /\ x = Queued(q, FALSE, m) /\ y = Queued(p, FALSE, m) /\ u = Chained(d, FALSE, m)
          /\ v = Chained(q[i], FALSE, m) /\ w = Chained(q[j], FALSE, m)
    <3>1. /\ Queued(q, FALSE, m) \in Nat /\ Chained(q[i], FALSE, m) \in Nat
          /\ Chained(q[j], FALSE, m) \in Nat
      BY <1>1, <1>2, QueueIs
    <3>2. Queued(p, FALSE, m) \in Nat
      BY <1>7, QueueIs
    <3> QED
      BY <1>3, <3>1, <3>2
  <2>2. x + u = (y + w) + v
    BY <1>2, <1>4, <1>5, <1>7, <2>1
  <2>3. (y + w) + v = y + (v + w) /\ v + w \in Nat
    OBVIOUS
  <2>4. Same(u, v + w)
    BY <1>3, <2>1
  <2>5. Same(x + u, y + (v + w))
    BY <2>2, <2>3 DEF Same
  <2>6. Same(x, y)
    BY <2>3, <2>4, <2>5, SameCancel
  <2> QED
    BY <2>1, <2>6
<1>11. ASSUME NEW b \in Nat, QueueBelow(q, b)
       PROVE  QueueBelow(p, b)
  <2>1. \A k \in 1..n : Current(e[k]).mono < b
    <3> SUFFICES ASSUME NEW k \in 1..n PROVE Current(e[k]).mono < b
      OBVIOUS
    <3>1. Current(q[k]).mono < b /\ Current(q[i]).mono < b
      BY <1>1, <1>2, <1>11 DEF QueueBelow
    <3>2. CASE k = i
      BY <1>3, <1>4, <3>1, <3>2
    <3>3. CASE k # i
      BY <1>4, <3>1, <3>3
    <3> QED
      BY <3>2, <3>3
  <2>2. QueueBelow(e, b)
    BY <1>4, <2>1 DEF QueueBelow
  <2> QED
    BY <1>7, <2>2
<1> QED
  BY <1>9, <1>10, <1>11

-----------------------------------------------------------------------------
(* The invariant *)

IsLead(l) ==
  /\ l \in [known : BOOLEAN, mono : Monos, coef : Coefs]
  /\ l.known => l.coef # 0

(* How far the leading term has been found, and that the queue is below it *)
LeadInv ==
  /\ IsLead(lead)
  /\ Hashed => ~lead.known /\ stage # "adding"
  /\ lead.known => stage = "reducing" /\ QueueBelow(queue, lead.mono)
  /\ stage = "adding" => ~lead.known /\ QueueBelow(queue, lead.mono + 1)

NonZero(terms) == \A k \in DOMAIN terms : terms[k].coef # 0

(* The remainder is a polynomial, and what is left is below it. *)
ResultInv ==
  /\ result \in TermSpans /\ NonZero(result)
  /\ result # <<>> => /\ QueueBelow(queue, Last(result).mono)
                      /\ lead.known \/ stage = "adding" => lead.mono < Last(result).mono

StageInv ==
  /\ stage \in {"idle", "reducing", "adding"}
  /\ jobs \in Seq(Jobs)
  /\ stage # "idle" => jobs # <<>>
  /\ stage = "idle" => queue = <<>> /\ table = <<>> /\ ~lead.known /\ result = <<>>

RInv ==
  /\ reducer \in Kinds
  /\ SoundStore(Store, reducer)
  /\ StageInv
  /\ LeadInv
  /\ ResultInv
  /\ reducedOut \in Seq([job : Jobs, poly : TermSpans])

-----------------------------------------------------------------------------
(* The inputs *)

LEMMA PolynomialIs ==
  ASSUME InputsFit, NEW terms \in Polynomials
  PROVE  terms \in TermSpans /\ NonZero(terms)
<1>1. terms \in Seq([mono : 0..Degree, coef : 1..P - 1]) /\ Descending(terms)
  BY DEF Polynomials
<1>2. Len(terms) \in Nat /\ DOMAIN terms = 1..Len(terms)
      /\ \A k \in 1..Len(terms) : terms[k] \in [mono : 0..Degree, coef : 1..P - 1]
  <2> DEFINE S == [mono : 0..Degree, coef : 1..P - 1]
  <2>1. terms \in Seq(S)
    BY <1>1
  <2> HIDE DEF S
  <2>2. Len(terms) \in Nat /\ DOMAIN terms = 1..Len(terms) /\ \A k \in 1..Len(terms) : terms[k] \in S
    BY <2>1
  <2> QED
    BY <2>2 DEF S
<1>3. \A k \in 1..Len(terms) : terms[k] \in Terms /\ terms[k].coef # 0
  <2> SUFFICES ASSUME NEW k \in 1..Len(terms) PROVE terms[k] \in Terms /\ terms[k].coef # 0
    OBVIOUS
  <2>1. PICK t \in [mono : 0..Degree, coef : 1..P - 1] : t = terms[k]
    BY <1>2
  <2>2. t.coef \in 1..P - 1 /\ t.mono \in 0..Degree /\ t = [mono |-> t.mono, coef |-> t.coef]
    OBVIOUS
  <2>3. t.coef \in 0..P - 1 /\ t.coef # 0
    <3>1. \A a \in 1..P - 1 : a \in 0..P - 1 /\ a # 0
      BY Remainders
    <3> QED
      BY <2>2, <3>1
  <2>4. t \in Terms
    BY <2>2, <2>3 DEF Terms, Monos, Coefs
  <2> QED
    BY <2>1, <2>3, <2>4
<1>4. terms \in [1..Len(terms) -> Terms]
  BY <1>1, <1>2, <1>3
<1>5. terms \in Seq(Terms)
  BY <1>2, <1>4
<1> QED
  BY <1>1, <1>2, <1>3, <1>5 DEF TermSpans, NonZero

LEMMA ElementIs ==
  ASSUME InputsFit, NEW g \in DOMAIN Basis
  PROVE  /\ Basis[g].terms \in TermSpans /\ Basis[g].terms # <<>>
         /\ Basis[g].terms[1].mono = Basis[g].lead /\ Basis[g].terms[1].coef = 1
         /\ Basis[g].lead \in Monos /\ Basis[g].lead \in Nat /\ Basis[g].lead <= Degree
<1>1. Basis[g].terms \in Polynomials /\ Basis[g].terms # <<>>
      /\ Head(Basis[g].terms) = [mono |-> Basis[g].lead, coef |-> 1]
  BY DEF InputsFit
<1> DEFINE x == Basis[g].terms
           l == Basis[g].lead
<1>2. x \in TermSpans /\ x # <<>> /\ Head(x) = [mono |-> l, coef |-> 1]
  BY <1>1, PolynomialIs
<1> HIDE DEF x, l
<1>3. 1 \in 1..Len(x) /\ Head(x) = x[1]
  BY <1>2, TailIs
<1>4. x[1].mono \in Monos /\ x[1].mono \in Nat /\ x[1].mono <= Degree
  BY <1>2, <1>3, TermsAre
<1>5. x[1].mono = l /\ x[1].coef = 1
  BY <1>2, <1>3
<1> QED
  BY <1>2, <1>4, <1>5 DEF x, l

LEMMA JobIs ==
  ASSUME InputsFit, NEW job \in Jobs
  PROVE  /\ \/ job.op = "classicReducePolySet" /\ job.poly \in Polynomials
               /\ job = [op |-> job.op, poly |-> job.poly]
            \/ job.op = "classicTailReduce" /\ job.poly \in Polynomials /\ job.poly # <<>>
               /\ job = [op |-> job.op, poly |-> job.poly]
            \/ job.op = "classicReduceSPolySet" /\ job.a \in DOMAIN Basis /\ job.b \in DOMAIN Basis
               /\ job = [op |-> job.op, a |-> job.a, b |-> job.b]
            \/ job.op = "regularReduce" /\ job.multiple \in 0..Degree /\ job.element \in DOMAIN Basis
               /\ Basis[job.element].lead + job.multiple <= Degree
               /\ job = [op |-> job.op, multiple |-> job.multiple, element |-> job.element]
BY DEF Jobs

(* What is added for a multiple of a polynomial whose leading term cancels *)
TailOf(x, s, c, u, terms) ==
  /\ Grown(InsertTail(s, c, u, terms), s, x)
  /\ \A k \in 1..Len(x) : x[k].mono < terms[1].mono + u
  /\ \A m \in Monos :
       Coefficient(x, m) = IF m >= u /\ m # terms[1].mono + u
                             THEN (c * Coefficient(terms, m - u)) % P
                             ELSE 0

LEMMA TailInserted ==
  ASSUME InputsFit, reducer \in Kinds, NEW s, SoundStore(s, reducer),
         NEW terms \in TermSpans, terms # <<>>, NEW c \in Nat, NEW u \in Nat,
         terms[1].mono + u <= Degree
  PROVE  \E x \in TermSpans : TailOf(x, s, c, u, terms)
<1> DEFINE y == Multiple(c, u, terms)
           x == Tail(y)
           top == terms[1].mono + u
<1>1. /\ Len(terms) \in Nat /\ 1 \in 1..Len(terms)
      /\ \A k \in 1..Len(terms) : terms[k].mono \in Nat
  BY TailIs, TermsAre
<1>2. \A k \in 1..Len(terms) : terms[k].mono + u <= Degree
  <2> SUFFICES ASSUME NEW k \in 1..Len(terms) PROVE terms[k].mono + u <= Degree
    OBVIOUS
  <2>1. terms[k].mono <= terms[1].mono
    <3>1. CASE k = 1
      BY <1>1, <3>1
    <3>2. CASE k # 1
      <4>1. 1 < k
        BY <1>1, <3>2
      <4>2. terms[k].mono < terms[1].mono
        BY <1>1, <4>1, TermsAre
      <4> QED
        BY <1>1, <4>2
    <3> QED
      BY <3>1, <3>2
  <2>2. Degree \in Nat /\ terms[k].mono \in Nat /\ terms[1].mono \in Nat
    BY <1>1 DEF InputsFit
  <2> QED
    BY <2>1, <2>2
<1>3. /\ y \in TermSpans /\ Len(y) = Len(terms)
      /\ y[1] = Term(terms[1].mono + u, (terms[1].coef * c) % P)
      /\ \A m \in Monos : Coefficient(y, m)
                            = IF m >= u THEN (c * Coefficient(terms, m - u)) % P ELSE 0
  BY <1>1, <1>2, MultipleIs
<1>4. InsertTail(s, c, u, terms) = Insert(s, x)
  BY DEF InsertTail
<1> HIDE DEF y
<1>5. y # <<>> /\ y[1].mono = top
  BY <1>1, <1>3 DEF Term
<1>6. /\ x \in TermSpans
      /\ \A k \in 1..Len(x) : x[k].mono < top
      /\ \A m \in Monos : /\ m # top => Coefficient(y, m) = Coefficient(x, m)
                          /\ m >= top => Coefficient(x, m) = 0
  <2>1. /\ x \in TermSpans
        /\ \A k \in 1..Len(x) : x[k].mono < y[1].mono
        /\ \A m \in Monos : /\ m # y[1].mono => Coefficient(y, m) = Coefficient(x, m)
                            /\ m >= y[1].mono => Coefficient(x, m) = 0
    BY <1>3, <1>5, TailIs
  <2> QED
    BY <1>5, <2>1
<1> HIDE DEF x
<1>7. Grown(Insert(s, x), s, x)
  BY <1>6, Inserted
<1>8. ASSUME NEW m \in Monos
      PROVE  Coefficient(x, m) = IF m >= u /\ m # top
                                   THEN (c * Coefficient(terms, m - u)) % P
                                   ELSE 0
  <2>0. m \in Nat /\ top \in Nat
    BY <1>1 DEF Monos, InputsFit
  <2>1. CASE m = top
    <3>1. m >= top
      BY <2>0, <2>1
    <3> QED
      BY <1>6, <2>1, <3>1
  <2>2. CASE m # top
    BY <1>3, <1>6, <2>2
  <2> QED
    BY <2>1, <2>2
<1> QED
  BY <1>4, <1>6, <1>7, <1>8 DEF TailOf

-----------------------------------------------------------------------------
(* The abstract polynomials *)

Poly == [Monos -> Coefs]

LEMMA AbstractOperators ==
  /\ Division!Monos = Monos
  /\ Division!Nil = [m \in Monos |-> 0]
  /\ \A f, g : Division!Plus(f, g) = [m \in Monos |-> (f[m] + g[m]) % P]
  /\ \A c, u, f : Division!Times(c, u, f)
                    = [m \in Monos |-> IF m >= u THEN (c * f[m - u]) % P ELSE 0]
  /\ \A f, S : Division!Only(f, S) = [m \in Monos |-> IF m \in S THEN f[m] ELSE 0]
BY DEF Division!Monos, Monos, Division!Nil, Division!Plus, Division!Times, Division!Only

(* m is the leading monomial of f. *)
Leads(m, f) == m \in Monos /\ f[m] # 0 /\ \A n \in Monos : n > m => f[n] = 0

LEMMA LeadIs ==
  ASSUME InputsFit, NEW f, NEW m, Leads(m, f)
  PROVE  Division!Lead(f) = m /\ f # Division!Nil
<1>1. m \in Monos /\ f[m] # 0 /\ \A n \in Monos : n > m => f[n] = 0
  BY DEF Leads
<1>2. Division!Support(f) = {n \in Monos : f[n] # 0}
  BY DEF Division!Support, Division!Monos, Monos
<1> DEFINE S == {n \in Monos : f[n] # 0}
<1>3. Division!Lead(f) = Max(S)
  BY <1>2 DEF Division!Lead, Division!Max, Max
<1>4. \A n \in Monos : n \in Nat /\ Degree \in Nat
  BY DEF Monos, InputsFit
<1>5. m \in S /\ \A n \in S : n <= m
  BY <1>1, <1>4
<1>6. S \in SUBSET (0..Degree) /\ S # {}
  BY <1>5 DEF Monos
<1> HIDE DEF S
<1>7. Max(S) \in S /\ \A n \in S : n <= Max(S)
  BY <1>4, <1>5, <1>6, MaxIs
<1>8. Max(S) \in Nat /\ m \in Nat /\ Max(S) <= m /\ m <= Max(S)
  BY <1>1, <1>4, <1>5, <1>6, <1>7 DEF Monos
<1>9. Max(S) = m
  BY <1>8
<1>10. f # Division!Nil
  BY <1>1, AbstractOperators
<1> QED
  BY <1>3, <1>9, <1>10

(* The jobs and their outcomes as Reduction sees them *)
Mapped(js) == [i \in DOMAIN js |-> JobAsFunction(js[i])]
Outcome(o) == [job |-> JobAsFunction(o.job), poly |-> AsFunction(o.poly)]
Outcomes(os) == [i \in DOMAIN os |-> Outcome(os[i])]

LEMMA MapHead ==
  ASSUME NEW S, NEW js \in Seq(S), js # <<>>
  PROVE  /\ Mapped(js) # <<>> /\ Head(Mapped(js)) = JobAsFunction(Head(js))
         /\ Tail(Mapped(js)) = Mapped(Tail(js)) /\ Head(js) \in S /\ Tail(js) \in Seq(S)
<1> DEFINE n == Len(js)
           T == {JobAsFunction(j) : j \in S}
           ms == Mapped(js)
<1>1. n \in Nat /\ DOMAIN js = 1..n /\ 1 \in 1..n /\ \A i \in 1..n : js[i] \in S
  <2>1. n \in Nat /\ DOMAIN js = 1..n /\ n # 0 /\ \A i \in 1..n : js[i] \in S
    OBVIOUS
  <2> QED
    BY <2>1
<1>2. ms = [i \in 1..n |-> JobAsFunction(js[i])]
  BY <1>1 DEF Mapped
<1>3. ms \in Seq(T) /\ Len(ms) = n /\ \A i \in 1..n : ms[i] = JobAsFunction(js[i])
  <2>1. ms \in [1..n -> T]
    BY <1>1, <1>2
  <2> QED
    BY <1>1, <1>2, <2>1
<1>4. Head(js) = js[1] /\ Tail(js) \in Seq(S) /\ Len(Tail(js)) = n - 1
      /\ \A i \in 1..n - 1 : Tail(js)[i] = js[i + 1]
  BY <1>1
<1> HIDE DEF ms, T
<1>5. ms # <<>> /\ Head(ms) = ms[1] /\ Tail(ms) \in Seq(T) /\ Len(Tail(ms)) = n - 1
      /\ \A i \in 1..n - 1 : Tail(ms)[i] = ms[i + 1]
  BY <1>1, <1>3
<1>6. Tail(ms) = Mapped(Tail(js))
  <2>1. DOMAIN Tail(js) = 1..n - 1 /\ Tail(ms) = [i \in 1..n - 1 |-> Tail(ms)[i]]
    <3> DEFINE x == Tail(js)
               y == Tail(ms)
    <3>1. x \in Seq(S) /\ y \in Seq(T) /\ Len(x) = n - 1 /\ Len(y) = n - 1
      BY <1>4, <1>5
    <3> HIDE DEF x, y, n
    <3>2. DOMAIN x = 1..Len(x) /\ y = [i \in 1..Len(y) |-> y[i]]
      BY <3>1
    <3> QED
      BY <3>1, <3>2 DEF x, y
  <2>2. \A i \in 1..n - 1 : Tail(ms)[i] = JobAsFunction(Tail(js)[i])
    <3> SUFFICES ASSUME NEW i \in 1..n - 1 PROVE Tail(ms)[i] = JobAsFunction(Tail(js)[i])
      OBVIOUS
    <3>1. i + 1 \in 1..n
      BY <1>1
    <3> QED
      BY <1>3, <1>4, <1>5, <3>1
  <2>3. Mapped(Tail(js)) = [i \in 1..n - 1 |-> JobAsFunction(Tail(js)[i])]
    BY <2>1 DEF Mapped
  <2> QED
    BY <2>1, <2>2, <2>3
<1>7. Head(ms) = JobAsFunction(Head(js)) /\ Head(js) \in S
  BY <1>1, <1>3, <1>4, <1>5
<1> QED
  BY <1>4, <1>5, <1>6, <1>7 DEF ms

LEMMA MapNone == Mapped(<<>>) = <<>> /\ Outcomes(<<>>) = <<>>
BY DEF Mapped, Outcomes

LEMMA OutcomesGrow ==
  ASSUME NEW S, NEW os \in Seq(S), NEW o \in S
  PROVE  Outcomes(Append(os, o)) = Append(Outcomes(os), Outcome(o))
<1> DEFINE n == Len(os)
           T == {Outcome(p) : p \in S}
           q == Append(os, o)
           ms == Outcomes(os)
           mq == Outcomes(q)
<1>1. n \in Nat /\ DOMAIN os = 1..n /\ \A i \in 1..n : os[i] \in S
  OBVIOUS
<1>2. /\ DOMAIN q = 1..n + 1 /\ q[n + 1] = o /\ \A i \in 1..n : q[i] = os[i]
      /\ \A i \in 1..n + 1 : q[i] \in S
  <2>1. /\ q \in Seq(S) /\ Len(q) = n + 1 /\ q[n + 1] = o /\ \A i \in 1..n : q[i] = os[i]
    OBVIOUS
  <2> HIDE DEF q
  <2> QED
    BY <1>1, <2>1
<1> HIDE DEF q
<1>3. /\ ms = [i \in 1..n |-> Outcome(os[i])] /\ mq = [i \in 1..n + 1 |-> Outcome(q[i])]
  BY <1>1, <1>2 DEF Outcomes
<1>4. /\ ms \in Seq(T) /\ Len(ms) = n /\ mq \in Seq(T) /\ Len(mq) = n + 1
  <2>1. ms \in [1..n -> T] /\ mq \in [1..n + 1 -> T] /\ n + 1 \in Nat
    BY <1>1, <1>2, <1>3
  <2> HIDE DEF ms, mq, T
  <2>2. ms \in Seq(T) /\ mq \in Seq(T)
    BY <1>1, <2>1
  <2> QED
    BY <1>1, <2>1, <2>2
<1>5. Outcome(o) \in T
  OBVIOUS
<1>6. \A i \in 1..n + 1 : mq[i] = Outcome(q[i])
  BY <1>3
<1>7. \A i \in 1..n : ms[i] = Outcome(os[i])
  BY <1>3
<1> DEFINE z == Outcome(o)
<1>8. z \in T /\ mq[n + 1] = z /\ \A i \in 1..n : mq[i] = ms[i]
  <2>1. n + 1 \in 1..n + 1
    BY <1>1
  <2>2. \A i \in 1..n : i \in 1..n + 1
    BY <1>1
  <2> QED
    BY <1>2, <1>5, <1>6, <1>7, <2>1, <2>2
<1> HIDE DEF ms, mq, T, z
<1>9. Append(ms, z) \in Seq(T) /\ Len(Append(ms, z)) = n + 1 /\ Append(ms, z)[n + 1] = z
      /\ \A i \in 1..n : Append(ms, z)[i] = ms[i]
  BY <1>1, <1>4, <1>8
<1>10. \A i \in 1..n + 1 : mq[i] = Append(ms, z)[i]
  <2> SUFFICES ASSUME NEW i \in 1..n + 1 PROVE mq[i] = Append(ms, z)[i]
    OBVIOUS
  <2>1. i \in 1..n \/ i = n + 1
    BY <1>1
  <2> QED
    BY <1>8, <1>9, <2>1
<1>11. mq = Append(ms, z)
  BY <1>1, <1>4, <1>9, <1>10
<1> QED
  BY <1>11 DEF mq, ms, z, q

LEMMA JobMaps ==
  ASSUME InputsFit, NEW job \in Jobs
  PROVE  /\ JobAsFunction(job).op = job.op
         /\ job.op \in {"classicReducePolySet", "classicTailReduce"} =>
              JobAsFunction(job).poly = AsFunction(job.poly)
         /\ job.op \in {"classicReduceSPolySet", "regularReduce"} => JobAsFunction(job) = job
<1>1. CASE job.op \in {"classicReducePolySet", "classicTailReduce"}
  <2>1. job = [op |-> job.op, poly |-> job.poly]
    BY <1>1, JobIs
  <2>2. "poly" \in DOMAIN job
    <3> DEFINE o == job.op
               p == job.poly
    <3>1. "poly" \in DOMAIN [op |-> o, poly |-> p]
      OBVIOUS
    <3> QED
      BY <2>1, <3>1
  <2>3. JobAsFunction(job) = [job EXCEPT !.poly = AsFunction(job.poly)]
    BY <2>2 DEF JobAsFunction
  <2>4. \A p : [job EXCEPT !.poly = p].op = job.op /\ [job EXCEPT !.poly = p].poly = p
    BY <2>2
  <2> QED
    BY <1>1, <2>3, <2>4
<1>2. CASE job.op \in {"classicReduceSPolySet", "regularReduce"}
  <2>1. \/ job = [op |-> job.op, a |-> job.a, b |-> job.b]
        \/ job = [op |-> job.op, multiple |-> job.multiple, element |-> job.element]
    BY <1>2, JobIs
  <2>2. "poly" \notin DOMAIN job
    <3>1. \A o, x, y : /\ "poly" \notin DOMAIN [op |-> o, a |-> x, b |-> y]
                       /\ "poly" \notin DOMAIN [op |-> o, multiple |-> x, element |-> y]
      OBVIOUS
    <3> QED
      BY <2>1, <3>1
  <2> QED
    BY <1>2, <2>2 DEF JobAsFunction
<1>3. job.op \in {"classicReducePolySet", "classicTailReduce", "classicReduceSPolySet", "regularReduce"}
  BY JobIs
<1> QED
  BY <1>1, <1>2, <1>3

LEMMA ReducersMap ==
  ASSUME InputsFit, NEW job \in Jobs, NEW m
  PROVE  Division!Reducers(m, JobAsFunction(job)) = Reducers(m, job)
<1> DEFINE B == [g \in DOMAIN Basis |-> [lead |-> Basis[g].lead, sig |-> Basis[g].sig,
                                         poly |-> AsFunction(Basis[g].terms)]]
<1>1. DOMAIN B = DOMAIN Basis
  OBVIOUS
<1>2. \A g \in DOMAIN Basis : B[g].lead = Basis[g].lead /\ B[g].sig = Basis[g].sig
  OBVIOUS
<1>3. Division!Reducers(m, JobAsFunction(job)) = {g \in DOMAIN B : Division!Reduces(g, m, JobAsFunction(job))}
  BY DEF Division!Reducers
<1>4. ASSUME NEW g \in DOMAIN Basis
      PROVE  Division!Reduces(g, m, JobAsFunction(job)) <=> Reduces(g, m, job)
  <2> DEFINE fj == JobAsFunction(job)
  <2>1. Division!Reduces(g, m, fj)
          <=> /\ B[g].lead <= m
              /\ fj.op = "regularReduce" =>
                   B[g].sig + (m - B[g].lead) < B[fj.element].sig + fj.multiple
    BY DEF Division!Reduces
  <2>2. Reduces(g, m, job)
          <=> /\ Basis[g].lead <= m
              /\ job.op = "regularReduce" =>
                   Basis[g].sig + (m - Basis[g].lead) < Basis[job.element].sig + job.multiple
    BY DEF Reduces
  <2>3. fj.op = job.op /\ (job.op = "regularReduce" => fj = job /\ job.element \in DOMAIN Basis)
    BY JobMaps, JobIs
  <2>4. B[g].lead = Basis[g].lead /\ B[g].sig = Basis[g].sig
    BY <1>2
  <2>5. job.op = "regularReduce" => B[fj.element].sig = Basis[job.element].sig /\ fj.multiple = job.multiple
    BY <1>2, <2>3
  <2> DEFINE D == Division!Reduces(g, m, fj)
             R == Reduces(g, m, job)
             l1 == B[g].lead
             l2 == Basis[g].lead
             s1 == B[g].sig
             s2 == Basis[g].sig
             e1 == B[fj.element].sig
             e2 == Basis[job.element].sig
             o1 == fj.op
             o2 == job.op
             m1 == fj.multiple
             m2 == job.multiple
  <2>6. /\ D <=> l1 <= m /\ (o1 = "regularReduce" => s1 + (m - l1) < e1 + m1)
        /\ R <=> l2 <= m /\ (o2 = "regularReduce" => s2 + (m - l2) < e2 + m2)
    BY <2>1, <2>2
  <2>7. l1 = l2 /\ s1 = s2 /\ o1 = o2 /\ (o1 = "regularReduce" => e1 = e2 /\ m1 = m2)
    BY <2>3, <2>4, <2>5
  <2>8. D <=> R
    <3> HIDE DEF D, R, l1, l2, s1, s2, e1, e2, o1, o2, m1, m2
    <3>1. CASE o1 = "regularReduce"
      <4>1. l1 = l2 /\ s1 = s2 /\ e1 = e2 /\ m1 = m2
        BY <2>7, <3>1
      <4>2. (l1 <= m <=> l2 <= m) /\ (s1 + (m - l1) < e1 + m1 <=> s2 + (m - l2) < e2 + m2)
        BY <4>1, Zenon
      <4> DEFINE A1 == l1 <= m
                 A2 == l2 <= m
                 C1 == s1 + (m - l1) < e1 + m1
                 C2 == s2 + (m - l2) < e2 + m2
      <4>3. (D <=> A1 /\ C1) /\ (R <=> A2 /\ C2) /\ (A1 <=> A2) /\ (C1 <=> C2)
        BY <2>6, <2>7, <3>1, <4>2, Zenon
      <4> HIDE DEF A1, A2, C1, C2
      <4> QED
        BY <4>3, Zenon
    <3>2. CASE o1 # "regularReduce"
      <4> DEFINE A1 == l1 <= m
                 A2 == l2 <= m
      <4>1. (D <=> A1) /\ (R <=> A2) /\ (A1 <=> A2)
        BY <2>6, <2>7, <3>2, Zenon
      <4> HIDE DEF A1, A2
      <4> QED
        BY <4>1, Zenon
    <3> QED
      BY <3>1, <3>2
  <2> HIDE DEF D, R
  <2>9. D <=> R
    BY <2>8
  <2> QED
    BY <2>9 DEF D, R, fj
<1> HIDE DEF B
<1> QED
  BY <1>1, <1>3, <1>4 DEF Reducers

-----------------------------------------------------------------------------
(* What is left to divide, for a store, a leading term and a stage *)

TakenOf(l, st, m) == IF (st = "adding" \/ l.known) /\ m = l.mono THEN l.coef ELSE 0
Left(s, l, st) == [m \in Monos |-> (StoreSum(s, Hashed, m) + TakenOf(l, st, m)) % P]

LEMMA WaitingIs == Waiting = Left(Store, lead, stage)
BY DEF Waiting, Left, StoreSum, Store, Taken, TakenOf

LEMMA NewWaiting ==
  ASSUME reducer' = reducer, NEW s, SetStore(s)
  PROVE  Waiting' = Left(s, lead', stage')
<1>1. queue' = s.queue /\ table' = s.table /\ Hashed' = Hashed
  BY DEF SetStore, Hashed
<1> QED
  BY <1>1 DEF Waiting, Left, StoreSum, Taken, TakenOf

LEMMA LeftIs ==
  ASSUME InputsFit, NEW s, SoundStore(s, reducer), NEW l, IsLead(l), NEW st
  PROVE  /\ Left(s, l, st) \in Poly
         /\ \A m \in Monos :
              /\ Left(s, l, st)[m] = (StoreSum(s, Hashed, m) + TakenOf(l, st, m)) % P
              /\ Left(s, l, st)[m] \in Coefs
              /\ StoreSum(s, Hashed, m) \in Nat /\ TakenOf(l, st, m) \in Nat
<1>1. ASSUME NEW m \in Monos
      PROVE  /\ (StoreSum(s, Hashed, m) + TakenOf(l, st, m)) % P \in Coefs
             /\ StoreSum(s, Hashed, m) \in Nat /\ TakenOf(l, st, m) \in Nat
  <2>1. StoreSum(s, Hashed, m) \in Nat
    BY StoreSumType
  <2>2. TakenOf(l, st, m) \in Nat
    <3>1. l.coef \in Nat /\ 0 \in Nat
      BY Remainders DEF IsLead
    <3> QED
      BY <3>1 DEF TakenOf
  <2>3. StoreSum(s, Hashed, m) + TakenOf(l, st, m) \in Nat
    BY <2>1, <2>2
  <2> QED
    BY <2>1, <2>2, <2>3, Remainders
<1> QED
  BY <1>1 DEF Left, Poly

(* Nothing is left to divide but what has been found before. *)
LEMMA LeftSame ==
  ASSUME NEW s, NEW l, NEW st, NEW r, NEW k, NEW su,
         \A m \in Monos : Same(StoreSum(s, Hashed, m) + TakenOf(l, st, m),
                               StoreSum(r, Hashed, m) + TakenOf(k, su, m))
  PROVE  Left(s, l, st) = Left(r, k, su)
BY DEF Left, Same

LEMMA BelowMore ==
  ASSUME InputsFit, NEW q \in Seq(Chains), NEW a \in Nat, NEW b \in Nat, a <= b, QueueBelow(q, a)
  PROVE  QueueBelow(q, b)
<1> SUFFICES ASSUME NEW i \in 1..Len(q) PROVE Current(q[i]).mono < b
  BY DEF QueueBelow
<1>1. Current(q[i]).mono \in Nat
  <2>1. q[i] \in Chains
    OBVIOUS
  <2> QED
    BY <2>1, ChainIs
<1>2. Current(q[i]).mono < a
  BY DEF QueueBelow
<1> QED
  BY <1>1, <1>2

LEMMA LastIs ==
  ASSUME InputsFit, NEW terms \in TermSpans, terms # <<>>
  PROVE  Last(terms).mono \in Monos /\ Last(terms).mono \in Nat
<1>1. terms \in Seq(Terms) /\ Len(terms) \in Nat
  BY TermsAre
<1>2. Len(terms) # 0
  BY <1>1
<1>3. Len(terms) \in 1..Len(terms)
  BY <1>1, <1>2
<1>4. Last(terms) = terms[Len(terms)]
  BY DEF Last
<1> QED
  BY <1>3, <1>4, TermsAre

LEMMA EmptyStore ==
  ASSUME InputsFit, NEW s, IsStore(s), s.queue = <<>>, s.table = <<>>
  PROVE  /\ SoundStore(s, reducer)
         /\ \A b : QueueBelow(s.queue, b)
         /\ \A m \in Monos : StoreSum(s, Hashed, m) = 0
<1>1. s.queue \in Seq(Chains) /\ DOMAIN s.queue = {} /\ DOMAIN s.table = {}
  OBVIOUS
<1>2. MonosIn(s.queue) = {}
  BY <1>1 DEF MonosIn
<1>3. s.table \in [{} -> Coefs]
  BY <1>1
<1>4. SoundTable(s.table, s.queue)
  BY <1>1, <1>2, <1>3 DEF SoundTable, Distinct
<1>5. SoundStore(s, reducer)
  BY <1>1, <1>4 DEF SoundStore
<1>6. \A m \in Monos : StoreSum(s, Hashed, m) = 0
  <2> SUFFICES ASSUME NEW m \in Monos PROVE StoreSum(s, Hashed, m) = 0
    OBVIOUS
  <2>1. Queued(s.queue, Hashed, m) = 0
    BY QueuedOfNone, HashedType
  <2>2. Stored(s.table, m) = 0
    BY <1>1 DEF Stored
  <2>3. 0 + 0 = 0
    OBVIOUS
  <2> QED
    BY <2>1, <2>2, <2>3 DEF StoreSum
<1> QED
  BY <1>1, <1>5, <1>6 DEF QueueBelow

-----------------------------------------------------------------------------
(* Steps that only look for the leading term *)

LEMMA InvParts ==
  ASSUME InputsFit, RInv
  PROVE  /\ reducer \in Kinds /\ SoundStore(Store, reducer) /\ Store.queue = queue /\ Store.table = table
         /\ queue \in Seq(Chains) /\ DOMAIN queue = 1..Len(queue)
         /\ IsLead(lead) /\ lead.mono \in Monos /\ lead.mono \in Nat
         /\ lead.coef \in Coefs /\ lead.coef \in Nat /\ lead.known \in BOOLEAN
         /\ lead = [known |-> lead.known, mono |-> lead.mono, coef |-> lead.coef]
         /\ result \in TermSpans /\ NonZero(result) /\ jobs \in Seq(Jobs)
         /\ stage \in {"idle", "reducing", "adding"}
         /\ reducedOut \in Seq([job : Jobs, poly : TermSpans])
<1>1. /\ reducer \in Kinds /\ SoundStore(Store, reducer) /\ IsLead(lead)
      /\ result \in TermSpans /\ NonZero(result) /\ jobs \in Seq(Jobs)
      /\ stage \in {"idle", "reducing", "adding"}
      /\ reducedOut \in Seq([job : Jobs, poly : TermSpans])
  BY DEF RInv, LeadInv, ResultInv, StageInv
<1>2. Store.queue = queue /\ Store.table = table
  BY DEF Store
<1>3. queue \in Seq(Chains)
  BY <1>1, <1>2 DEF SoundStore
<1>4. /\ lead.mono \in Monos /\ lead.coef \in Coefs /\ lead.known \in BOOLEAN
      /\ lead = [known |-> lead.known, mono |-> lead.mono, coef |-> lead.coef]
  BY <1>1 DEF IsLead
<1>5. lead.mono \in Nat /\ lead.coef \in Nat
  BY <1>4, Remainders DEF Monos, InputsFit
<1> QED
  BY <1>1, <1>2, <1>3, <1>4, <1>5

LEMMA SoundLater ==
  ASSUME reducer' = reducer, NEW s, SetStore(s), SoundStore(s, reducer)
  PROVE  SoundStore(Store, reducer)' /\ Store' = s
<1>1. s = [queue |-> s.queue, table |-> s.table] /\ queue' = s.queue /\ table' = s.table
  BY DEF SetStore, SoundStore, IsStore
<1>2. Store' = s
  BY <1>1 DEF Store
<1> QED
  BY <1>2

(* A step that leaves what is left to divide as it is *)
LEMMA Searched ==
  ASSUME InputsFit, RInv, stage # "idle", stage' \in {"reducing", "adding"},
         UNCHANGED <<reducer, jobs, result, reducedOut>>,
         NEW s, SetStore(s), SoundStore(s, reducer), LeadInv',
         Left(s, lead', stage') = Left(Store, lead, stage),
         result # <<>> => /\ QueueBelow(s.queue, Last(result).mono)
                          /\ lead'.known \/ stage' = "adding" => lead'.mono < Last(result).mono
  PROVE  RInv' /\ Waiting' = Waiting
<1>1. SoundStore(Store, reducer)' /\ queue' = s.queue
  BY SoundLater DEF SetStore
<1>2. Waiting' = Waiting
  BY NewWaiting, WaitingIs
<1>3. StageInv'
  BY DEF RInv, StageInv
<1>4. ResultInv'
  BY <1>1 DEF RInv, ResultInv
<1> QED
  BY <1>1, <1>2, <1>3, <1>4 DEF RInv

LEMMA DeduplicateKeeps ==
  ASSUME InputsFit, RInv, Deduplicate
  PROVE  RInv' /\ Waiting' = Waiting
<1>1. /\ ~Hashed /\ UNCHANGED <<reducer, jobs, stage, table, lead, result, reducedOut>>
      /\ reducer \in {"Dedup", "PackDedup"}
  BY DEF Deduplicate, Hashed
<1>2. PICK i \in DOMAIN queue : \E j \in DOMAIN queue :
        /\ i < j /\ Current(queue[i]).mono = Current(queue[j]).mono
        /\ queue' = RemoveAt([queue EXCEPT ![i] = Merged(queue, i, j)], j)
  BY <1>1 DEF Deduplicate, Merged
<1>3. PICK j \in DOMAIN queue :
        /\ i < j /\ Current(queue[i]).mono = Current(queue[j]).mono
        /\ queue' = RemoveAt([queue EXCEPT ![i] = Merged(queue, i, j)], j)
  BY <1>2
<1> DEFINE s == [queue |-> queue', table |-> table]
<1>4. /\ SoundStore(Store, reducer) /\ Store.queue = queue /\ Store.table = table
      /\ queue \in Seq(Chains) /\ IsLead(lead) /\ lead.mono \in Nat
      /\ stage \in {"idle", "reducing", "adding"} /\ result \in TermSpans
  BY InvParts
<1>5. /\ i \in DOMAIN Store.queue /\ j \in DOMAIN Store.queue
      /\ Current(Store.queue[i]).mono = Current(Store.queue[j]).mono
      /\ queue' = RemoveAt([Store.queue EXCEPT ![i] = Merged(Store.queue, i, j)], j)
  BY <1>3, <1>4
<1>6. /\ SoundStore([queue |-> queue', table |-> Store.table], reducer)
      /\ \A m \in Monos : Same(Queued(Store.queue, FALSE, m), Queued(queue', FALSE, m))
      /\ \A b \in Nat : QueueBelow(Store.queue, b) => QueueBelow(queue', b)
  BY <1>1, <1>3, <1>4, <1>5, Deduplicated
<1>7. /\ SoundStore(s, reducer) /\ s.queue = queue' /\ s.table = table
      /\ \A m \in Monos : Same(Queued(queue, FALSE, m), Queued(queue', FALSE, m))
      /\ \A b \in Nat : QueueBelow(queue, b) => QueueBelow(queue', b)
  BY <1>4, <1>6
<1> HIDE DEF s
<1>8. SetStore(s)
  BY <1>1, <1>7 DEF SetStore
<1>9. stage # "idle"
  <2> SUFFICES ASSUME stage = "idle" PROVE FALSE
    OBVIOUS
  <2>1. queue = <<>>
    BY DEF RInv, StageInv
  <2> QED
    BY <1>3, <2>1
<1>10. LeadInv'
  <2>1. lead.mono + 1 \in Nat
    BY <1>4
  <2> QED
    BY <1>1, <1>4, <1>7, <2>1 DEF RInv, LeadInv, Hashed
<1>11. Left(s, lead', stage') = Left(Store, lead, stage)
  <2>1. ASSUME NEW m \in Monos
        PROVE  Same(StoreSum(s, Hashed, m) + TakenOf(lead, stage, m),
                    StoreSum(Store, Hashed, m) + TakenOf(lead, stage, m))
    <3> DEFINE x == StoreSum(s, Hashed, m)
               y == StoreSum(Store, Hashed, m)
               t == TakenOf(lead, stage, m)
    <3>1. x \in Nat /\ y \in Nat /\ t \in Nat
      BY <1>4, <1>7, LeftIs
    <3>2. Same(x, y)
      <4>1. Hashed = FALSE
        BY <1>1, HashedType
      <4>2. /\ x = Queued(queue', FALSE, m) + Stored(table, m) /\ Queued(queue', FALSE, m) \in Nat
            /\ y = Queued(queue, FALSE, m) + Stored(table, m) /\ Queued(queue, FALSE, m) \in Nat
            /\ Stored(table, m) = 0
        BY <1>1, <1>4, <1>7, <4>1, StoreSumType DEF StoreSum
      <4>3. x = Queued(queue', FALSE, m) /\ y = Queued(queue, FALSE, m)
        <5>1. \A k \in Nat : k + 0 = k
          OBVIOUS
        <5> HIDE DEF x, y
        <5>2. x = Queued(queue', FALSE, m) + 0 /\ y = Queued(queue, FALSE, m) + 0
          BY <4>2
        <5> QED
          BY <4>2, <5>1, <5>2
      <4> QED
        BY <1>7, <4>3 DEF Same
    <3>3. Same(t, t)
      BY DEF Same
    <3> HIDE DEF x, y, t
    <3>4. Same(x + t, y + t)
      BY <3>1, <3>2, <3>3, SameSum
    <3> QED
      BY <3>4 DEF x, y, t
  <2>2. Left(s, lead, stage) = Left(Store, lead, stage)
    BY <2>1, LeftSame
  <2> QED
    BY <1>1, <2>2
<1>12. result # <<>> => /\ QueueBelow(s.queue, Last(result).mono)
                        /\ lead'.known \/ stage' = "adding" => lead'.mono < Last(result).mono
  <2>1. result # <<>> => Last(result).mono \in Nat
    BY <1>4, LastIs
  <2> QED
    BY <1>1, <1>7, <2>1 DEF RInv, ResultInv
<1>13. stage' \in {"reducing", "adding"}
  BY <1>1, <1>4, <1>9
<1> QED
  BY <1>1, <1>7, <1>8, <1>9, <1>10, <1>11, <1>12, <1>13, Searched

LEMMA EndOfLikeTermsKeeps ==
  ASSUME InputsFit, RInv, EndOfLikeTerms
  PROVE  RInv' /\ Waiting' = Waiting
<1>1. /\ stage = "adding" /\ stage' = "reducing" /\ LikeTops = {}
      /\ lead' = [lead EXCEPT !.known = lead.coef # 0]
      /\ UNCHANGED <<reducer, jobs, queue, table, result, reducedOut>>
  BY DEF EndOfLikeTerms
<1>2. /\ SoundStore(Store, reducer) /\ Store.queue = queue /\ Store.table = table
      /\ queue \in Seq(Chains) /\ IsLead(lead) /\ lead.mono \in Nat
      /\ lead = [known |-> lead.known, mono |-> lead.mono, coef |-> lead.coef]
      /\ lead.mono \in Monos /\ lead.coef \in Coefs
  BY InvParts
<1>3. /\ lead'.known = (lead.coef # 0) /\ lead'.mono = lead.mono /\ lead'.coef = lead.coef
      /\ IsLead(lead')
  <2>1. lead' = [known |-> lead.coef # 0, mono |-> lead.mono, coef |-> lead.coef]
    BY <1>1, <1>2
  <2>2. (lead.coef # 0) \in BOOLEAN
    OBVIOUS
  <2>3. lead'.known = (lead.coef # 0) /\ lead'.mono = lead.mono /\ lead'.coef = lead.coef
    BY <2>1
  <2>4. lead' \in [known : BOOLEAN, mono : Monos, coef : Coefs]
    BY <1>2, <2>1, <2>2
  <2> QED
    BY <2>3, <2>4 DEF IsLead
<1>4. SetStore(Store)
  BY <1>1, <1>2 DEF SetStore
<1>5. ~Hashed /\ QueueBelow(queue, lead.mono + 1)
  BY <1>1 DEF RInv, LeadInv
<1>6. QueueBelow(queue, lead.mono)
  <2>1. \A i \in Tops(queue) : Current(queue[i]).mono # lead.mono
    BY <1>1 DEF LikeTops
  <2> QED
    BY <1>2, <1>5, <2>1, NoTopLike
<1>7. LeadInv'
  BY <1>1, <1>3, <1>5, <1>6 DEF LeadInv, Hashed
<1>8. Left(Store, lead', stage') = Left(Store, lead, stage)
  <2>1. ASSUME NEW m \in Monos
        PROVE  TakenOf(lead', stage', m) = TakenOf(lead, stage, m)
    BY <1>1, <1>3 DEF TakenOf
  <2> QED
    BY <2>1 DEF Left
<1>9. result # <<>> => /\ QueueBelow(Store.queue, Last(result).mono)
                       /\ lead'.known \/ stage' = "adding" => lead'.mono < Last(result).mono
  BY <1>1, <1>2, <1>3 DEF RInv, ResultInv
<1> QED
  BY <1>1, <1>2, <1>4, <1>7, <1>8, <1>9, Searched

(* The sum grows by a like entry, which goes. *)
LEMMA LikeTaken ==
  ASSUME InputsFit, RInv, ~Hashed, NEW i \in Tops(queue), NEW m0, NEW e, NEW sum,
         m0 = Current(queue[i]).mono, e = ChainSum(queue[i]),
         stage \in {"reducing", "adding"}, stage' = "adding",
         stage = "adding" => m0 = lead.mono,
         stage = "reducing" => ~lead.known,
         sum = (IF stage = "adding" THEN (lead.coef + e) % P ELSE e),
         lead' = [known |-> FALSE, mono |-> m0, coef |-> sum],
         queue' = Advance(i),
         UNCHANGED <<reducer, jobs, table, result, reducedOut>>
  PROVE  RInv' /\ Waiting' = Waiting
<1> DEFINE s == [queue |-> queue', table |-> table]
<1>1. /\ SoundStore(Store, reducer) /\ Store.queue = queue /\ Store.table = table
      /\ queue \in Seq(Chains) /\ DOMAIN queue = 1..Len(queue)
      /\ IsLead(lead) /\ lead.mono \in Nat /\ lead.coef \in Nat /\ result \in TermSpans
  BY InvParts
<1>2. Gone(Store, queue', m0, e)
  BY <1>1, Advanced
<1>3. /\ SoundStore(s, reducer) /\ s.queue = queue' /\ s.table = table
      /\ QueueBelow(queue', m0 + 1) /\ m0 \in Monos /\ e \in Coefs /\ e \in Nat
      /\ \A m \in Monos : Same(Queued(queue, FALSE, m),
                               Queued(queue', FALSE, m) + (IF m = m0 THEN e ELSE 0))
  <2>1. /\ SoundStore([queue |-> queue', table |-> Store.table], reducer)
        /\ QueueBelow(queue', m0 + 1) /\ m0 \in Monos /\ e \in Coefs
        /\ \A m \in Monos : Same(Queued(Store.queue, FALSE, m),
                                 Queued(queue', FALSE, m) + (IF m = m0 THEN e ELSE 0))
    BY <1>2 DEF Gone
  <2>2. SoundStore(s, reducer) /\ s.queue = queue' /\ s.table = table
    BY <1>1, <2>1
  <2> HIDE DEF s
  <2> QED
    BY <1>1, <2>1, <2>2, Remainders
<1> HIDE DEF s
<1>4. SetStore(s)
  BY <1>3 DEF SetStore
<1>5. /\ lead'.known = FALSE /\ lead'.mono = m0 /\ lead'.coef = sum /\ sum \in Coefs
      /\ IsLead(lead')
  <2>1. sum \in Coefs
    <3>1. lead.coef + e \in Nat
      BY <1>1, <1>3
    <3>2. (lead.coef + e) % P \in Coefs
      BY <3>1, Remainders
    <3> QED
      BY <1>3, <3>2
  <2>2. lead'.known = FALSE /\ lead'.mono = m0 /\ lead'.coef = sum
    OBVIOUS
  <2>3. lead' \in [known : BOOLEAN, mono : Monos, coef : Coefs]
    BY <1>3, <2>1
  <2> QED
    BY <2>1, <2>2, <2>3 DEF IsLead
<1>6. LeadInv'
  BY <1>3, <1>5 DEF LeadInv, Hashed
<1>7. ASSUME NEW m \in Monos
      PROVE  Same(StoreSum(s, Hashed, m) + TakenOf(lead', stage', m),
                  StoreSum(Store, Hashed, m) + TakenOf(lead, stage, m))
  <2> DEFINE x == StoreSum(s, Hashed, m)
             y == StoreSum(Store, Hashed, m)
             d == IF m = m0 THEN e ELSE 0
             t == TakenOf(lead, stage, m)
             u == TakenOf(lead', stage', m)
  <2>1. x \in Nat /\ y \in Nat /\ t \in Nat /\ u \in Nat /\ d \in Nat
    BY <1>1, <1>3, <1>5, LeftIs
  <2>2. Same(y, x + d)
    <3>1. Hashed = FALSE
      BY HashedType
    <3>2. /\ x = Queued(queue', FALSE, m) + 0 /\ Queued(queue', FALSE, m) \in Nat
          /\ y = Queued(queue, FALSE, m) + 0 /\ Queued(queue, FALSE, m) \in Nat
      BY <1>1, <1>3, <3>1, StoreSumType DEF StoreSum
    <3>3. \A k \in Nat : k + 0 = k
      OBVIOUS
    <3>4. Same(Queued(queue, FALSE, m), Queued(queue', FALSE, m) + d)
      BY <1>3
    <3> HIDE DEF x, y, d
    <3>5. x = Queued(queue', FALSE, m) /\ y = Queued(queue, FALSE, m)
      BY <3>2, <3>3
    <3> QED
      BY <3>4, <3>5
  <2>3. Same(u, d + t)
    <3>1. CASE m = m0 /\ stage = "adding"
      <4>1. u = (lead.coef + e) % P /\ d = e /\ t = lead.coef
        BY <1>5, <3>1 DEF TakenOf
      <4>2. lead.coef + e \in Nat /\ lead.coef + e = e + lead.coef
        BY <1>1, <1>3
      <4>3. Same((lead.coef + e) % P, lead.coef + e)
        BY <4>2, SameModulo
      <4> HIDE DEF u, d, t
      <4> QED
        BY <4>1, <4>2, <4>3
    <3>2. CASE m = m0 /\ stage = "reducing"
      <4>1. u = e /\ d = e /\ t = 0
        BY <1>5, <3>2 DEF TakenOf
      <4>2. e + 0 = e
        BY <1>3
      <4> HIDE DEF u, d, t
      <4> QED
        BY <4>1, <4>2 DEF Same
    <3>3. CASE m # m0
      <4>1. u = 0 /\ d = 0 /\ t = 0
        BY <1>5, <3>3 DEF TakenOf
      <4>2. 0 + 0 = 0
        OBVIOUS
      <4> HIDE DEF u, d, t
      <4> QED
        BY <4>1, <4>2 DEF Same
    <3> QED
      BY <3>1, <3>2, <3>3
  <2> HIDE DEF x, y, d, t, u
  <2>4. Same(x, x) /\ Same(t, t)
    BY DEF Same
  <2>5. d + t \in Nat /\ x + d \in Nat
    BY <2>1
  <2>6. Same(x + u, x + (d + t))
    BY <2>1, <2>3, <2>4, <2>5, SameSum
  <2>7. Same(y + t, (x + d) + t)
    BY <2>1, <2>2, <2>4, <2>5, SameSum
  <2>8. x + (d + t) = (x + d) + t
    BY <2>1
  <2>9. Same(x + u, y + t)
    BY <2>6, <2>7, <2>8 DEF Same
  <2> QED
    BY <2>9 DEF x, u, y, t
<1>8. Left(s, lead', stage') = Left(Store, lead, stage)
  BY <1>7 DEF Left, Same
<1>9. result # <<>> => /\ QueueBelow(s.queue, Last(result).mono)
                       /\ lead'.known \/ stage' = "adding" => lead'.mono < Last(result).mono
  <2> SUFFICES ASSUME result # <<>>
               PROVE  QueueBelow(s.queue, Last(result).mono) /\ m0 < Last(result).mono
    BY <1>5
  <2>1. m0 < Last(result).mono
    <3>1. QueueBelow(queue, Last(result).mono) /\ i \in DOMAIN queue
      BY DEF RInv, ResultInv, Tops
    <3> QED
      BY <3>1 DEF QueueBelow
  <2>2. Last(result).mono \in Nat /\ m0 \in Nat
    BY <1>1, <1>3, LastIs DEF Monos
  <2>3. m0 + 1 <= Last(result).mono /\ m0 + 1 \in Nat
    BY <2>1, <2>2
  <2>4. s.queue \in Seq(Chains)
    BY <1>3 DEF SoundStore
  <2>5. QueueBelow(s.queue, Last(result).mono)
    BY <1>3, <2>2, <2>3, <2>4, BelowMore
  <2> QED
    BY <2>1, <2>5
<1> QED
  BY <1>3, <1>4, <1>6, <1>8, <1>9, Searched

LEMMA FirstTopKeeps ==
  ASSUME InputsFit, RInv, FirstTop
  PROVE  RInv' /\ Waiting' = Waiting
<1>1. /\ stage = "reducing" /\ ~Hashed /\ ~lead.known /\ stage' = "adding"
      /\ UNCHANGED <<reducer, jobs, table, result, reducedOut>>
  BY DEF FirstTop
<1>2. PICK i \in Tops(queue) :
        /\ lead' = [known |-> FALSE, mono |-> Current(queue[i]).mono, coef |-> ChainSum(queue[i])]
        /\ queue' = Advance(i)
  BY DEF FirstTop
<1> QED
  BY <1>1, <1>2, LikeTaken

LEMMA NextTopKeeps ==
  ASSUME InputsFit, RInv, NextTop
  PROVE  RInv' /\ Waiting' = Waiting
<1>1. /\ stage = "adding" /\ stage' = "adding" /\ ~Hashed /\ ~lead.known
      /\ UNCHANGED <<reducer, jobs, table, result, reducedOut>>
  BY DEF NextTop, RInv, LeadInv
<1>2. PICK i \in Tops(queue) :
        /\ Current(queue[i]).mono = lead.mono
        /\ lead' = [lead EXCEPT !.coef = (lead.coef + ChainSum(queue[i])) % P]
        /\ queue' = Advance(i)
  BY DEF NextTop, LikeTops
<1>3. lead = [known |-> lead.known, mono |-> lead.mono, coef |-> lead.coef] /\ lead.known = FALSE
  BY <1>1, InvParts
<1>4. lead' = [known |-> FALSE, mono |-> Current(queue[i]).mono,
               coef |-> (lead.coef + ChainSum(queue[i])) % P]
  BY <1>2, <1>3
<1> QED
  BY <1>1, <1>2, <1>4, LikeTaken

LEMMA DropZeroKeeps ==
  ASSUME InputsFit, RInv, DropZero
  PROVE  RInv' /\ Waiting' = Waiting
<1>1. /\ stage = "reducing" /\ Hashed
      /\ UNCHANGED <<reducer, jobs, stage, lead, result, reducedOut>>
  BY DEF DropZero
<1>2. PICK i \in Tops(queue) :
        table[Current(queue[i]).mono] = 0 /\ SetStore(RemoveTop(Store, i))
  BY DEF DropZero
<1>3. PICK m0 : MonoOf(queue[i], m0)
  BY DEF MonoOf
<1> DEFINE s == RemoveTop(Store, i)
<1>4. /\ SoundStore(Store, reducer) /\ Store.queue = queue /\ Store.table = table
      /\ queue \in Seq(Chains) /\ IsLead(lead) /\ result \in TermSpans
  BY InvParts
<1>5. /\ SoundStore(s, reducer) /\ QueueBelow(s.queue, m0) /\ m0 \in Monos
      /\ \A m \in Monos :
           /\ m # m0 => Same(StoreSum(s, Hashed, m), StoreSum(Store, Hashed, m))
           /\ m = m0 => StoreSum(s, Hashed, m) = 0 /\ StoreSum(Store, Hashed, m) = table[m0]
  <2>1. i \in Tops(Store.queue) /\ MonoOf(Store.queue[i], m0)
    BY <1>3, <1>4
  <2> QED
    BY <1>1, <1>4, <2>1, TopRemoved
<1>6. SetStore(s)
  BY <1>2
<1> HIDE DEF s
<1>7. table[m0] = 0 /\ m0 \in Nat
  BY <1>2, <1>3, <1>5 DEF MonoOf, Monos
<1>8. ~lead.known /\ lead'.known = lead.known
  BY <1>1 DEF RInv, LeadInv
<1>9. LeadInv'
  BY <1>1, <1>4, <1>8 DEF LeadInv, Hashed
<1>10. Left(s, lead', stage') = Left(Store, lead, stage)
  <2>1. \A m \in Monos : Same(StoreSum(s, Hashed, m), StoreSum(Store, Hashed, m))
    BY <1>5, <1>7 DEF Same
  <2>2. ASSUME NEW m \in Monos
        PROVE  Same(StoreSum(s, Hashed, m) + TakenOf(lead, stage, m),
                    StoreSum(Store, Hashed, m) + TakenOf(lead, stage, m))
    <3>1. /\ StoreSum(s, Hashed, m) \in Nat /\ StoreSum(Store, Hashed, m) \in Nat
          /\ TakenOf(lead, stage, m) \in Nat
      BY <1>4, <1>5, LeftIs
    <3>2. Same(TakenOf(lead, stage, m), TakenOf(lead, stage, m))
      BY DEF Same
    <3> QED
      BY <2>1, <3>1, <3>2, SameSum
  <2>3. Left(s, lead, stage) = Left(Store, lead, stage)
    BY <2>2 DEF Left, Same
  <2> QED
    BY <1>1, <2>3
<1>11. result # <<>> => /\ QueueBelow(s.queue, Last(result).mono)
                        /\ lead'.known \/ stage' = "adding" => lead'.mono < Last(result).mono
  <2> SUFFICES ASSUME result # <<>> PROVE QueueBelow(s.queue, Last(result).mono)
    BY <1>1, <1>8
  <2>1. Last(result).mono \in Nat
    BY <1>4, LastIs
  <2>2. m0 < Last(result).mono
    <3>1. QueueBelow(queue, Last(result).mono) /\ i \in DOMAIN queue
      BY <1>2 DEF RInv, ResultInv, Tops
    <3> QED
      BY <1>3, <3>1 DEF QueueBelow, MonoOf
  <2>3. s.queue \in Seq(Chains) /\ m0 <= Last(result).mono
    BY <1>5, <1>7, <2>1, <2>2 DEF SoundStore
  <2> QED
    BY <1>5, <1>7, <2>1, <2>3, BelowMore
<1> QED
  BY <1>1, <1>5, <1>6, <1>9, <1>10, <1>11, Searched

-----------------------------------------------------------------------------
(* Steps that divide *)

(* The leading term has been found, and taken out of the store. *)
LeadTaken(term, s) ==
  /\ SoundStore(s, reducer)
  /\ term \in Terms /\ term.coef # 0
  /\ QueueBelow(s.queue, term.mono)
  /\ result # <<>> => term.mono < Last(result).mono
  /\ Leads(term.mono, Waiting) /\ Waiting[term.mono] = term.coef
  /\ \A m \in Monos : StoreSum(s, Hashed, m) % P = IF m = term.mono THEN 0 ELSE Waiting[m]

LEMMA HashedLead ==
  ASSUME InputsFit, RInv, stage = "reducing", Hashed, NEW i \in Tops(queue),
         table[Current(queue[i]).mono] # 0
  PROVE  LeadTaken(Term(Current(queue[i]).mono, table[Current(queue[i]).mono]), RemoveTop(Store, i))
<1>1. PICK m0 : MonoOf(queue[i], m0)
  BY DEF MonoOf
<1>2. m0 = Current(queue[i]).mono
  BY <1>1 DEF MonoOf
<1> DEFINE s == RemoveTop(Store, i)
           c == table[m0]
           t == Term(m0, c)
<1>3. /\ SoundStore(Store, reducer) /\ Store.queue = queue /\ Store.table = table
      /\ queue \in Seq(Chains) /\ IsLead(lead) /\ ~lead.known
  BY InvParts DEF RInv, LeadInv
<1>4. /\ SoundStore(s, reducer) /\ QueueBelow(s.queue, m0) /\ m0 \in Monos /\ c \in Coefs
      /\ \A m \in Monos :
           /\ m # m0 => Same(StoreSum(s, Hashed, m), StoreSum(Store, Hashed, m))
           /\ m = m0 => StoreSum(s, Hashed, m) = 0 /\ StoreSum(Store, Hashed, m) = c
           /\ m > m0 => StoreSum(Store, Hashed, m) = 0
  <2>1. i \in Tops(Store.queue) /\ MonoOf(Store.queue[i], m0)
    BY <1>1, <1>3
  <2> QED
    BY ZenonT(40), <1>3, <2>1, TopRemoved
<1>5. t \in Terms /\ t.mono = m0 /\ t.coef = c /\ c # 0
  BY <1>2, <1>4 DEF Term, Terms
<1> HIDE DEF s, t, c
<1>6. ASSUME NEW m \in Monos
      PROVE  Waiting[m] = StoreSum(Store, Hashed, m) % P
  <2>1. /\ Waiting[m] = (StoreSum(Store, Hashed, m) + TakenOf(lead, stage, m)) % P
        /\ StoreSum(Store, Hashed, m) \in Nat
    BY <1>3, WaitingIs, LeftIs
  <2>2. TakenOf(lead, stage, m) = 0
    BY <1>3 DEF TakenOf
  <2>3. \A k \in Nat : k + 0 = k
    OBVIOUS
  <2> QED
    BY <2>1, <2>2, <2>3
<1>7. 0 % P = 0 /\ c % P = c
  BY <1>4, Remainders
<1>8. Waiting[m0] = c /\ \A m \in Monos : m > m0 => Waiting[m] = 0
  BY <1>4, <1>6, <1>7
<1>9. Leads(m0, Waiting)
  BY <1>4, <1>5, <1>8 DEF Leads
<1>10. \A m \in Monos : StoreSum(s, Hashed, m) % P = IF m = m0 THEN 0 ELSE Waiting[m]
  BY <1>4, <1>6, <1>7 DEF Same
<1>11. result # <<>> => m0 < Last(result).mono
  <2>1. result # <<>> => QueueBelow(queue, Last(result).mono) /\ i \in DOMAIN queue
    BY DEF RInv, ResultInv, Tops
  <2> QED
    BY <1>2, <2>1 DEF QueueBelow
<1>12. LeadTaken(t, s)
  BY <1>4, <1>5, <1>8, <1>9, <1>10, <1>11 DEF LeadTaken
<1> QED
  BY <1>2, <1>12 DEF t, c, s

LEMMA KnownLead ==
  ASSUME InputsFit, RInv, stage = "reducing", ~Hashed, lead.known
  PROVE  LeadTaken(Term(lead.mono, lead.coef), Store)
<1> DEFINE t == Term(lead.mono, lead.coef)
           m0 == lead.mono
           c == lead.coef
<1>1. /\ SoundStore(Store, reducer) /\ Store.queue = queue /\ Store.table = table
      /\ queue \in Seq(Chains) /\ IsLead(lead) /\ m0 \in Monos /\ m0 \in Nat
      /\ c \in Coefs /\ c \in Nat
  BY InvParts
<1>2. c # 0 /\ QueueBelow(queue, m0) /\ (result # <<>> => m0 < Last(result).mono)
  BY DEF RInv, LeadInv, IsLead, ResultInv
<1>3. t \in Terms /\ t.mono = m0 /\ t.coef = c
  BY <1>1 DEF Term, Terms
<1> HIDE DEF t
<1>4. ASSUME NEW m \in Monos
      PROVE  /\ Waiting[m] = (StoreSum(Store, Hashed, m) + TakenOf(lead, stage, m)) % P
             /\ StoreSum(Store, Hashed, m) \in Nat /\ m \in Nat
             /\ TakenOf(lead, stage, m) = (IF m = m0 THEN c ELSE 0)
             /\ m >= m0 => StoreSum(Store, Hashed, m) = 0
  <2>1. /\ Waiting[m] = (StoreSum(Store, Hashed, m) + TakenOf(lead, stage, m)) % P
        /\ StoreSum(Store, Hashed, m) \in Nat /\ m \in Nat
    BY <1>1, WaitingIs, LeftIs DEF Monos
  <2>2. TakenOf(lead, stage, m) = (IF m = m0 THEN c ELSE 0)
    BY DEF TakenOf
  <2>3. ASSUME m >= m0 PROVE StoreSum(Store, Hashed, m) = 0
    <3>1. QueueBelow(queue, m)
      BY <1>1, <1>2, <2>1, <2>3, BelowMore
    <3>2. Queued(queue, Hashed, m) = 0
      BY <1>1, <3>1, HashedType, NothingAbove
    <3>3. Stored(table, m) = 0
      BY <1>1, StoreSumType
    <3>4. 0 + 0 = 0
      OBVIOUS
    <3> QED
      BY <1>1, <3>2, <3>3, <3>4 DEF StoreSum
  <2> QED
    BY <2>1, <2>2, <2>3
<1> HIDE DEF m0, c
<1>5. 0 % P = 0 /\ c % P = c /\ 0 + c = c /\ (\A k \in Nat : k + 0 = k) /\ m0 >= m0
  BY <1>1, Remainders
<1>6. Waiting[m0] = c /\ \A m \in Monos : m > m0 => Waiting[m] = 0
  <2>1. Waiting[m0] = c
    BY <1>1, <1>4, <1>5
  <2>2. ASSUME NEW m \in Monos, m > m0 PROVE Waiting[m] = 0
    <3>1. m >= m0 /\ m # m0
      BY <1>1, <1>4, <2>2
    <3> QED
      BY <1>4, <1>5, <3>1
  <2> QED
    BY <2>1, <2>2
<1>7. Leads(m0, Waiting)
  BY <1>1, <1>2, <1>6 DEF Leads, m0, c
<1>8. \A m \in Monos : StoreSum(Store, Hashed, m) % P = IF m = m0 THEN 0 ELSE Waiting[m]
  BY <1>4, <1>5
<1> QED
  BY <1>1, <1>2, <1>3, <1>6, <1>7, <1>8 DEF LeadTaken, t, m0, c

LEMMA LeadTermIs ==
  ASSUME InputsFit, RInv, stage = "reducing", NEW l \in LeadTerms
  PROVE  LeadTaken(l.term, l.store)
<1>1. CASE Hashed
  <2>1. PICK i \in Tops(queue) :
          /\ table[Current(queue[i]).mono] # 0
          /\ l = [term |-> Term(Current(queue[i]).mono, table[Current(queue[i]).mono]),
                  store |-> RemoveTop(Store, i)]
    BY <1>1 DEF LeadTerms
  <2>2. /\ l.term = Term(Current(queue[i]).mono, table[Current(queue[i]).mono])
        /\ l.store = RemoveTop(Store, i)
    BY <2>1
  <2>3. LeadTaken(Term(Current(queue[i]).mono, table[Current(queue[i]).mono]), RemoveTop(Store, i))
    BY <1>1, <2>1, HashedLead
  <2> QED
    BY <2>2, <2>3
<1>2. CASE ~Hashed
  <2>1. lead.known /\ l = [term |-> Term(lead.mono, lead.coef), store |-> Store]
    BY <1>2 DEF LeadTerms
  <2>2. l.term = Term(lead.mono, lead.coef) /\ l.store = Store
    BY <2>1
  <2>3. LeadTaken(Term(lead.mono, lead.coef), Store)
    BY <1>2, <2>1, KnownLead
  <2> QED
    BY <2>2, <2>3
<1> QED
  BY <1>1, <1>2

(* A step that takes the leading term *)
LEMMA Divided ==
  ASSUME InputsFit, RInv, stage = "reducing", stage' = "reducing",
         lead' = [lead EXCEPT !.known = FALSE],
         UNCHANGED <<reducer, jobs, reducedOut>>,
         NEW s, SetStore(s), SoundStore(s, reducer),
         result' \in TermSpans, NonZero(result'),
         result' # <<>> => QueueBelow(s.queue, Last(result').mono)
  PROVE  RInv' /\ Waiting' = [m \in Monos |-> StoreSum(s, Hashed, m) % P]
<1>1. SoundStore(Store, reducer)' /\ queue' = s.queue
  BY SoundLater DEF SetStore
<1>2. lead' = [known |-> FALSE, mono |-> lead.mono, coef |-> lead.coef] /\ lead.mono \in Monos
      /\ lead.coef \in Coefs
  BY InvParts
<1>3. lead'.known = FALSE /\ IsLead(lead')
  <2>1. lead' \in [known : BOOLEAN, mono : Monos, coef : Coefs] /\ lead'.known = FALSE
    BY <1>2
  <2> QED
    BY <2>1 DEF IsLead
<1>4. Waiting' = [m \in Monos |-> StoreSum(s, Hashed, m) % P]
  <2>1. ASSUME NEW m \in Monos
        PROVE  (StoreSum(s, Hashed, m) + TakenOf(lead', stage', m)) % P = StoreSum(s, Hashed, m) % P
    <3>1. TakenOf(lead', stage', m) = 0
      BY <1>3 DEF TakenOf
    <3>2. StoreSum(s, Hashed, m) \in Nat
      BY StoreSumType
    <3>3. \A k \in Nat : k + 0 = k
      OBVIOUS
    <3> QED
      BY <3>1, <3>2, <3>3
  <2>2. Waiting' = Left(s, lead', stage')
    BY NewWaiting
  <2>3. Left(s, lead', stage')
          = [m \in Monos |-> (StoreSum(s, Hashed, m) + TakenOf(lead', stage', m)) % P]
    BY DEF Left
  <2> QED
    BY <2>1, <2>2, <2>3
<1>5. StageInv' /\ LeadInv' /\ ResultInv'
  <2>1. StageInv'
    BY DEF RInv, StageInv
  <2>2. LeadInv'
    BY <1>3 DEF LeadInv
  <2>3. ResultInv'
    BY <1>1, <1>3 DEF ResultInv
  <2> QED
    BY <2>1, <2>2, <2>3
<1> QED
  BY <1>1, <1>4, <1>5 DEF RInv

LEMMA HeadJob ==
  ASSUME InputsFit, RInv, jobs # <<>>
  PROVE  /\ Head(jobs) \in Jobs /\ Head(Mapped(jobs)) = JobAsFunction(Head(jobs))
         /\ Mapped(jobs) # <<>>
         /\ Tail(jobs) \in Seq(Jobs) /\ Tail(Mapped(jobs)) = Mapped(Tail(jobs))
         /\ \A m : Division!Reducers(m, Head(Mapped(jobs))) = Reducers(m, Head(jobs))
<1>1. jobs \in Seq(Jobs)
  BY InvParts
<1>2. /\ Head(jobs) \in Jobs /\ Head(Mapped(jobs)) = JobAsFunction(Head(jobs))
      /\ Mapped(jobs) # <<>>
      /\ Tail(jobs) \in Seq(Jobs) /\ Tail(Mapped(jobs)) = Mapped(Tail(jobs))
  BY <1>1, MapHead
<1>3. ASSUME NEW m PROVE Division!Reducers(m, JobAsFunction(Head(jobs))) = Reducers(m, Head(jobs))
  BY <1>2, ReducersMap
<1> QED
  BY <1>2, <1>3

LEMMA WaitingType ==
  ASSUME InputsFit, RInv
  PROVE  \A m \in Monos : Waiting[m] \in Coefs /\ Waiting[m] \in Nat /\ Waiting[m] % P = Waiting[m]
<1>1. \A m \in Monos : Waiting[m] \in Coefs
  BY InvParts, WaitingIs, LeftIs
<1> QED
  BY <1>1, Remainders

LEMMA KeepStep ==
  ASSUME NEW m, stage # "idle", stage' # "idle", Division!Lead(Waiting) = m, Waiting # Division!Nil,
         Division!Reducers(m, Head(Mapped(jobs))) = {},
         AsFunction(result') = Division!Plus(AsFunction(result), Division!Only(Waiting, {m})),
         Waiting' = Division!Only(Waiting, Division!Monos \ {m}),
         jobs' = jobs, reducedOut' = reducedOut
  PROVE  Division!Keep
BY DEF Division!Keep, Mapped

LEMMA CancelStep ==
  ASSUME NEW m, stage # "idle", stage' # "idle", Division!Lead(Waiting) = m, Waiting # Division!Nil,
         NEW g \in Division!Reducers(m, Head(Mapped(jobs))),
         Waiting' = Division!Plus(Waiting,
                      Division!Times(P - Waiting[m], m - Basis[g].lead, AsFunction(Basis[g].terms))),
         jobs' = jobs, reducedOut' = reducedOut, result' = result, g \in DOMAIN Basis
  PROVE  Division!Cancel
<1> DEFINE B == [h \in DOMAIN Basis |-> [lead |-> Basis[h].lead, sig |-> Basis[h].sig,
                                         poly |-> AsFunction(Basis[h].terms)]]
<1>1. B[g].lead = Basis[g].lead /\ B[g].poly = AsFunction(Basis[g].terms)
  OBVIOUS
<1>2. Waiting' = Division!Plus(Waiting, Division!Times(P - Waiting[m], m - B[g].lead, B[g].poly))
  BY <1>1
<1> QED
  BY <1>2 DEF Division!Cancel, Mapped

LEMMA KeepLeadDivides ==
  ASSUME InputsFit, RInv, KeepLead
  PROVE  RInv' /\ Division!Keep
<1>1. /\ stage = "reducing" /\ stage' = "reducing" /\ lead' = [lead EXCEPT !.known = FALSE]
      /\ UNCHANGED <<reducer, jobs, reducedOut>> /\ jobs # <<>>
  BY DEF KeepLead, RInv, StageInv
<1>2. PICK l \in LeadTerms :
        /\ Reducers(l.term.mono, Head(jobs)) = {}
        /\ result' = Append(result, l.term)
        /\ SetStore(l.store)
  BY DEF KeepLead
<1> DEFINE t == l.term
           s == l.store
           m0 == t.mono
<1>3. LeadTaken(t, s)
  BY <1>1, LeadTermIs
<1> HIDE DEF t, s
<1>4. /\ SoundStore(s, reducer) /\ t \in Terms /\ t.coef # 0 /\ QueueBelow(s.queue, m0)
      /\ result # <<>> => m0 < Last(result).mono
      /\ Leads(m0, Waiting) /\ Waiting[m0] = t.coef
      /\ \A m \in Monos : StoreSum(s, Hashed, m) % P = IF m = m0 THEN 0 ELSE Waiting[m]
  BY <1>3 DEF LeadTaken
<1>5. /\ m0 \in Monos /\ t.coef \in Coefs /\ result \in TermSpans /\ NonZero(result)
  BY <1>4, TermIs, InvParts
<1>6. /\ result' = Append(result, t) /\ SetStore(s) /\ Reducers(m0, Head(jobs)) = {}
  BY <1>2 DEF t, s
<1>7. /\ result' \in TermSpans /\ result' # <<>> /\ Last(result') = t
      /\ \A m : Coefficient(result', m) = IF m = m0 THEN t.coef ELSE Coefficient(result, m)
      /\ Coefficient(result, m0) = 0
  BY <1>4, <1>5, <1>6, AppendIs
<1>8. NonZero(result')
  <2>1. result \in Seq(Terms) /\ Len(result) \in Nat /\ DOMAIN result = 1..Len(result)
    BY <1>5, TermsAre
  <2>2. /\ DOMAIN Append(result, t) = 1..Len(result) + 1
        /\ \A k \in 1..Len(result) : Append(result, t)[k] = result[k]
        /\ Append(result, t)[Len(result) + 1] = t
    BY <1>4, <2>1
  <2>3. \A k \in 1..Len(result) + 1 : k \in 1..Len(result) \/ k = Len(result) + 1
    BY <2>1
  <2> QED
    BY <1>4, <1>5, <1>6, <2>1, <2>2, <2>3 DEF NonZero
<1> HIDE DEF m0
<1>9. RInv' /\ Waiting' = [m \in Monos |-> StoreSum(s, Hashed, m) % P]
  <2>1. QueueBelow(s.queue, Last(result').mono)
    BY <1>4, <1>7 DEF m0
  <2> QED
    BY <1>1, <1>4, <1>6, <1>7, <1>8, <2>1, Divided
<1>10. Division!Lead(Waiting) = m0 /\ Waiting # Division!Nil
  BY <1>4, LeadIs
<1>11. Waiting' = Division!Only(Waiting, Division!Monos \ {m0})
  <2>1. \A m \in Monos : StoreSum(s, Hashed, m) % P = IF m \in Monos \ {m0} THEN Waiting[m] ELSE 0
    BY <1>4
  <2> QED
    BY <1>9, <2>1, AbstractOperators
<1>12. AsFunction(result') = Division!Plus(AsFunction(result), Division!Only(Waiting, {m0}))
  <2> DEFINE f == AsFunction(result)
             w == Division!Only(Waiting, {m0})
  <2>1. ASSUME NEW m \in Monos
        PROVE  Coefficient(result', m) = (f[m] + w[m]) % P
    <3>1. f[m] = Coefficient(result, m) /\ w[m] = IF m = m0 THEN Waiting[m] ELSE 0
      BY AbstractOperators DEF AsFunction
    <3>2. Coefficient(result, m) \in Coefs /\ Coefficient(result, m) \in Nat
      BY <1>5, CoefficientType
    <3>3. \A k \in Coefs : (k + 0) % P = k /\ (0 + k) % P = k
      <4>1. \A k \in Coefs : k \in Nat /\ k % P = k
        BY Remainders
      <4>2. \A k \in Nat : k + 0 = k /\ 0 + k = k
        OBVIOUS
      <4> QED
        BY <4>1, <4>2
    <3>4. CASE m = m0
      BY <1>4, <1>5, <1>7, <3>1, <3>3, <3>4
    <3>5. CASE m # m0
      BY <1>7, <3>1, <3>2, <3>3, <3>5
    <3> QED
      BY <3>4, <3>5
  <2>2. Division!Plus(f, w) = [m \in Monos |-> (f[m] + w[m]) % P]
    BY AbstractOperators
  <2>3. AsFunction(result') = [m \in Monos |-> Coefficient(result', m)]
    BY DEF AsFunction
  <2> HIDE DEF f, w
  <2>4. AsFunction(result') = Division!Plus(f, w)
    BY <2>1, <2>2, <2>3
  <2> QED
    BY <2>4 DEF f, w
<1>13. Division!Reducers(m0, Head(Mapped(jobs))) = {}
  BY <1>1, <1>6, HeadJob
<1>14. Division!Keep
  <2>1. stage # "idle" /\ stage' # "idle" /\ jobs' = jobs /\ reducedOut' = reducedOut
    BY <1>1
  <2> QED
    BY <1>10, <1>11, <1>12, <1>13, <2>1, KeepStep
<1> QED
  BY <1>9, <1>14

(* A multiple of an element, with the leading monomial top *)
Scaled(c, top, g) == Division!Times(c, top - Basis[g].lead, AsFunction(Basis[g].terms))

LEMMA ScaledIs ==
  ASSUME InputsFit, NEW g \in DOMAIN Basis, NEW c \in Nat, NEW top \in Monos, Basis[g].lead <= top
  PROVE  /\ top - Basis[g].lead \in Nat
         /\ Scaled(c, top, g)[top] = c % P
         /\ \A m \in Monos :
              /\ Scaled(c, top, g)[m] \in Coefs
              /\ Scaled(c, top, g)[m]
                   = IF m >= top - Basis[g].lead
                       THEN (c * Coefficient(Basis[g].terms, m - (top - Basis[g].lead))) % P
                       ELSE 0
<1> DEFINE x == Basis[g].terms
           a == Basis[g].lead
           u == top - a
           w == Scaled(c, top, g)
<1>1. /\ x \in TermSpans /\ x # <<>> /\ x[1].mono = a /\ x[1].coef = 1
      /\ a \in Monos /\ a \in Nat /\ top \in Nat
  BY ElementIs DEF Monos, InputsFit
<1>2. u \in Nat /\ top - u = a /\ top >= u
  BY <1>1
<1>3. \A m \in Monos : w[m] = IF m >= u THEN (c * AsFunction(x)[m - u]) % P ELSE 0
  BY AbstractOperators DEF Scaled
<1> HIDE DEF w, x
<1>4. ASSUME NEW m \in Monos
      PROVE  /\ w[m] \in Coefs
             /\ w[m] = IF m >= u THEN (c * Coefficient(x, m - u)) % P ELSE 0
  <2>1. CASE m >= u
    <3>1. m - u \in Monos
      BY <1>2, <2>1 DEF Monos, InputsFit
    <3>2. AsFunction(x)[m - u] = Coefficient(x, m - u)
      BY <3>1 DEF AsFunction
    <3>3. Coefficient(x, m - u) \in Nat
      BY <1>1, CoefficientType
    <3>4. c * Coefficient(x, m - u) \in Nat
      BY <3>3
    <3> QED
      BY <1>3, <2>1, <3>2, <3>4, Remainders
  <2>2. CASE ~(m >= u)
    BY <1>3, <2>2, Remainders
  <2> QED
    BY <2>1, <2>2
<1>5. w[top] = c % P
  <2>1. Coefficient(x, a) = 1
    BY <1>1, TailIs
  <2>2. c * 1 = c
    OBVIOUS
  <2> QED
    BY <1>2, <1>4, <2>1, <2>2
<1> QED
  BY <1>2, <1>4, <1>5 DEF w, x

(* What insertTail adds *)
LEMMA ElementTail ==
  ASSUME InputsFit, reducer \in Kinds, NEW s, SoundStore(s, reducer),
         NEW g \in DOMAIN Basis, NEW c \in Nat, NEW top \in Monos, Basis[g].lead <= top
  PROVE  /\ SoundStore(InsertTail(s, c, top - Basis[g].lead, Basis[g].terms), reducer)
         /\ QueueBelow(s.queue, top)
              => QueueBelow(InsertTail(s, c, top - Basis[g].lead, Basis[g].terms).queue, top)
         /\ \A m \in Monos :
              Same(StoreSum(InsertTail(s, c, top - Basis[g].lead, Basis[g].terms), Hashed, m),
                   StoreSum(s, Hashed, m) + (IF m = top THEN 0 ELSE Scaled(c, top, g)[m]))
<1> DEFINE x == Basis[g].terms
           a == Basis[g].lead
           u == top - a
           new == InsertTail(s, c, u, x)
           w == Scaled(c, top, g)
<1>1. /\ x \in TermSpans /\ x # <<>> /\ x[1].mono = a /\ a \in Nat /\ top \in Nat /\ top <= Degree
  BY ElementIs DEF Monos, InputsFit
<1>2. u \in Nat /\ a + u = top
  BY <1>1
<1>3. \A m \in Monos : w[m] = IF m >= u THEN (c * Coefficient(x, m - u)) % P ELSE 0
  <2>1. \A m \in Monos :
          Scaled(c, top, g)[m]
            = IF m >= top - Basis[g].lead
                THEN (c * Coefficient(Basis[g].terms, m - (top - Basis[g].lead))) % P
                ELSE 0
    BY ScaledIs
  <2> QED
    BY <2>1
<1> HIDE DEF w, x, a
<1>4. PICK y \in TermSpans :
        /\ Grown(new, s, y)
        /\ \A k \in 1..Len(y) : y[k].mono < top
        /\ \A m \in Monos : Coefficient(y, m) = IF m >= u /\ m # top
                                                  THEN (c * Coefficient(x, m - u)) % P
                                                  ELSE 0
  <2>1. x[1].mono + u <= Degree /\ x[1].mono + u = top
    BY <1>1, <1>2
  <2>2. x \in TermSpans /\ x # <<>> /\ u \in Nat /\ c \in Nat /\ SoundStore(s, reducer)
    BY <1>1, <1>2
  <2> HIDE DEF u
  <2>3. \E y \in TermSpans : TailOf(y, s, c, u, x)
    BY <2>1, <2>2, TailInserted
  <2> QED
    BY <2>1, <2>3 DEF TailOf
<1> HIDE DEF new
<1>5. ASSUME NEW m \in Monos PROVE Coefficient(y, m) = IF m = top THEN 0 ELSE w[m]
  BY <1>3, <1>4
<1>6. /\ SoundStore(new, reducer) /\ (QueueBelow(s.queue, top) => QueueBelow(new.queue, top))
      /\ \A m \in Monos : Same(StoreSum(new, Hashed, m),
                               StoreSum(s, Hashed, m) + (IF m = top THEN 0 ELSE w[m]))
  BY <1>1, <1>4, <1>5 DEF Grown
<1> QED
  BY <1>6 DEF new, w, x, a

LEMMA ReduceLeadDivides ==
  ASSUME InputsFit, RInv, ReduceLead
  PROVE  RInv' /\ Division!Cancel
<1>1. /\ stage = "reducing" /\ stage' = "reducing" /\ lead' = [lead EXCEPT !.known = FALSE]
      /\ UNCHANGED <<reducer, jobs, result, reducedOut>> /\ jobs # <<>>
  BY DEF ReduceLead, RInv, StageInv
<1>2. PICK l \in LeadTerms : \E g \in Reducers(l.term.mono, Head(jobs)) :
        SetStore(InsertTail(l.store, P - l.term.coef, l.term.mono - Basis[g].lead, Basis[g].terms))
  BY DEF ReduceLead
<1> DEFINE t == l.term
           s == l.store
           m0 == t.mono
           c == t.coef
<1>3. LeadTaken(t, s)
  BY <1>1, LeadTermIs
<1>4. PICK g \in Reducers(m0, Head(jobs)) :
        SetStore(InsertTail(s, P - c, m0 - Basis[g].lead, Basis[g].terms))
  BY <1>2
<1> HIDE DEF t, s
<1>5. /\ SoundStore(s, reducer) /\ t \in Terms /\ c # 0 /\ QueueBelow(s.queue, m0)
      /\ result # <<>> => m0 < Last(result).mono
      /\ Leads(m0, Waiting) /\ Waiting[m0] = c
      /\ \A m \in Monos : StoreSum(s, Hashed, m) % P = IF m = m0 THEN 0 ELSE Waiting[m]
  BY <1>3 DEF LeadTaken
<1>6. /\ m0 \in Monos /\ m0 \in Nat /\ c \in Coefs /\ c \in Nat /\ result \in TermSpans
      /\ NonZero(result) /\ reducer \in Kinds
  BY <1>5, TermIs, InvParts
<1>7. g \in DOMAIN Basis /\ Basis[g].lead <= m0
  BY <1>4 DEF Reducers, Reduces
<1> HIDE DEF m0, c
<1> DEFINE d == P - c
           new == InsertTail(s, d, m0 - Basis[g].lead, Basis[g].terms)
           w == Scaled(d, m0, g)
<1>8. d \in Nat /\ c + d = P /\ P \in Nat
  BY <1>6, Remainders DEF Coefs
<1>9. SetStore(new)
  BY <1>4
<1> HIDE DEF d
<1>10. /\ SoundStore(new, reducer) /\ QueueBelow(new.queue, m0)
       /\ \A m \in Monos : Same(StoreSum(new, Hashed, m),
                                StoreSum(s, Hashed, m) + (IF m = m0 THEN 0 ELSE w[m]))
  BY <1>5, <1>6, <1>7, <1>8, ElementTail
<1>11. w[m0] = d % P /\ \A m \in Monos : w[m] \in Coefs /\ w[m] \in Nat
  <2>1. /\ Scaled(d, m0, g)[m0] = d % P
        /\ \A m \in Monos : Scaled(d, m0, g)[m] \in Coefs
    BY <1>6, <1>7, <1>8, ScaledIs
  <2> HIDE DEF w
  <2>2. w[m0] = d % P /\ \A m \in Monos : w[m] \in Coefs
    BY <2>1 DEF w
  <2> QED
    BY <2>2, Remainders
<1> HIDE DEF new, w
<1>12. RInv' /\ Waiting' = [m \in Monos |-> StoreSum(new, Hashed, m) % P]
  <2>1. ASSUME result # <<>> PROVE QueueBelow(new.queue, Last(result).mono)
    <3>1. Last(result).mono \in Nat /\ m0 <= Last(result).mono /\ new.queue \in Seq(Chains)
      <4>1. Last(result).mono \in Nat
        BY <1>6, <2>1, LastIs
      <4> QED
        BY <1>5, <1>6, <1>10, <2>1, <4>1 DEF SoundStore
    <3> QED
      BY <1>6, <1>10, <3>1, BelowMore
  <2> QED
    BY <1>1, <1>6, <1>9, <1>10, <2>1, Divided
<1>13. ASSUME NEW m \in Monos
       PROVE  StoreSum(new, Hashed, m) % P = (Waiting[m] + w[m]) % P
  <2> DEFINE x == StoreSum(s, Hashed, m)
             y == StoreSum(new, Hashed, m)
  <2>1. x \in Nat /\ y \in Nat /\ Waiting[m] \in Nat /\ w[m] \in Nat
    BY <1>5, <1>10, <1>11, StoreSumType, WaitingType
  <2>2. Same(y, x + (IF m = m0 THEN 0 ELSE w[m])) /\ x % P = IF m = m0 THEN 0 ELSE Waiting[m]
    BY <1>5, <1>10
  <2> HIDE DEF x, y
  <2>3. CASE m = m0
    <3>1. y % P = 0
      <4>1. x + 0 = x
        BY <2>1
      <4> QED
        BY <2>2, <2>3, <4>1 DEF Same
    <3>2. (c + (d % P)) % P = (c + d) % P
      BY <1>6, <1>8, SumModulo
    <3>3. P % P = 0
      BY Remainders
    <3> QED
      BY <1>5, <1>8, <1>11, <2>3, <3>1, <3>2, <3>3 DEF y
  <2>4. CASE m # m0
    <3>1. y % P = (x + w[m]) % P /\ x % P = Waiting[m]
      BY <2>2, <2>4 DEF Same
    <3>2. ((x % P) + w[m]) % P = (x + w[m]) % P
      BY <2>1, SumModulo
    <3> QED
      BY <3>1, <3>2 DEF y
  <2> QED
    BY <2>3, <2>4
<1>14. Waiting' = Division!Plus(Waiting, w)
  BY <1>12, <1>13, AbstractOperators
<1>15. w = Division!Times(P - Waiting[m0], m0 - Basis[g].lead, AsFunction(Basis[g].terms))
  BY <1>5 DEF w, d, Scaled
<1>16. Division!Lead(Waiting) = m0 /\ Waiting # Division!Nil
  BY <1>5, LeadIs
<1>17. g \in Division!Reducers(m0, Head(Mapped(jobs)))
  BY <1>1, <1>4, HeadJob DEF m0
<1>18. Division!Cancel
  <2>1. stage # "idle" /\ stage' # "idle" /\ jobs' = jobs /\ reducedOut' = reducedOut /\ result' = result
    BY <1>1
  <2>2. Waiting' = Division!Plus(Waiting,
                     Division!Times(P - Waiting[m0], m0 - Basis[g].lead, AsFunction(Basis[g].terms)))
    BY <1>14, <1>15
  <2> QED
    BY <1>7, <1>16, <1>17, <2>1, <2>2, CancelStep
<1> QED
  BY <1>12, <1>18

-----------------------------------------------------------------------------
(* How a reduction begins *)

LEMMA StartSumsAre ==
  ASSUME InputsFit, NEW job \in Jobs
  PROVE  /\ job.op = "classicReducePolySet" =>
              Division!StartSums(JobAsFunction(job)) = {AsFunction(job.poly)}
         /\ job.op = "classicTailReduce" =>
              Division!StartSums(JobAsFunction(job))
                = {Division!Only(AsFunction(job.poly),
                                 Division!Monos \ {Division!Lead(AsFunction(job.poly))})}
         /\ job.op = "classicReduceSPolySet" =>
              Division!StartSums(JobAsFunction(job))
                = {Division!Cancelled(job.a, job.b, Max({Basis[job.a].lead, Basis[job.b].lead}))}
         /\ job.op = "regularReduce" =>
              Division!StartSums(JobAsFunction(job))
                = {Division!Cancelled(job.element, g, Basis[job.element].lead + job.multiple) :
                     g \in Reducers(Basis[job.element].lead + job.multiple, job)}
<1> DEFINE B == [g \in DOMAIN Basis |-> [lead |-> Basis[g].lead, sig |-> Basis[g].sig,
                                         poly |-> AsFunction(Basis[g].terms)]]
           fj == JobAsFunction(job)
<1>1. \A g \in DOMAIN Basis : B[g].lead = Basis[g].lead
  OBVIOUS
<1>2. /\ fj.op = job.op
      /\ job.op \in {"classicReducePolySet", "classicTailReduce"} => fj.poly = AsFunction(job.poly)
      /\ job.op \in {"classicReduceSPolySet", "regularReduce"} => fj = job
  BY JobMaps
<1>3. \A m : Division!Reducers(m, fj) = Reducers(m, job)
  BY ReducersMap
<1>4. \A S : Division!Max(S) = Max(S)
  BY DEF Division!Max, Max
<1>5. /\ fj.op = "classicReducePolySet" => Division!StartSums(fj) = {fj.poly}
      /\ fj.op = "classicTailReduce" =>
           Division!StartSums(fj)
             = {Division!Only(fj.poly, Division!Monos \ {Division!Lead(fj.poly)})}
      /\ fj.op = "classicReduceSPolySet" =>
           Division!StartSums(fj)
             = {Division!Cancelled(fj.a, fj.b, Division!Max({B[fj.a].lead, B[fj.b].lead}))}
      /\ fj.op = "regularReduce" =>
           Division!StartSums(fj)
             = {Division!Cancelled(fj.element, g, B[fj.element].lead + fj.multiple) :
                  g \in Division!Reducers(B[fj.element].lead + fj.multiple, fj)}
  BY DEF Division!StartSums
<1> HIDE DEF B, fj
<1>6. CASE job.op = "classicReducePolySet"
  BY <1>2, <1>5, <1>6 DEF fj
<1>7. CASE job.op = "classicTailReduce"
  BY <1>2, <1>5, <1>7 DEF fj
<1>8. CASE job.op = "classicReduceSPolySet"
  <2>1. job.a \in DOMAIN Basis /\ job.b \in DOMAIN Basis
    BY <1>8, JobIs
  <2> QED
    BY <1>1, <1>2, <1>4, <1>5, <1>8, <2>1 DEF fj
<1>9. CASE job.op = "regularReduce"
  <2>1. job.element \in DOMAIN Basis
    BY <1>9, JobIs
  <2> QED
    BY <1>1, <1>2, <1>3, <1>5, <1>9, <2>1 DEF fj
<1> QED
  BY <1>6, <1>7, <1>8, <1>9

LEMMA CancelledIs ==
  ASSUME NEW g \in DOMAIN Basis, NEW h \in DOMAIN Basis, NEW top
  PROVE  Division!Cancelled(g, h, top) = Division!Plus(Scaled(1, top, g), Scaled(P - 1, top, h))
<1> DEFINE B == [k \in DOMAIN Basis |-> [lead |-> Basis[k].lead, sig |-> Basis[k].sig,
                                         poly |-> AsFunction(Basis[k].terms)]]
<1>1. \A k \in DOMAIN Basis : B[k].lead = Basis[k].lead /\ B[k].poly = AsFunction(Basis[k].terms)
  OBVIOUS
<1>2. Division!Cancelled(g, h, top)
        = Division!Plus(Division!Times(1, top - B[g].lead, B[g].poly),
                        Division!Times(P - 1, top - B[h].lead, B[h].poly))
  BY DEF Division!Cancelled
<1> HIDE DEF B
<1> QED
  BY <1>1, <1>2 DEF Scaled

LEMMA TailsCancel ==
  ASSUME InputsFit, reducer \in Kinds, NEW s, SoundStore(s, reducer),
         \A m \in Monos : StoreSum(s, Hashed, m) = 0,
         NEW g \in DOMAIN Basis, NEW h \in DOMAIN Basis, NEW top \in Monos,
         Basis[g].lead <= top, Basis[h].lead <= top,
         NEW new, new = InsertTail(InsertTail(s, 1, top - Basis[g].lead, Basis[g].terms),
                                   P - 1, top - Basis[h].lead, Basis[h].terms)
  PROVE  /\ SoundStore(new, reducer)
         /\ [m \in Monos |-> StoreSum(new, Hashed, m) % P] = Division!Cancelled(g, h, top)
<1> DEFINE first == InsertTail(s, 1, top - Basis[g].lead, Basis[g].terms)
           last == InsertTail(first, P - 1, top - Basis[h].lead, Basis[h].terms)
           v == Scaled(1, top, g)
           d == P - 1
           w == Scaled(d, top, h)
<1>1. 1 \in Nat /\ d \in Nat /\ 1 + d = P /\ new = last /\ P \in Nat
  BY Remainders
<1>2. /\ SoundStore(first, reducer)
      /\ \A m \in Monos : Same(StoreSum(first, Hashed, m),
                               StoreSum(s, Hashed, m) + (IF m = top THEN 0 ELSE v[m]))
  BY <1>1, ElementTail
<1>3. v[top] = 1 % P /\ \A m \in Monos : v[m] \in Coefs
  BY <1>1, ScaledIs
<1> HIDE DEF first, v, d
<1>4. /\ SoundStore(last, reducer)
      /\ \A m \in Monos : Same(StoreSum(last, Hashed, m),
                               StoreSum(first, Hashed, m) + (IF m = top THEN 0 ELSE w[m]))
  <2>1. last = InsertTail(first, d, top - Basis[h].lead, Basis[h].terms)
    BY DEF d
  <2>2. /\ SoundStore(InsertTail(first, d, top - Basis[h].lead, Basis[h].terms), reducer)
        /\ \A m \in Monos :
             Same(StoreSum(InsertTail(first, d, top - Basis[h].lead, Basis[h].terms), Hashed, m),
                  StoreSum(first, Hashed, m) + (IF m = top THEN 0 ELSE w[m]))
    BY <1>1, <1>2, ElementTail
  <2> HIDE DEF last, w
  <2> QED
    BY <2>1, <2>2
<1>5. w[top] = d % P /\ \A m \in Monos : w[m] \in Coefs
  BY <1>1, ScaledIs
<1> HIDE DEF last, w
<1>6. \A m \in Monos : v[m] \in Nat /\ w[m] \in Nat
  BY <1>3, <1>5, Remainders
<1>7. ASSUME NEW m \in Monos
      PROVE  StoreSum(last, Hashed, m) % P = (v[m] + w[m]) % P
  <2> DEFINE x == StoreSum(first, Hashed, m)
             y == StoreSum(last, Hashed, m)
  <2>1. x \in Nat /\ y \in Nat
    BY <1>2, <1>4, StoreSumType
  <2>2. /\ Same(x, 0 + (IF m = top THEN 0 ELSE v[m])) /\ Same(y, x + (IF m = top THEN 0 ELSE w[m]))
    BY <1>2, <1>4
  <2> HIDE DEF x, y
  <2>3. CASE m = top
    <3>1. 0 + 0 = 0 /\ x + 0 = x
      BY <2>1
    <3>2. y % P = 0 % P /\ 0 % P = 0
      BY <2>2, <2>3, <3>1, Remainders DEF Same
    <3>3. ((1 % P) + (d % P)) % P = (1 + d) % P
      <4>1. 1 % P \in Nat
        BY <1>1, Remainders
      <4>2. ((1 % P) + (d % P)) % P = ((1 % P) + d) % P /\ ((1 % P) + d) % P = (1 + d) % P
        BY <1>1, <4>1, SumModulo
      <4> QED
        BY <4>2
    <3>4. P % P = 0
      BY Remainders
    <3> QED
      BY <1>1, <1>3, <1>5, <2>3, <3>2, <3>3, <3>4 DEF y
  <2>4. CASE m # top
    <3>1. v[m] \in Nat /\ w[m] \in Nat /\ 0 + v[m] = v[m] /\ Same(w[m], w[m])
      BY <1>6 DEF Same
    <3>2. Same(x, v[m]) /\ Same(y, x + w[m])
      BY <2>2, <2>4, <3>1
    <3>3. Same(x + w[m], v[m] + w[m])
      BY <2>1, <3>1, <3>2, SameSum
    <3> QED
      BY <3>2, <3>3 DEF Same, y
  <2> QED
    BY <2>3, <2>4
<1>8. Division!Plus(v, w) = [m \in Monos |-> (v[m] + w[m]) % P]
  BY AbstractOperators
<1>9. Division!Cancelled(g, h, top) = Division!Plus(v, w)
  BY CancelledIs DEF v, w, d
<1>10. [m \in Monos |-> StoreSum(last, Hashed, m) % P] = Division!Cancelled(g, h, top)
  BY <1>7, <1>8, <1>9
<1> QED
  BY <1>1, <1>4, <1>10

LEMMA Begun ==
  ASSUME InputsFit, RInv, stage = "idle", jobs # <<>>, NEW s, SoundStore(s, reducer),
         NEW r \in TermSpans, NonZero(r), Begin(s, r),
         r # <<>> => QueueBelow(s.queue, Last(r).mono)
  PROVE  RInv' /\ Waiting' = [m \in Monos |-> StoreSum(s, Hashed, m) % P]
<1>1. SetStore(s) /\ result' = r /\ stage' = "reducing" /\ UNCHANGED <<reducer, jobs, lead, reducedOut>>
  BY DEF Begin
<1>2. SoundStore(Store, reducer)' /\ queue' = s.queue
  BY <1>1, SoundLater DEF SetStore
<1>3. ~lead.known /\ IsLead(lead)
  BY DEF RInv, StageInv, LeadInv
<1>4. Waiting' = [m \in Monos |-> StoreSum(s, Hashed, m) % P]
  <2>1. ASSUME NEW m \in Monos
        PROVE  (StoreSum(s, Hashed, m) + TakenOf(lead', stage', m)) % P = StoreSum(s, Hashed, m) % P
    <3>1. TakenOf(lead', stage', m) = 0
      BY <1>1, <1>3 DEF TakenOf
    <3>2. StoreSum(s, Hashed, m) \in Nat
      BY StoreSumType
    <3>3. \A k \in Nat : k + 0 = k
      OBVIOUS
    <3> QED
      BY <3>1, <3>2, <3>3
  <2>2. Waiting' = Left(s, lead', stage')
    BY <1>1, NewWaiting
  <2>3. Left(s, lead', stage')
          = [m \in Monos |-> (StoreSum(s, Hashed, m) + TakenOf(lead', stage', m)) % P]
    BY DEF Left
  <2> QED
    BY <2>1, <2>2, <2>3
<1>5. StageInv' /\ LeadInv' /\ ResultInv'
  <2>1. StageInv'
    BY <1>1 DEF RInv, StageInv
  <2>2. LeadInv'
    BY <1>1, <1>3 DEF LeadInv
  <2>3. ResultInv'
    BY <1>1, <1>2, <1>3 DEF ResultInv
  <2> QED
    BY <2>1, <2>2, <2>3
<1> QED
  BY <1>1, <1>2, <1>4, <1>5 DEF RInv

LEMMA StartStep ==
  ASSUME NEW fj, fj = Head(Mapped(jobs)), stage = "idle", stage' # "idle", Mapped(jobs) # <<>>,
         Waiting' \in Division!StartSums(fj),
         fj.op = "classicTailReduce" =>
           AsFunction(result') = Division!Only(fj.poly, {Division!Lead(fj.poly)}),
         fj.op # "classicTailReduce" => AsFunction(result') = Division!Nil,
         jobs' = jobs, reducedOut' = reducedOut
  PROVE  Division!Start
BY DEF Division!Start, Mapped

LEMMA IdleStore ==
  ASSUME InputsFit, RInv, stage = "idle"
  PROVE  /\ SoundStore(Store, reducer) /\ \A b : QueueBelow(Store.queue, b)
         /\ \A m \in Monos : StoreSum(Store, Hashed, m) = 0
<1>1. IsStore(Store) /\ Store.queue = <<>> /\ Store.table = <<>>
  BY DEF RInv, StageInv, Store, IsStore
<1> QED
  BY <1>1, EmptyStore

LEMMA NothingIs ==
  ASSUME InputsFit
  PROVE  <<>> \in TermSpans /\ NonZero(<<>>) /\ AsFunction(<<>>) = Division!Nil
<1>1. <<>> \in TermSpans
  BY DEF TermSpans, Descending
<1>2. NonZero(<<>>)
  BY DEF NonZero
<1>3. AsFunction(<<>>) = Division!Nil
  BY AbstractOperators, CoefficientOfNothing DEF AsFunction
<1> QED
  BY <1>1, <1>2, <1>3

LEMMA StartPolyDivides ==
  ASSUME InputsFit, RInv, StartPoly
  PROVE  RInv' /\ Division!Start
<1> DEFINE job == Head(jobs)
           s == Insert(Store, job.poly)
<1>1. /\ stage = "idle" /\ jobs # <<>> /\ job.op = "classicReducePolySet" /\ Begin(s, <<>>)
  BY DEF StartPoly
<1>2. job \in Jobs /\ Head(Mapped(jobs)) = JobAsFunction(job) /\ Mapped(jobs) # <<>>
  BY <1>1, HeadJob
<1>3. job.poly \in TermSpans
  BY <1>1, <1>2, JobIs, PolynomialIs
<1>4. /\ SoundStore(Store, reducer) /\ reducer \in Kinds
      /\ \A m \in Monos : StoreSum(Store, Hashed, m) = 0
  BY <1>1, IdleStore, InvParts
<1> DEFINE x == job.poly
<1>5. Grown(s, Store, x)
  BY <1>3, <1>4, Inserted
<1> HIDE DEF s, job, x
<1>6. /\ SoundStore(s, reducer)
      /\ \A m \in Monos : Same(StoreSum(s, Hashed, m), StoreSum(Store, Hashed, m) + Coefficient(x, m))
  BY <1>5 DEF Grown
<1>7. RInv' /\ Waiting' = [m \in Monos |-> StoreSum(s, Hashed, m) % P]
  BY <1>1, <1>6, NothingIs, Begun
<1>8. Waiting' = AsFunction(x)
  <2>1. ASSUME NEW m \in Monos PROVE StoreSum(s, Hashed, m) % P = Coefficient(x, m)
    <3>1. Coefficient(x, m) \in Coefs /\ Coefficient(x, m) \in Nat
      BY <1>3, CoefficientType DEF x
    <3>2. 0 + Coefficient(x, m) = Coefficient(x, m)
      BY <3>1
    <3> QED
      BY <1>4, <1>6, <3>1, <3>2, Remainders DEF Same
  <2> QED
    BY <1>7, <2>1 DEF AsFunction
<1>9. JobAsFunction(job).op = job.op
      /\ Division!StartSums(JobAsFunction(job)) = {AsFunction(x)}
  BY <1>1, <1>2, JobMaps, StartSumsAre DEF x
<1>10. stage' # "idle" /\ jobs' = jobs /\ reducedOut' = reducedOut /\ result' = <<>>
  BY <1>1 DEF Begin
<1> DEFINE fj == JobAsFunction(job)
<1>11. /\ fj = Head(Mapped(jobs)) /\ Waiting' \in Division!StartSums(fj)
       /\ fj.op # "classicTailReduce" /\ AsFunction(result') = Division!Nil
  BY <1>1, <1>2, <1>8, <1>9, <1>10, NothingIs
<1> HIDE DEF fj
<1>12. Division!Start
  BY <1>1, <1>2, <1>10, <1>11, StartStep
<1> QED
  BY <1>7, <1>12

LEMMA StartTailDivides ==
  ASSUME InputsFit, RInv, StartTail
  PROVE  RInv' /\ Division!Start
<1> DEFINE job == Head(jobs)
           x == job.poly
           s == InsertTail(Store, 1, 0, x)
           t == Head(x)
           r == <<t>>
<1>1. stage = "idle" /\ jobs # <<>> /\ job.op = "classicTailReduce" /\ Begin(s, r)
  BY DEF StartTail
<1>2. job \in Jobs /\ Head(Mapped(jobs)) = JobAsFunction(job) /\ Mapped(jobs) # <<>>
  BY <1>1, HeadJob
<1>3. x \in TermSpans /\ x # <<>> /\ NonZero(x)
  BY <1>1, <1>2, JobIs, PolynomialIs
<1>4. /\ SoundStore(Store, reducer) /\ reducer \in Kinds /\ \A b : QueueBelow(Store.queue, b)
      /\ \A m \in Monos : StoreSum(Store, Hashed, m) = 0
  BY <1>1, IdleStore, InvParts
<1>5. JobAsFunction(job).op = job.op /\ JobAsFunction(job).poly = AsFunction(x)
      /\ Division!StartSums(JobAsFunction(job))
           = {Division!Only(AsFunction(x), Division!Monos \ {Division!Lead(AsFunction(x))})}
  BY <1>1, <1>2, JobMaps, StartSumsAre
<1> HIDE DEF job, x, s
<1>6. /\ x[1] = t /\ t \in Terms /\ t.mono \in Monos /\ t.mono \in Nat /\ t.coef \in Coefs /\ t.coef # 0
      /\ t.mono <= Degree
      /\ \A m \in Monos : /\ m = t.mono => Coefficient(x, m) = t.coef
                          /\ m > t.mono => Coefficient(x, m) = 0
  <2>1. 1 \in 1..Len(x) /\ t = x[1] /\ DOMAIN x = 1..Len(x)
    BY <1>3, TailIs, TermsAre
  <2>2. t \in Terms /\ t.coef # 0
    BY <1>3, <2>1, TermsAre DEF NonZero
  <2> HIDE DEF t
  <2> QED
    BY <1>3, <2>1, <2>2, TailIs, TermIs
<1>7. /\ r \in TermSpans /\ NonZero(r) /\ r # <<>> /\ Last(r) = t
      /\ \A m : Coefficient(r, m) = IF m = t.mono THEN t.coef ELSE 0
  <2> HIDE DEF t
  <2>1. Len(r) = 1 /\ r[1] = t /\ DOMAIN r = {1} /\ r # <<>>
    OBVIOUS
  <2>2. Last(r) = t
    BY <2>1 DEF Last
  <2> QED
    BY <1>6, <2>1, <2>2, SingleIs DEF NonZero
<1> HIDE DEF t, r
<1>8. PICK y \in TermSpans : TailOf(y, Store, 1, 0, x)
  <2>1. x[1].mono + 0 <= Degree /\ 1 \in Nat /\ 0 \in Nat
    BY <1>6
  <2> QED
    BY <1>3, <1>4, <2>1, TailInserted
<1>9. /\ Grown(s, Store, y)
      /\ \A k \in 1..Len(y) : y[k].mono < t.mono
      /\ \A m \in Monos : Coefficient(y, m) = IF m # t.mono THEN Coefficient(x, m) ELSE 0
  <2>1. x[1].mono + 0 = t.mono
    BY <1>6
  <2>2. /\ Grown(s, Store, y) /\ \A k \in 1..Len(y) : y[k].mono < t.mono
        /\ \A m \in Monos : Coefficient(y, m) = IF m >= 0 /\ m # t.mono
                                                  THEN (1 * Coefficient(x, m - 0)) % P
                                                  ELSE 0
    BY <1>8, <2>1 DEF TailOf, s
  <2>3. ASSUME NEW m \in Monos
        PROVE  m >= 0 /\ m - 0 = m /\ (1 * Coefficient(x, m)) % P = Coefficient(x, m)
    <3>1. m \in Nat
      BY DEF Monos, InputsFit
    <3>2. Coefficient(x, m) \in Nat /\ Coefficient(x, m) % P = Coefficient(x, m)
      BY <1>3, CoefficientType, Remainders
    <3>3. 1 * Coefficient(x, m) = Coefficient(x, m)
      BY <3>2
    <3> QED
      BY <3>1, <3>2, <3>3
  <2> QED
    BY <2>2, <2>3
<1>10. /\ SoundStore(s, reducer) /\ QueueBelow(s.queue, Last(r).mono)
       /\ \A m \in Monos : Same(StoreSum(s, Hashed, m), StoreSum(Store, Hashed, m) + Coefficient(y, m))
  BY <1>4, <1>6, <1>7, <1>9 DEF Grown
<1>11. RInv' /\ Waiting' = [m \in Monos |-> StoreSum(s, Hashed, m) % P]
  BY <1>1, <1>7, <1>10, Begun
<1> DEFINE f == AsFunction(x)
<1>12. Division!Lead(f) = t.mono
  <2>1. \A m \in Monos : f[m] = Coefficient(x, m)
    BY DEF AsFunction
  <2> HIDE DEF f
  <2>2. Leads(t.mono, f)
    BY <1>6, <2>1 DEF Leads
  <2> QED
    BY <2>2, LeadIs
<1>13. Waiting' = Division!Only(f, Division!Monos \ {Division!Lead(f)})
  <2>1. ASSUME NEW m \in Monos
        PROVE  StoreSum(s, Hashed, m) % P = IF m \in Monos \ {t.mono} THEN f[m] ELSE 0
    <3>1. Coefficient(y, m) \in Coefs /\ Coefficient(y, m) \in Nat
      BY CoefficientType
    <3>2. 0 + Coefficient(y, m) = Coefficient(y, m)
      BY <3>1
    <3>3. StoreSum(s, Hashed, m) % P = Coefficient(y, m)
      BY <1>4, <1>10, <3>1, <3>2, Remainders DEF Same
    <3>4. f[m] = Coefficient(x, m)
      BY DEF AsFunction
    <3> QED
      BY <1>9, <3>3, <3>4
  <2> HIDE DEF f
  <2> QED
    BY <1>11, <1>12, <2>1, AbstractOperators
<1>14. stage' # "idle" /\ jobs' = jobs /\ reducedOut' = reducedOut /\ result' = r
  BY <1>1 DEF Begin
<1>15. AsFunction(result') = Division!Only(f, {Division!Lead(f)})
  <2>1. ASSUME NEW m \in Monos
        PROVE  Coefficient(r, m) = IF m \in {t.mono} THEN f[m] ELSE 0
    BY <1>6, <1>7 DEF AsFunction
  <2>2. AsFunction(result') = [m \in Monos |-> Coefficient(r, m)]
    BY <1>14 DEF AsFunction
  <2> HIDE DEF f
  <2> QED
    BY <1>12, <2>1, <2>2, AbstractOperators
<1> DEFINE fj == JobAsFunction(job)
<1>16. fj.poly = f /\ fj = Head(Mapped(jobs)) /\ fj.op = "classicTailReduce"
       /\ Waiting' \in Division!StartSums(fj)
  BY <1>1, <1>2, <1>5, <1>13
<1> HIDE DEF fj, f
<1>17. Division!Start
  BY <1>1, <1>2, <1>14, <1>15, <1>16, StartStep
<1> QED
  BY <1>11, <1>17

(* Two elements whose leading terms cancel *)
LEMMA PairBegins ==
  ASSUME InputsFit, RInv, stage = "idle", jobs # <<>>,
         NEW g \in DOMAIN Basis, NEW h \in DOMAIN Basis, NEW top \in Monos,
         Basis[g].lead <= top, Basis[h].lead <= top,
         Begin(InsertTail(InsertTail(Store, 1, top - Basis[g].lead, Basis[g].terms),
                          P - 1, top - Basis[h].lead, Basis[h].terms), <<>>),
         Head(jobs).op # "classicTailReduce",
         Division!Cancelled(g, h, top) \in Division!StartSums(JobAsFunction(Head(jobs)))
  PROVE  RInv' /\ Division!Start
<1> DEFINE job == Head(jobs)
           s == InsertTail(InsertTail(Store, 1, top - Basis[g].lead, Basis[g].terms),
                           P - 1, top - Basis[h].lead, Basis[h].terms)
           c == Division!Cancelled(g, h, top)
           fj == JobAsFunction(job)
<1>1. /\ SoundStore(Store, reducer) /\ reducer \in Kinds
      /\ \A m \in Monos : StoreSum(Store, Hashed, m) = 0
  BY IdleStore, InvParts
<1>2. SoundStore(s, reducer) /\ [m \in Monos |-> StoreSum(s, Hashed, m) % P] = c
  BY <1>1, TailsCancel
<1>3. Begin(s, <<>>)
  OBVIOUS
<1> HIDE DEF s, c
<1>4. RInv' /\ Waiting' = [m \in Monos |-> StoreSum(s, Hashed, m) % P]
  BY <1>2, <1>3, NothingIs, Begun
<1>5. stage' # "idle" /\ jobs' = jobs /\ reducedOut' = reducedOut /\ result' = <<>>
  BY <1>3 DEF Begin
<1>6. job \in Jobs /\ Head(Mapped(jobs)) = fj /\ Mapped(jobs) # <<>>
  BY HeadJob
<1>7. fj.op # "classicTailReduce"
  BY <1>6, JobMaps
<1>8. Waiting' \in Division!StartSums(fj) /\ AsFunction(result') = Division!Nil
  BY <1>2, <1>4, <1>5, NothingIs DEF c
<1> HIDE DEF fj
<1>9. Division!Start
  BY <1>5, <1>6, <1>7, <1>8, StartStep
<1> QED
  BY <1>4, <1>9

LEMMA StartSPolyDivides ==
  ASSUME InputsFit, RInv, StartSPoly
  PROVE  RInv' /\ Division!Start
<1> DEFINE job == Head(jobs)
           g == job.a
           h == job.b
           S == {Basis[g].lead, Basis[h].lead}
           top == Max(S)
<1>1. /\ stage = "idle" /\ jobs # <<>> /\ job.op = "classicReduceSPolySet"
      /\ Begin(InsertTail(InsertTail(Store, 1, top - Basis[g].lead, Basis[g].terms),
                          P - 1, top - Basis[h].lead, Basis[h].terms), <<>>)
  BY DEF StartSPoly
<1>2. job \in Jobs
  BY <1>1, HeadJob
<1>3. /\ g \in DOMAIN Basis /\ h \in DOMAIN Basis
      /\ Division!StartSums(JobAsFunction(job)) = {Division!Cancelled(g, h, top)}
  BY <1>1, <1>2, JobIs, StartSumsAre
<1> HIDE DEF g, h
<1>4. Basis[g].lead \in Monos /\ Basis[h].lead \in Monos
  BY <1>3, ElementIs
<1>5. S \in SUBSET (0..Degree) /\ S # {} /\ Degree \in Nat
  BY <1>4 DEF Monos, InputsFit
<1>6. Basis[g].lead \in S /\ Basis[h].lead \in S
  OBVIOUS
<1> HIDE DEF S
<1>7. top \in S /\ \A n \in S : n <= top
  BY <1>5, MaxIs
<1>8. top \in Monos /\ Basis[g].lead <= top /\ Basis[h].lead <= top
  BY <1>5, <1>6, <1>7 DEF Monos
<1>9. job.op # "classicTailReduce"
      /\ Division!Cancelled(g, h, top) \in Division!StartSums(JobAsFunction(job))
  BY <1>1, <1>3
<1> HIDE DEF top
<1> QED
  BY <1>1, <1>3, <1>8, <1>9, PairBegins

LEMMA StartRegularDivides ==
  ASSUME InputsFit, RInv, StartRegular
  PROVE  RInv' /\ Division!Start
<1> DEFINE job == Head(jobs)
           e == job.element
           top == Basis[e].lead + job.multiple
<1>1. /\ stage = "idle" /\ jobs # <<>> /\ job.op = "regularReduce"
      /\ \E g \in Reducers(top, job) :
           Begin(InsertTail(InsertTail(Store, 1, job.multiple, Basis[e].terms),
                            P - 1, top - Basis[g].lead, Basis[g].terms), <<>>)
  BY DEF StartRegular
<1>2. job \in Jobs
  BY <1>1, HeadJob
<1>3. /\ e \in DOMAIN Basis /\ job.multiple \in 0..Degree /\ top <= Degree
      /\ Division!StartSums(JobAsFunction(job))
           = {Division!Cancelled(e, g, top) : g \in Reducers(top, job)}
  BY <1>1, <1>2, JobIs, StartSumsAre
<1>4. PICK h \in Reducers(top, job) :
        Begin(InsertTail(InsertTail(Store, 1, job.multiple, Basis[e].terms),
                         P - 1, top - Basis[h].lead, Basis[h].terms), <<>>)
  BY <1>1
<1> HIDE DEF e
<1>5. Basis[e].lead \in Nat /\ job.multiple \in Nat /\ Degree \in Nat
  BY <1>3, ElementIs DEF InputsFit
<1>6. top \in Monos /\ Basis[e].lead <= top /\ top - Basis[e].lead = job.multiple
  BY <1>3, <1>5 DEF Monos
<1> HIDE DEF top
<1>7. h \in DOMAIN Basis /\ Basis[h].lead <= top
  BY <1>4 DEF Reducers, Reduces
<1>8. Begin(InsertTail(InsertTail(Store, 1, top - Basis[e].lead, Basis[e].terms),
                       P - 1, top - Basis[h].lead, Basis[h].terms), <<>>)
  BY <1>4, <1>6
<1>9. job.op # "classicTailReduce"
      /\ Division!Cancelled(e, h, top) \in Division!StartSums(JobAsFunction(job))
  BY <1>1, <1>3, <1>4
<1> QED
  BY <1>1, <1>3, <1>6, <1>7, <1>8, <1>9, PairBegins

LEMMA RefuseStep ==
  ASSUME stage = "idle", stage' = "idle", Mapped(jobs) # <<>>,
         Division!StartSums(Head(Mapped(jobs))) = {}, Mapped(jobs') = Tail(Mapped(jobs)),
         Waiting' = Waiting, result' = result, reducedOut' = reducedOut
  PROVE  Division!Refuse
BY DEF Division!Refuse, Mapped

LEMMA RefuseRegularDivides ==
  ASSUME InputsFit, RInv, RefuseRegular
  PROVE  RInv' /\ Division!Refuse
<1> DEFINE job == Head(jobs)
           top == Basis[job.element].lead + job.multiple
<1>1. /\ stage = "idle" /\ jobs # <<>> /\ job.op = "regularReduce" /\ Reducers(top, job) = {}
      /\ jobs' = Tail(jobs)
      /\ UNCHANGED <<reducer, stage, queue, table, lead, result, reducedOut>>
  BY DEF RefuseRegular
<1>2. /\ job \in Jobs /\ Head(Mapped(jobs)) = JobAsFunction(job) /\ Mapped(jobs) # <<>>
      /\ Tail(jobs) \in Seq(Jobs) /\ Tail(Mapped(jobs)) = Mapped(Tail(jobs))
  BY <1>1, HeadJob
<1>3. Division!StartSums(JobAsFunction(job))
        = {Division!Cancelled(job.element, g, top) : g \in Reducers(top, job)}
  BY <1>1, <1>2, StartSumsAre
<1>4. Division!StartSums(Head(Mapped(jobs))) = {}
  <2>1. \A f, S : S = {} => {Division!Cancelled(job.element, g, top) : g \in S} = {}
    OBVIOUS
  <2> QED
    BY <1>1, <1>2, <1>3, <2>1
<1>5. Waiting' = Waiting
  BY <1>1 DEF Waiting, Hashed, Taken
<1>6. RInv'
  <2>1. SoundStore(Store, reducer)'
    BY <1>1 DEF RInv, Store
  <2>2. StageInv'
    BY <1>1, <1>2 DEF RInv, StageInv
  <2>3. LeadInv' /\ ResultInv'
    BY <1>1 DEF RInv, LeadInv, ResultInv, Hashed
  <2> QED
    BY <1>1, <2>1, <2>2, <2>3 DEF RInv
<1> HIDE DEF job
<1>7. Division!Refuse
  BY <1>1, <1>2, <1>4, <1>5, RefuseStep
<1> QED
  BY <1>6, <1>7

-----------------------------------------------------------------------------
(* How a reduction ends *)

InverseOf(a) == CHOOSE c \in 1..P - 1 : (c * a) % P = 1

LEMMA InverseIs ==
  ASSUME InputsFit, NEW a \in Coefs, a # 0
  PROVE  InverseOf(a) \in Nat /\ (InverseOf(a) * a) % P = 1
<1>1. \E c \in 1..P - 1 : (c * a) % P = 1
  BY InverseExists
<1>2. InverseOf(a) \in 1..P - 1 /\ (InverseOf(a) * a) % P = 1
  BY <1>1 DEF InverseOf
<1>3. \A c \in 1..P - 1 : c \in Nat
  BY Remainders
<1> QED
  BY <1>2, <1>3

LEMMA FirstIs ==
  ASSUME InputsFit, NEW terms \in TermSpans, NonZero(terms), terms # <<>>
  PROVE  /\ terms[1].mono \in Monos /\ terms[1].coef \in Coefs /\ terms[1].coef # 0
         /\ Head(terms) = terms[1]
         /\ Division!Lead(AsFunction(terms)) = terms[1].mono
         /\ AsFunction(terms)[terms[1].mono] = terms[1].coef
         /\ AsFunction(terms) # Division!Nil
<1> DEFINE f == AsFunction(terms)
           t == terms[1]
<1>1. 1 \in 1..Len(terms) /\ DOMAIN terms = 1..Len(terms) /\ Head(terms) = t
  BY TailIs, TermsAre
<1>2. t.mono \in Monos /\ t.coef \in Coefs /\ t.coef # 0
  BY <1>1, TermsAre DEF NonZero
<1>3. \A m \in Monos : f[m] = Coefficient(terms, m)
  BY DEF AsFunction
<1>4. \A m \in Monos : /\ m = t.mono => Coefficient(terms, m) = t.coef
                       /\ m > t.mono => Coefficient(terms, m) = 0
  BY TailIs
<1> HIDE DEF f, t
<1>5. Leads(t.mono, f) /\ f[t.mono] = t.coef
  BY <1>2, <1>3, <1>4 DEF Leads
<1>6. Division!Lead(f) = t.mono /\ f # Division!Nil
  BY <1>5, LeadIs
<1> QED
  BY <1>1, <1>2, <1>5, <1>6 DEF f, t

LEMMA MonicIs ==
  ASSUME InputsFit, NEW terms \in TermSpans, NonZero(terms)
  PROVE  /\ MakeMonic(terms) \in TermSpans
         /\ AsFunction(MakeMonic(terms)) = Division!Monic(AsFunction(terms))
         /\ Division!Monic(AsFunction(terms)) = Division!Nil <=> terms = <<>>
<1>1. CASE terms = <<>>
  <2>1. MakeMonic(terms) = <<>>
    BY <1>1 DEF MakeMonic
  <2>2. AsFunction(terms) = Division!Nil /\ <<>> \in TermSpans
    BY <1>1, NothingIs
  <2>3. Division!Monic(AsFunction(terms)) = Division!Nil
    BY <2>2 DEF Division!Monic
  <2> QED
    BY <1>1, <2>1, <2>2, <2>3
<1>2. CASE terms # <<>>
  <2> DEFINE f == AsFunction(terms)
             t == terms[1]
             c == InverseOf(t.coef)
             y == Multiple(c, 0, terms)
  <2>1. /\ t.mono \in Monos /\ t.coef \in Coefs /\ t.coef # 0 /\ Head(terms) = t
        /\ Division!Lead(f) = t.mono /\ f[t.mono] = t.coef /\ f # Division!Nil
    BY <1>2, FirstIs
  <2>2. c \in Nat /\ (c * t.coef) % P = 1
    BY <2>1, InverseIs
  <2>3. MakeMonic(terms) = y
    BY <1>2, <2>1 DEF MakeMonic, InverseOf
  <2>4. Division!Monic(f) = Division!Times(InverseOf(f[Division!Lead(f)]), 0, f)
    BY <2>1 DEF Division!Monic, InverseOf
  <2>5. Division!Monic(f) = Division!Times(c, 0, f)
    BY <2>1, <2>4
  <2>6. \A m \in Monos : f[m] = Coefficient(terms, m)
    BY DEF AsFunction
  <2> HIDE DEF f, t, c
  <2>7. /\ y \in TermSpans
        /\ \A m \in Monos : Coefficient(y, m) = IF m >= 0 THEN (c * Coefficient(terms, m - 0)) % P ELSE 0
    <3>1. ASSUME NEW k \in 1..Len(terms) PROVE terms[k].mono + 0 <= Degree
      <4>1. terms[k].mono \in Nat /\ terms[k].mono <= Degree
        BY TermsAre
      <4>2. terms[k].mono + 0 = terms[k].mono
        BY <4>1
      <4> QED
        BY <4>1, <4>2
    <3>2. 0 \in Nat
      OBVIOUS
    <3> QED
      BY <2>2, <3>1, <3>2, MultipleIs
  <2> HIDE DEF y
  <2>8. \A m \in Monos : m >= 0 /\ m - 0 = m
    BY DEF Monos, InputsFit
  <2>9. \A m \in Monos : Division!Times(c, 0, f)[m] = (c * f[m]) % P
    BY <2>8, AbstractOperators
  <2>10. Division!Times(c, 0, f) = [m \in Monos |-> (c * f[m]) % P]
    <3>1. Division!Times(c, 0, f) = [m \in Monos |-> IF m >= 0 THEN (c * f[m - 0]) % P ELSE 0]
      BY AbstractOperators
    <3> QED
      BY <2>8, <3>1
  <2>11. AsFunction(y) = Division!Monic(f)
    <3>1. \A m \in Monos : Coefficient(y, m) = (c * f[m]) % P
      BY <2>6, <2>7, <2>8
    <3> QED
      BY <2>5, <2>10, <3>1 DEF AsFunction
  <2>12. Division!Monic(f) # Division!Nil
    <3>1. Division!Monic(f)[t.mono] = 1
      BY <2>1, <2>2, <2>5, <2>9
    <3>2. Division!Nil[t.mono] = 0
      BY <2>1, AbstractOperators
    <3> QED
      BY <3>1, <3>2
  <2> QED
    BY <1>2, <2>3, <2>7, <2>11, <2>12 DEF f
<1> QED
  BY <1>1, <1>2

LEMMA FinishStep ==
  ASSUME NEW fj, NEW f, stage # "idle", stage' = "idle", Waiting = Division!Nil,
         fj = Head(Mapped(jobs)), f = Division!Monic(AsFunction(result)),
         Outcomes(reducedOut') =
           IF f = Division!Nil /\ fj.op \in {"classicReducePolySet", "classicReduceSPolySet"}
             THEN Outcomes(reducedOut)
             ELSE Append(Outcomes(reducedOut), [job |-> fj, poly |-> f]),
         Mapped(jobs') = Tail(Mapped(jobs)), AsFunction(result') = Division!Nil, Waiting' = Waiting
  PROVE  Division!Finish
BY DEF Division!Finish, Division!Report, Mapped, Outcomes, Outcome

LEMMA FinishDivides ==
  ASSUME InputsFit, RInv, Finish
  PROVE  RInv' /\ Division!Finish
<1> DEFINE job == Head(jobs)
           p == [job |-> job, poly |-> MakeMonic(result)]
           none == result = <<>> /\ job.op \in {"classicReducePolySet", "classicReduceSPolySet"}
<1>1. /\ stage = "reducing" /\ queue = <<>> /\ ~lead.known
      /\ reducedOut' = (IF none THEN reducedOut ELSE Append(reducedOut, p))
      /\ jobs' = Tail(jobs) /\ stage' = "idle" /\ table' = <<>> /\ result' = <<>>
      /\ UNCHANGED <<reducer, queue, lead>>
  BY DEF Finish
<1>2. jobs # <<>>
  BY <1>1 DEF RInv, StageInv
<1>3. /\ job \in Jobs /\ Head(Mapped(jobs)) = JobAsFunction(job) /\ Mapped(jobs) # <<>>
      /\ Tail(jobs) \in Seq(Jobs) /\ Tail(Mapped(jobs)) = Mapped(Tail(jobs))
  BY <1>2, HeadJob
<1>4. /\ SoundStore(Store, reducer) /\ Store.queue = queue /\ Store.table = table
      /\ result \in TermSpans /\ NonZero(result) /\ IsLead(lead) /\ IsStore(Store)
      /\ reducedOut \in Seq([job : Jobs, poly : TermSpans])
  BY InvParts DEF SoundStore
<1> HIDE DEF job, none
<1>5. p \in [job : Jobs, poly : TermSpans]
  BY <1>3, <1>4, MonicIs
<1>6. table = <<>>
  <2>1. CASE Hashed
    <3>1. DOMAIN table = {} /\ table \in [MonosIn(queue) -> Coefs]
      <4>1. table \in [MonosIn(queue) -> Coefs]
        <5>1. Store.table \in [MonosIn(Store.queue) -> Coefs]
          BY <1>4, <2>1, HashedStore
        <5> QED
          BY <1>4, <5>1
      <4>2. DOMAIN queue = {}
        BY <1>1
      <4>3. MonosIn(queue) = {}
        BY <4>2 DEF MonosIn
      <4> QED
        BY <4>1, <4>3
    <3>2. table = [m \in {} |-> table[m]]
      BY <3>1
    <3>3. [m \in {} |-> table[m]] = <<>>
      <4> DEFINE e == [m \in {} |-> table[m]]
      <4>1. DOMAIN e = {} /\ e = [m \in {} |-> e[m]]
        OBVIOUS
      <4>2. e = <<>>
        BY <4>1
      <4> QED
        BY <4>2
    <3> QED
      BY <3>2, <3>3
  <2>2. CASE ~Hashed
    BY <1>4, <2>2, PlainStore
  <2> QED
    BY <2>1, <2>2
<1>7. Waiting = Division!Nil
  <2>1. ASSUME NEW m \in Monos
        PROVE  (StoreSum(Store, Hashed, m) + TakenOf(lead, stage, m)) % P = 0
    <3>1. StoreSum(Store, Hashed, m) = 0
      BY <1>1, <1>4, <1>6, EmptyStore
    <3>2. TakenOf(lead, stage, m) = 0
      BY <1>1 DEF TakenOf
    <3>3. 0 + 0 = 0 /\ 0 % P = 0
      BY Remainders
    <3> QED
      BY <3>1, <3>2, <3>3
  <2>2. Waiting = [m \in Monos |-> (StoreSum(Store, Hashed, m) + TakenOf(lead, stage, m)) % P]
    BY WaitingIs DEF Left
  <2> QED
    BY <2>1, <2>2, AbstractOperators
<1>8. Waiting' = Waiting
  <2>1. stage' # "adding" /\ stage # "adding" /\ table' = table
    BY <1>1, <1>6
  <2> QED
    BY <1>1, <2>1 DEF Waiting, Hashed, Taken
<1>9. RInv'
  <2>1. SoundStore(Store, reducer)'
    <3>1. queue' = queue /\ table' = table /\ reducer' = reducer
      BY <1>1, <1>6
    <3> QED
      BY <1>4, <3>1 DEF Store
  <2>2. StageInv'
    BY <1>1, <1>3 DEF StageInv
  <2>3. LeadInv'
    BY <1>1, <1>4 DEF LeadInv
  <2>4. ResultInv'
    BY <1>1, NothingIs DEF ResultInv
  <2>5. reducedOut' \in Seq([job : Jobs, poly : TermSpans])
    <3> DEFINE T == [job : Jobs, poly : TermSpans]
    <3>1. reducedOut \in Seq(T) /\ p \in T
      BY <1>4, <1>5
    <3> HIDE DEF T, p
    <3>2. reducedOut' \in Seq(T)
      BY <1>1, <3>1
    <3> QED
      BY <3>2 DEF T
  <2>6. reducer' \in Kinds
    BY <1>1, InvParts
  <2> QED
    BY <2>1, <2>2, <2>3, <2>4, <2>5, <2>6 DEF RInv
<1> DEFINE fj == JobAsFunction(job)
           f == Division!Monic(AsFunction(result))
<1>10. /\ Outcome(p) = [job |-> fj, poly |-> f]
       /\ Outcomes(Append(reducedOut, p)) = Append(Outcomes(reducedOut), Outcome(p))
  <2>1. Outcome(p) = [job |-> JobAsFunction(job), poly |-> AsFunction(MakeMonic(result))]
    BY DEF Outcome
  <2>2. AsFunction(MakeMonic(result)) = f
    BY <1>4, MonicIs
  <2>3. Outcomes(Append(reducedOut, p)) = Append(Outcomes(reducedOut), Outcome(p))
    <3> DEFINE T == [job : Jobs, poly : TermSpans]
    <3>1. reducedOut \in Seq(T) /\ p \in T
      BY <1>4, <1>5
    <3> HIDE DEF T, p
    <3> QED
      BY <3>1, OutcomesGrow
  <2> QED
    BY <2>1, <2>2, <2>3
<1>11. fj.op = job.op /\ (f = Division!Nil <=> result = <<>>)
  BY <1>3, <1>4, JobMaps, MonicIs
<1> HIDE DEF fj, f, p
<1>12. Outcomes(reducedOut') =
         IF f = Division!Nil /\ fj.op \in {"classicReducePolySet", "classicReduceSPolySet"}
           THEN Outcomes(reducedOut)
           ELSE Append(Outcomes(reducedOut), [job |-> fj, poly |-> f])
  <2>1. CASE none
    BY <1>1, <1>11, <2>1 DEF none
  <2>2. CASE ~none
    BY <1>1, <1>10, <1>11, <2>2 DEF none
  <2> QED
    BY <2>1, <2>2
<1>13. Division!Finish
  <2>1. fj = Head(Mapped(jobs)) /\ f = Division!Monic(AsFunction(result))
    BY <1>3 DEF fj, f
  <2>2. Mapped(jobs') = Tail(Mapped(jobs)) /\ AsFunction(result') = Division!Nil
    BY <1>1, <1>3, NothingIs
  <2>3. stage # "idle" /\ stage' = "idle"
    BY <1>1
  <2> QED
    BY <1>7, <1>8, <1>12, <2>1, <2>2, <2>3, FinishStep
<1> QED
  BY <1>9, <1>13

-----------------------------------------------------------------------------
(* The invariant and the refinement *)

LEMMA InitHolds ==
  ASSUME InputsFit, Init
  PROVE  RInv /\ Division!Init
<1>1. /\ reducer \in Kinds /\ jobs \in Calls /\ stage = "idle" /\ queue = <<>> /\ table = <<>>
      /\ lead = NoLead /\ result = <<>> /\ reducedOut = <<>>
  BY DEF Init
<1>2. IsLead(lead) /\ ~lead.known
  <2>1. lead = [known |-> FALSE, mono |-> 0, coef |-> 0] /\ 0 \in Monos /\ 0 \in Coefs
    BY <1>1, Remainders DEF NoLead, Monos, InputsFit
  <2>2. lead \in [known : BOOLEAN, mono : Monos, coef : Coefs] /\ lead.known = FALSE
    BY <2>1
  <2> QED
    BY <2>2 DEF IsLead
<1>3. IsStore(Store) /\ Store.queue = <<>> /\ Store.table = <<>>
  BY <1>1 DEF Store, IsStore
<1>4. SoundStore(Store, reducer) /\ \A m \in Monos : StoreSum(Store, Hashed, m) = 0
  BY <1>3, EmptyStore
<1>5. RInv
  <2>1. jobs \in Seq(Jobs)
    BY <1>1 DEF InputsFit
  <2>2. StageInv
    BY <1>1, <1>2, <2>1 DEF StageInv
  <2>3. LeadInv
    BY <1>1, <1>2 DEF LeadInv
  <2>4. ResultInv
    BY <1>1, NothingIs DEF ResultInv
  <2>5. reducedOut \in Seq([job : Jobs, poly : TermSpans])
    BY <1>1
  <2> QED
    BY <1>1, <1>4, <2>2, <2>3, <2>4, <2>5 DEF RInv
<1>6. Waiting = Division!Nil
  <2>1. ASSUME NEW m \in Monos
        PROVE  (StoreSum(Store, Hashed, m) + TakenOf(lead, stage, m)) % P = 0
    <3>1. StoreSum(Store, Hashed, m) = 0
      BY <1>4
    <3>2. TakenOf(lead, stage, m) = 0
      BY <1>1, <1>2 DEF TakenOf
    <3>3. 0 + 0 = 0 /\ 0 % P = 0
      BY Remainders
    <3> QED
      BY <3>1, <3>2, <3>3
  <2>2. Waiting = [m \in Monos |-> (StoreSum(Store, Hashed, m) + TakenOf(lead, stage, m)) % P]
    BY WaitingIs DEF Left
  <2> QED
    BY <2>1, <2>2, AbstractOperators
<1>7. AsFunction(result) = Division!Nil /\ Outcomes(reducedOut) = <<>>
  BY <1>1, NothingIs, MapNone
<1>8. Mapped(jobs) \in {Mapped(c) : c \in Calls}
  BY <1>1
<1>9. Division!Init
  BY <1>1, <1>6, <1>7, <1>8 DEF Division!Init, Mapped, Outcomes, Outcome
<1> QED
  BY <1>5, <1>9

LEMMA StutterHolds ==
  ASSUME RInv, UNCHANGED vars
  PROVE  RInv' /\ UNCHANGED Division!vars
<1>1. UNCHANGED <<reducer, jobs, stage, queue, table, lead, result, reducedOut>>
  BY DEF vars
<1>2. RInv'
  BY <1>1 DEF RInv, Store, StageInv, LeadInv, ResultInv, Hashed
<1>3. Waiting' = Waiting
  BY <1>1 DEF Waiting, Hashed, Taken
<1> QED
  BY <1>1, <1>2, <1>3 DEF Division!vars

LEMMA SearchStutters ==
  ASSUME InputsFit, RInv, Deduplicate \/ FirstTop \/ NextTop \/ EndOfLikeTerms \/ DropZero
  PROVE  RInv' /\ UNCHANGED Division!vars
<1>1. RInv' /\ Waiting' = Waiting
  BY DeduplicateKeeps, FirstTopKeeps, NextTopKeeps, EndOfLikeTermsKeeps, DropZeroKeeps
<1>2. jobs' = jobs /\ result' = result /\ reducedOut' = reducedOut
  BY DEF Deduplicate, FirstTop, NextTop, EndOfLikeTerms, DropZero
<1>3. (stage' # "idle") = (stage # "idle")
  <2>1. Deduplicate => stage' = stage
    BY DEF Deduplicate
  <2>2. FirstTop => stage = "reducing" /\ stage' = "adding"
    BY DEF FirstTop
  <2>3. NextTop => stage' = stage
    BY DEF NextTop
  <2>4. EndOfLikeTerms => stage = "adding" /\ stage' = "reducing"
    BY DEF EndOfLikeTerms
  <2>5. DropZero => stage' = stage
    BY DEF DropZero
  <2> QED
    BY <2>1, <2>2, <2>3, <2>4, <2>5
<1> QED
  BY <1>1, <1>2, <1>3 DEF Division!vars

LEMMA StepDivides ==
  ASSUME InputsFit, RInv, [Next]_vars
  PROVE  RInv' /\ [Division!Next]_(Division!vars)
<1>1. CASE StartPoly
  BY <1>1, StartPolyDivides DEF Division!Next
<1>2. CASE StartTail
  BY <1>2, StartTailDivides DEF Division!Next
<1>3. CASE StartSPoly
  BY <1>3, StartSPolyDivides DEF Division!Next
<1>4. CASE StartRegular
  BY <1>4, StartRegularDivides DEF Division!Next
<1>5. CASE RefuseRegular
  BY <1>5, RefuseRegularDivides DEF Division!Next
<1>6. CASE Deduplicate \/ FirstTop \/ NextTop \/ EndOfLikeTerms \/ DropZero
  BY <1>6, SearchStutters
<1>7. CASE KeepLead
  BY <1>7, KeepLeadDivides DEF Division!Next
<1>8. CASE ReduceLead
  BY <1>8, ReduceLeadDivides DEF Division!Next
<1>9. CASE Finish
  BY <1>9, FinishDivides DEF Division!Next
<1>10. CASE Done \/ UNCHANGED vars
  <2>1. UNCHANGED vars
    BY <1>10 DEF Done
  <2> QED
    BY <2>1, StutterHolds
<1> QED
  BY <1>1, <1>2, <1>3, <1>4, <1>5, <1>6, <1>7, <1>8, <1>9, <1>10 DEF Next

(* What a reducer keeps is a sum that is left to divide: the invariant. *)
THEOREM StoresAreSound == Spec => []RInv
<1>1. Init => RInv
  BY InputsAssumption, InitHolds
<1>2. RInv /\ [Next]_vars => RInv'
  BY InputsAssumption, StepDivides
<1> QED
  BY <1>1, <1>2, PTL DEF Spec

(* Every kind of reducer, for every prime modulus, basis and sequence of   *)
(* reductions, divides with remainder: however the queue orders, merges or *)
(* hashes like terms, each leading term that is found is the one of the    *)
(* sum that is left, and is kept or cancelled as a whole.                  *)
THEOREM DivisionImplemented == Spec => ImplementsDivision
<1>1. Init => RInv /\ Division!Init
  BY InputsAssumption, InitHolds
<1>2. RInv /\ [Next]_vars => RInv' /\ [Division!Next]_(Division!vars)
  BY InputsAssumption, StepDivides
<1> QED
  BY <1>1, <1>2, PTL DEF Spec, ImplementsDivision, Division!Spec

-----------------------------------------------------------------------------
(* What the invariant says of the entries *)

LEMMA TypesFit ==
  ASSUME InputsFit, RInv
  PROVE  TypeOK
<1>1. /\ reducer \in Kinds /\ SoundStore(Store, reducer) /\ Store.queue = queue /\ Store.table = table
      /\ queue \in Seq(Chains) /\ DOMAIN queue = 1..Len(queue)
      /\ IsLead(lead) /\ result \in TermSpans /\ stage \in {"idle", "reducing", "adding"}
  BY InvParts
<1>2. \A x \in TermSpans : x \in Polys
  BY DEF TermSpans, Polys, Terms
<1>3. ASSUME NEW i \in DOMAIN queue
      PROVE  /\ queue[i] # <<>>
             /\ \A k \in DOMAIN queue[i] : queue[i][k] # <<>> /\ queue[i][k] \in Polys
  <2>1. queue[i] \in Chains
    BY <1>1
  <2>2. queue[i] \in Seq(Spans) /\ queue[i] # <<>>
    BY <2>1 DEF Chains
  <2>3. \A k \in DOMAIN queue[i] : queue[i][k] \in Spans
    <3> DEFINE c == queue[i]
    <3>1. c \in Seq(Spans)
      BY <2>2
    <3> HIDE DEF c
    <3>2. \A k \in DOMAIN c : c[k] \in Spans
      BY <3>1
    <3> QED
      BY <3>2 DEF c
  <2> QED
    BY <1>2, <2>2, <2>3 DEF Spans
<1>4. DOMAIN table \subseteq Monos /\ \A m \in DOMAIN table : table[m] \in Coefs
  <2>1. CASE Hashed
    <3>1. Store.table \in [MonosIn(Store.queue) -> Coefs] /\ DOMAIN Store.table \subseteq Monos
      BY <1>1, <2>1, HashedStore
    <3> QED
      BY <1>1, <3>1
  <2>2. CASE ~Hashed
    <3>1. table = <<>>
      BY <1>1, <2>2, PlainStore
    <3> QED
      BY <3>1
  <2> QED
    BY <2>1, <2>2
<1> QED
  BY <1>1, <1>2, <1>3, <1>4 DEF TypeOK, IsLead

LEMMA OneEach ==
  ASSUME InputsFit, RInv
  PROVE  OneEntryPerMono
<1> SUFFICES ASSUME Hashed
             PROVE  MonosIn(queue) = DOMAIN table /\ Len(queue) = Cardinality(DOMAIN table)
  BY DEF OneEntryPerMono
<1>1. /\ queue \in Seq(Chains) /\ DOMAIN queue = 1..Len(queue) /\ Len(queue) \in Nat
      /\ DOMAIN table = MonosIn(queue) /\ Distinct(queue)
  <2>1. SoundStore(Store, reducer) /\ Store.queue = queue /\ Store.table = table
    BY InvParts
  <2>2. /\ queue \in Seq(Chains) /\ DOMAIN table = MonosIn(queue) /\ Distinct(queue)
    BY <2>1, HashedStore
  <2> QED
    BY <2>2
<1> DEFINE n == Len(queue)
           S == MonosIn(queue)
           b == [i \in 1..n |-> Current(queue[i]).mono]
<1>2. b \in [1..n -> S] /\ \A m \in S : \E i \in 1..n : b[i] = m
  BY <1>1 DEF MonosIn
<1>3. \A i, j \in 1..n : b[i] = b[j] => i = j
  BY <1>1 DEF Distinct
<1> HIDE DEF b, S
<1>4. b \in Bijection(1..n, S)
  BY <1>2, <1>3 DEF Bijection, Injection, Surjection, IsInjective
<1>5. Cardinality(S) = n
  BY <1>1, <1>4, FS_CountingElements DEF ExistsBijection
<1> QED
  BY <1>1, <1>5 DEF S

LEMMA LikeChained ==
  ASSUME InputsFit, RInv
  PROVE  ChainsAreLike
<1> SUFFICES ASSUME NEW i \in DOMAIN queue
             PROVE  /\ \A k \in DOMAIN queue[i] : queue[i][k][1].mono = Current(queue[i]).mono
                    /\ stage # "idle" /\ result # <<>>
                         => Current(queue[i]).mono < Last(result).mono
                    /\ lead.known => Current(queue[i]).mono < lead.mono
  BY DEF ChainsAreLike
<1>1. queue[i] \in Chains
  <2>1. queue \in Seq(Chains)
    BY InvParts
  <2> QED
    BY <2>1
<1>2. \A k \in DOMAIN queue[i] : queue[i][k][1].mono = Current(queue[i]).mono
  BY <1>1 DEF Chains, Current, Span
<1>3. /\ result # <<>> => Current(queue[i]).mono < Last(result).mono
      /\ lead.known => Current(queue[i]).mono < lead.mono
  BY DEF RInv, ResultInv, LeadInv, QueueBelow
<1> QED
  BY <1>2, <1>3

-----------------------------------------------------------------------------
(* Values of polynomials *)

LEMMA SameTimes ==
  ASSUME InputsFit, NEW w \in Nat, NEW u \in Nat
  PROVE  Same(w * (u % P), w * u)
<1>1. P \in Nat /\ P > 0
  BY Remainders
<1> DEFINE q == u \div P
           r == u % P
           j == (w * r) \div P
           s == (w * r) % P
<1>2. q \in Int /\ r \in Nat /\ u = q * P + r
  BY <1>1
<1>3. w * r \in Nat
  BY <1>2
<1> HIDE DEF q, r
<1>4. j \in Int /\ s \in 0..P - 1 /\ w * r = j * P + s
  BY <1>1, <1>3
<1> HIDE DEF j, s
<1>5. w * u = (w * q + j) * P + s
  <2>1. \A a, b, c, d \in Int : a * (b * c + d) = (a * b) * c + a * d
    OBVIOUS
  <2>2. w * u = (w * q) * P + w * r
    BY <1>1, <1>2, <2>1
  <2>3. \A a, b, c, d \in Int : a * c + (b * c + d) = (a + b) * c + d
    OBVIOUS
  <2>4. w * q \in Int
    BY <1>2
  <2>5. (w * q) * P + (j * P + s) = (w * q + j) * P + s
    BY <1>1, <1>4, <2>3, <2>4
  <2> QED
    BY <1>4, <2>2, <2>5
<1>6. w * q + j \in Int
  BY <1>2, <1>4
<1>7. (w * u) % P = s
  BY <1>1, <1>4, <1>5, <1>6, RemainderIs
<1> QED
  BY <1>7 DEF Same, r, s

LEMMA SameProduct ==
  ASSUME InputsFit, NEW w \in Nat, NEW x \in Nat, NEW u \in Nat, NEW v \in Nat,
         Same(w, x), Same(u, v)
  PROVE  Same(w * u, x * v)
<1>1. w % P \in Nat /\ u % P \in Nat /\ x % P \in Nat /\ v % P \in Nat
  BY Remainders
<1>2. Same(w * (u % P), w * u)
  BY SameTimes
<1>3. Same(w * (v % P), w * v)
  BY SameTimes
<1>4. Same(v * (w % P), v * w)
  BY SameTimes
<1>5. Same(v * (x % P), v * x)
  BY SameTimes
<1>6. v * w = w * v /\ v * x = x * v
  OBVIOUS
<1> QED
  BY <1>2, <1>3, <1>4, <1>5, <1>6 DEF Same

(* The powers of x *)
Powers(power, x, n) == power = [k \in 0..n |-> IF k = 0 THEN 1 ELSE (x * power[k - 1]) % P]

LEMMA PowersExist ==
  ASSUME InputsFit, NEW x \in Nat, NEW n \in Nat
  PROVE  \E power : Powers(power, x, n) /\ \A k \in 0..n : power[k] \in Nat
<1> DEFINE F == [k \in 1..n |-> [y \in Nat |-> (x * y) % P]]
<1>1. PICK power : LoopSoFar(power, F, 1, n)
  BY LoopExists
<1>2. power[0] = 1 /\ \A k \in 1..n : power[k] = F[k][power[k - 1]]
  <2> HIDE DEF F
  <2> QED
    BY <1>1 DEF LoopSoFar
<1>3. \A k \in 1..n : power[k - 1] \in Nat => power[k] = (x * power[k - 1]) % P /\ power[k] \in Nat
  <2> SUFFICES ASSUME NEW k \in 1..n, power[k - 1] \in Nat
               PROVE  power[k] = (x * power[k - 1]) % P /\ power[k] \in Nat
    OBVIOUS
  <2>1. power[k] = F[k][power[k - 1]] /\ F[k] = [y \in Nat |-> (x * y) % P]
    BY <1>2
  <2> HIDE DEF F
  <2>2. power[k] = (x * power[k - 1]) % P
    BY <2>1
  <2>3. x * power[k - 1] \in Nat
    OBVIOUS
  <2> QED
    BY <2>2, <2>3, Remainders
<1> DEFINE T == {k \in 0..n : power[k] \in Nat}
<1>4. 0 \in T /\ \A k \in 1..n : k - 1 \in T => k \in T
  BY <1>2, <1>3
<1>5. \A k \in 0..n : power[k] \in Nat
  <2> HIDE DEF T
  <2>1. 0..n \subseteq T
    BY <1>4, EachTurn
  <2> QED
    BY <2>1 DEF T
<1>6. \A k \in 1..n : power[k] = (x * power[k - 1]) % P
  BY <1>3, <1>5
<1>7. power = [k \in 0..n |-> power[k]]
  BY <1>1 DEF LoopSoFar
<1>8. Powers(power, x, n)
  <2>1. \A k \in 0..n : power[k] = IF k = 0 THEN 1 ELSE (x * power[k - 1]) % P
    BY <1>2, <1>6
  <2> QED
    BY <1>7, <2>1 DEF Powers
<1> QED
  BY <1>5, <1>8

LEMMA PowersAgree ==
  ASSUME NEW x, NEW n \in Nat, NEW m \in n..n + 1, NEW u, NEW v,
         Powers(u, x, n), Powers(v, x, m)
  PROVE  u[n] = v[n]
<1>1. /\ u[0] = 1 /\ \A k \in 1..n : u[k] = (x * u[k - 1]) % P
      /\ v[0] = 1 /\ \A k \in 1..n : v[k] = (x * v[k - 1]) % P
  BY DEF Powers
<1> DEFINE T == {k \in 0..n : u[k] = v[k]}
<1>2. 0 \in T /\ \A k \in 1..n : k - 1 \in T => k \in T
  BY <1>1
<1> HIDE DEF T
<1>3. 0..n \subseteq T
  BY <1>2, EachTurn
<1> QED
  BY <1>3 DEF T

LEMMA PowerOf ==
  ASSUME InputsFit, NEW x \in Nat, NEW n \in Nat
  PROVE  \E power : Powers(power, x, n) /\ Power(x, n) = power[n]
<1> DEFINE power == CHOOSE u : u = [k \in 0..n |-> IF k = 0 THEN 1 ELSE (x * u[k - 1]) % P]
<1>1. \E u : u = [k \in 0..n |-> IF k = 0 THEN 1 ELSE (x * u[k - 1]) % P]
  <2>1. PICK u : Powers(u, x, n)
    BY PowersExist
  <2> QED
    BY <2>1 DEF Powers
<1>2. power = [k \in 0..n |-> IF k = 0 THEN 1 ELSE (x * power[k - 1]) % P]
  BY <1>1, Zenon
<1>3. Power(x, n) = power[n]
  BY DEF Power
<1> QED
  BY <1>2, <1>3 DEF Powers

LEMMA PowerIs ==
  ASSUME InputsFit, NEW x \in Nat, NEW n \in Nat
  PROVE  /\ Power(x, n) \in Nat /\ Power(x, 0) = 1
         /\ Power(x, n + 1) = (x * Power(x, n)) % P
<1>1. PICK u : Powers(u, x, n) /\ Power(x, n) = u[n]
  BY PowerOf
<1>2. PICK v : Powers(v, x, n + 1) /\ Power(x, n + 1) = v[n + 1]
  BY PowerOf
<1>3. PICK w : Powers(w, x, n) /\ \A k \in 0..n : w[k] \in Nat
  BY PowersExist
<1>4. PICK z : Powers(z, x, 0) /\ Power(x, 0) = z[0]
  BY PowerOf
<1>5. u[n] = v[n] /\ u[n] = w[n]
  BY <1>1, <1>2, <1>3, PowersAgree
<1>6. v[n + 1] = (x * v[n]) % P
  BY <1>2 DEF Powers
<1>7. z[0] = 1
  BY <1>4 DEF Powers
<1>8. w[n] \in Nat
  BY <1>3
<1>9. Power(x, n) \in Nat
  BY <1>1, <1>5, <1>8
<1>10. Power(x, 0) = 1
  BY <1>4, <1>7
<1>11. v[n] = Power(x, n)
  BY <1>1, <1>5
<1>12. Power(x, n + 1) = (x * Power(x, n)) % P
  BY <1>2, <1>6, <1>11
<1> QED
  BY <1>9, <1>10, <1>12

LEMMA PowerAdds ==
  ASSUME InputsFit, NEW x \in Nat, NEW a \in Nat, NEW b \in Nat
  PROVE  Same(Power(x, a + b), Power(x, a) * Power(x, b))
<1> DEFINE T == {k \in 0..b : Same(Power(x, a + k), Power(x, a) * Power(x, k))}
<1>0. Power(x, a) \in Nat
  BY PowerIs
<1>1. 0 \in T
  <2>1. Power(x, 0) = 1 /\ a + 0 = a
    BY PowerIs
  <2>2. Power(x, a) * 1 = Power(x, a)
    BY <1>0
  <2> QED
    BY <2>1, <2>2 DEF Same
<1>2. ASSUME NEW k \in 1..b, k - 1 \in T
      PROVE  k \in T
  <2>1. PICK j \in Nat : j = k - 1 /\ k = j + 1 /\ a + j \in Nat /\ a + k = (a + j) + 1
    OBVIOUS
  <2>2. PICK p \in Nat, q \in Nat, r \in Nat :
          p = Power(x, a) /\ q = Power(x, j) /\ r = Power(x, a + j)
    BY <2>1, PowerIs
  <2>3. Power(x, k) = (x * q) % P /\ Power(x, a + k) = (x * r) % P
    BY <2>1, <2>2, PowerIs
  <2>4. Same(r, p * q)
    BY <1>2, <2>1, <2>2
  <2>5. p * q \in Nat /\ x * r \in Nat /\ x * q \in Nat /\ x * (p * q) = p * (x * q)
    OBVIOUS
  <2>6. Same(x * r, x * (p * q))
    <3>1. Same(x, x)
      BY DEF Same
    <3> QED
      BY <2>4, <2>5, <3>1, SameProduct
  <2>7. Same(p * ((x * q) % P), p * (x * q))
    BY <2>5, SameTimes
  <2>8. Same((x * r) % P, x * r)
    BY <2>5, SameModulo
  <2>9. Same((x * r) % P, p * ((x * q) % P))
    BY <2>5, <2>6, <2>7, <2>8 DEF Same
  <2> QED
    BY <2>2, <2>3, <2>9
<1> HIDE DEF T
<1>3. 0..b \subseteq T
  BY <1>1, <1>2, EachTurn
<1> QED
  BY <1>3 DEF T

LEMMA TotalAdded ==
  ASSUME InputsFit, NEW f, NEW g, NEW h, NEW n \in Nat, Numbers(f, n), Numbers(g, n), Numbers(h, n),
         \A k \in 1..n : Same(h[k], f[k] + g[k])
  PROVE  Same(Total(h, n), Total(f, n) + Total(g, n))
<1> DEFINE T == {k \in 0..n : Same(Total(h, k), Total(f, k) + Total(g, k))}
<1>1. 0 \in T
  <2>1. Total(f, 0) = 0 /\ Total(g, 0) = 0 /\ Total(h, 0) = 0 /\ 0 + 0 = 0
    BY TotalOfNone
  <2> QED
    BY <2>1 DEF Same
<1>2. ASSUME NEW k \in 1..n, k - 1 \in T
      PROVE  k \in T
  <2>1. /\ f[k] \in Nat /\ Total(f, k - 1) \in Nat /\ Total(f, k) = Total(f, k - 1) + f[k]
        /\ g[k] \in Nat /\ Total(g, k - 1) \in Nat /\ Total(g, k) = Total(g, k - 1) + g[k]
        /\ h[k] \in Nat /\ Total(h, k - 1) \in Nat /\ Total(h, k) = Total(h, k - 1) + h[k]
    BY TotalTurns
  <2>2. Same(Total(h, k - 1), Total(f, k - 1) + Total(g, k - 1)) /\ Same(h[k], f[k] + g[k])
    BY <1>2
  <2>3. PICK u \in Nat, v \in Nat, w \in Nat, x \in Nat, y \in Nat, z \in Nat :
          /\ u = Total(f, k - 1) /\ v = Total(g, k - 1) /\ w = Total(h, k - 1)
          /\ x = f[k] /\ y = g[k] /\ z = h[k]
    BY <2>1
  <2>4. Same(w + z, (u + v) + (x + y))
    <3>1. Same(w, u + v) /\ Same(z, x + y) /\ u + v \in Nat /\ x + y \in Nat
      BY <2>2, <2>3
    <3> QED
      BY <3>1, SameSum
  <2>5. (u + v) + (x + y) = (u + x) + (v + y)
    OBVIOUS
  <2> QED
    BY <2>1, <2>3, <2>4, <2>5
<1> HIDE DEF T
<1>3. 0..n \subseteq T
  BY <1>1, <1>2, EachTurn
<1> QED
  BY <1>3 DEF T

LEMMA TotalScaled ==
  ASSUME InputsFit, NEW f, NEW h, NEW n \in Nat, NEW c \in Nat, Numbers(f, n), Numbers(h, n),
         \A k \in 1..n : Same(h[k], c * f[k])
  PROVE  Same(Total(h, n), c * Total(f, n))
<1> DEFINE T == {k \in 0..n : Same(Total(h, k), c * Total(f, k))}
<1>1. 0 \in T
  <2>1. Total(f, 0) = 0 /\ Total(h, 0) = 0 /\ c * 0 = 0
    BY TotalOfNone
  <2> QED
    BY <2>1 DEF Same
<1>2. ASSUME NEW k \in 1..n, k - 1 \in T
      PROVE  k \in T
  <2>1. /\ f[k] \in Nat /\ Total(f, k - 1) \in Nat /\ Total(f, k) = Total(f, k - 1) + f[k]
        /\ h[k] \in Nat /\ Total(h, k - 1) \in Nat /\ Total(h, k) = Total(h, k - 1) + h[k]
    BY TotalTurns
  <2>2. Same(Total(h, k - 1), c * Total(f, k - 1)) /\ Same(h[k], c * f[k])
    BY <1>2
  <2>3. PICK u \in Nat, w \in Nat, x \in Nat, z \in Nat :
          u = Total(f, k - 1) /\ w = Total(h, k - 1) /\ x = f[k] /\ z = h[k]
    BY <2>1
  <2>4. Same(w + z, c * u + c * x)
    <3>1. Same(w, c * u) /\ Same(z, c * x) /\ c * u \in Nat /\ c * x \in Nat
      BY <2>2, <2>3
    <3> QED
      BY <3>1, SameSum
  <2>5. c * u + c * x = c * (u + x)
    OBVIOUS
  <2> QED
    BY <2>1, <2>3, <2>4, <2>5
<1> HIDE DEF T
<1>3. 0..n \subseteq T
  BY <1>1, <1>2, EachTurn
<1> QED
  BY <1>3 DEF T

(* What the terms of a polynomial are worth at x, one by one and together *)
Worths(terms, x) == [k \in DOMAIN terms |-> terms[k].coef * Power(x, terms[k].mono)]
Worth(terms, x) == Total(Worths(terms, x), Len(terms))

(* The same of a polynomial as a function *)
Spread(f, x) == [k \in 1..Degree + 1 |-> f[k - 1] * Power(x, k - 1)]
At(f, x) == Total(Spread(f, x), Degree + 1)

LEMMA WorthsAre ==
  ASSUME InputsFit, NEW terms \in TermSpans, NEW x \in Nat
  PROVE  /\ Numbers(Worths(terms, x), Len(terms)) /\ Worth(terms, x) \in Nat
         /\ \A k \in 1..Len(terms) : Worths(terms, x)[k] = terms[k].coef * Power(x, terms[k].mono)
         /\ Value(terms, x) = Worth(terms, x) % P
<1> DEFINE w == Worths(terms, x)
<1>1. /\ Len(terms) \in Nat /\ DOMAIN terms = 1..Len(terms)
      /\ \A k \in 1..Len(terms) : terms[k].coef \in Nat /\ terms[k].mono \in Nat
  BY TermsAre
<1>2. \A k \in 1..Len(terms) : w[k] = terms[k].coef * Power(x, terms[k].mono)
  BY <1>1 DEF Worths
<1>3. \A k \in 1..Len(terms) : Power(x, terms[k].mono) \in Nat
  BY <1>1, PowerIs
<1>4. Numbers(w, Len(terms))
  <2>1. \A a, b \in Nat : a * b \in Nat
    OBVIOUS
  <2> HIDE DEF w
  <2> QED
    BY <1>1, <1>2, <1>3, <2>1 DEF Numbers
<1>5. Value(terms, x) = Worth(terms, x) % P
  BY DEF Value, Worth, Worths
<1>6. Worth(terms, x) \in Nat
  BY <1>1, <1>4, TotalTurns DEF Worth
<1> QED
  BY <1>2, <1>4, <1>5, <1>6

LEMMA SpreadIs ==
  ASSUME InputsFit, NEW f \in Poly, NEW x \in Nat
  PROVE  /\ Degree + 1 \in Nat /\ Numbers(Spread(f, x), Degree + 1) /\ At(f, x) \in Nat
         /\ \A m \in Monos : /\ m + 1 \in 1..Degree + 1 /\ f[m] \in Nat /\ Power(x, m) \in Nat
                             /\ Spread(f, x)[m + 1] = f[m] * Power(x, m)
         /\ \A k \in 1..Degree + 1 : \E m \in Monos : k = m + 1
<1> DEFINE s == Spread(f, x)
<1>0. Degree \in Nat /\ Degree + 1 \in Nat /\ Monos = 0..Degree
  BY DEF InputsFit, Monos
<1>1. ASSUME NEW m \in Monos
      PROVE  /\ m + 1 \in 1..Degree + 1 /\ f[m] \in Nat /\ Power(x, m) \in Nat
             /\ s[m + 1] = f[m] * Power(x, m)
  <2>1. m \in Nat /\ m + 1 \in 1..Degree + 1 /\ (m + 1) - 1 = m
    BY <1>0
  <2>2. f[m] \in Coefs
    BY DEF Poly
  <2>3. s[m + 1] = f[(m + 1) - 1] * Power(x, (m + 1) - 1)
    BY <2>1 DEF Spread
  <2> QED
    BY <2>1, <2>2, <2>3, Remainders, PowerIs
<1>2. \A k \in 1..Degree + 1 : \E m \in Monos : k = m + 1
  <2> SUFFICES ASSUME NEW k \in 1..Degree + 1 PROVE \E m \in Monos : k = m + 1
    OBVIOUS
  <2>1. k - 1 \in Monos /\ k = (k - 1) + 1
    BY <1>0
  <2> QED
    BY <2>1
<1>3. Numbers(s, Degree + 1)
  <2> SUFFICES ASSUME NEW k \in 1..Degree + 1 PROVE s[k] \in Nat
    BY DEF Numbers
  <2>1. PICK m \in Monos : k = m + 1
    BY <1>2
  <2>2. \A a, b \in Nat : a * b \in Nat
    OBVIOUS
  <2> HIDE DEF s
  <2> QED
    BY <1>1, <2>1, <2>2
<1>4. At(f, x) \in Nat
  BY <1>0, <1>3, TotalTurns DEF At
<1> QED
  BY <1>0, <1>1, <1>2, <1>3, <1>4

LEMMA TermsAsFunction ==
  ASSUME InputsFit, NEW terms \in TermSpans
  PROVE  AsFunction(terms) \in Poly
BY CoefficientType DEF AsFunction, Poly

(* The first k terms as a function *)
FirstTerms(terms, k) ==
  [m \in Monos |-> IF \E j \in 1..k : terms[j].mono = m THEN Coefficient(terms, m) ELSE 0]

LEMMA AtIsWorth ==
  ASSUME InputsFit, NEW terms \in TermSpans, NEW x \in Nat
  PROVE  At(AsFunction(terms), x) = Worth(terms, x)
<1> DEFINE n == Len(terms)
           w == Worths(terms, x)
           T == {k \in 0..n : At(FirstTerms(terms, k), x) = Total(w, k)}
<1>1. /\ n \in Nat /\ DOMAIN terms = 1..n
      /\ \A k \in 1..n : terms[k].mono \in Monos /\ terms[k].coef \in Nat
      /\ \A i, j \in 1..n : terms[i].mono = terms[j].mono => i = j
  BY TermsAre
<1>2. Numbers(w, n) /\ \A k \in 1..n : w[k] = terms[k].coef * Power(x, terms[k].mono)
  BY WorthsAre
<1>3. \A k : FirstTerms(terms, k) \in Poly
  <2>1. \A m : Coefficient(terms, m) \in Coefs
    BY CoefficientType
  <2> QED
    BY <2>1, Remainders DEF FirstTerms, Poly
<1> HIDE DEF w
<1>4. 0 \in T
  <2> DEFINE f == FirstTerms(terms, 0)
  <2>1. f \in Poly /\ \A m \in Monos : f[m] = 0
    <3>1. \A m \in Monos : f[m] = 0
      BY DEF FirstTerms
    <3> QED
      BY <1>3, <3>1
  <2> HIDE DEF f
  <2>2. ASSUME NEW k \in 1..Degree + 1
        PROVE  Spread(f, x)[k] = 0
    <3>1. PICK m \in Monos : k = m + 1
      BY <2>1, SpreadIs
    <3>2. Spread(f, x)[k] = f[m] * Power(x, m) /\ Power(x, m) \in Nat
      BY <2>1, <3>1, SpreadIs
    <3>3. \A a \in Nat : 0 * a = 0
      OBVIOUS
    <3> QED
      BY <2>1, <3>2, <3>3
  <2>3. At(f, x) = 0
    BY <2>1, <2>2, SpreadIs, TotalOfZeros DEF At
  <2> QED
    BY <1>1, <2>3, TotalOfNone DEF f
<1>5. ASSUME NEW k \in 1..n, k - 1 \in T
      PROVE  k \in T
  <2> DEFINE f == FirstTerms(terms, k - 1)
             g == FirstTerms(terms, k)
             m0 == terms[k].mono
             i == m0 + 1
  <2>1. m0 \in Monos /\ Coefficient(terms, m0) = terms[k].coef /\ k \in 1..k
    BY <1>1, CoefficientAt
  <2>2. f[m0] = 0 /\ g[m0] = terms[k].coef
    <3>1. \A j \in 1..k - 1 : j \in 1..n /\ j # k
      BY <1>1
    <3>2. ~\E j \in 1..k - 1 : terms[j].mono = m0
      BY <1>1, <3>1
    <3> QED
      BY <2>1, <3>2 DEF FirstTerms
  <2>3. ASSUME NEW m \in Monos, m # m0
        PROVE  g[m] = f[m]
    <3>1. (\E j \in 1..k : terms[j].mono = m) <=> (\E j \in 1..k - 1 : terms[j].mono = m)
      <4>1. \A j \in 1..k : j \in 1..k - 1 \/ j = k
        OBVIOUS
      <4>2. \A j \in 1..k - 1 : j \in 1..k
        OBVIOUS
      <4> QED
        BY <2>3, <4>1, <4>2
    <3> QED
      BY <3>1 DEF FirstTerms
  <2>4. f \in Poly /\ g \in Poly
    BY <1>3
  <2>5. At(f, x) = Total(w, k - 1)
    BY <1>5
  <2> HIDE DEF f, g
  <2> DEFINE F == Spread(f, x)
             G == Spread(g, x)
  <2>6. /\ i \in 1..Degree + 1 /\ Degree + 1 \in Nat /\ Power(x, m0) \in Nat
        /\ Numbers(F, Degree + 1) /\ Numbers(G, Degree + 1)
        /\ At(f, x) \in Nat /\ At(g, x) \in Nat
    BY <2>1, <2>4, SpreadIs
  <2>7. /\ \A m \in Monos : F[m + 1] = f[m] * Power(x, m)
        /\ \A m \in Monos : G[m + 1] = g[m] * Power(x, m)
        /\ \A j \in 1..Degree + 1 : \E m \in Monos : j = m + 1
    BY <2>4, SpreadIs
  <2>8. At(f, x) = Total(F, Degree + 1) /\ At(g, x) = Total(G, Degree + 1)
    BY DEF At
  <2> HIDE DEF F, G
  <2>9. F[i] = 0 /\ G[i] = terms[k].coef * Power(x, m0)
    <3>1. \A a \in Nat : 0 * a = 0
      OBVIOUS
    <3> QED
      BY <2>1, <2>2, <2>6, <2>7, <3>1
  <2>10. \A j \in 1..Degree + 1 : j # i => G[j] = F[j]
    <3> SUFFICES ASSUME NEW j \in 1..Degree + 1, j # i
                 PROVE  G[j] = F[j]
      OBVIOUS
    <3>1. PICK m \in Monos : j = m + 1
      BY <2>7
    <3>2. m # m0
      BY <3>1
    <3>3. G[m + 1] = g[m] * Power(x, m) /\ F[m + 1] = f[m] * Power(x, m)
      BY <2>7
    <3> QED
      BY <2>3, <3>1, <3>2, <3>3
  <2> HIDE DEF i
  <2>11. At(f, x) + G[i] = At(g, x)
    <3>1. G[i] \in Nat
      BY <2>6 DEF Numbers
    <3>2. Total(F, Degree + 1) + G[i] = Total(G, Degree + 1) + F[i]
      BY <2>6, <2>10, <3>1, TotalChanged
    <3> QED
      BY <2>6, <2>8, <2>9, <3>1, <3>2
  <2>12. Total(w, k) = Total(w, k - 1) + w[k] /\ w[k] = G[i]
    BY <1>1, <1>2, <2>9, TotalTurns
  <2>13. At(g, x) = Total(w, k)
    BY <2>5, <2>11, <2>12
  <2> QED
    BY <2>13 DEF g
<1> HIDE DEF T
<1>6. 0..n \subseteq T
  BY <1>1, <1>4, <1>5, EachTurn
<1>7. n \in T
  BY <1>1, <1>6
<1>8. FirstTerms(terms, n) = AsFunction(terms)
  <2>1. \A m \in Monos : (\E j \in 1..n : terms[j].mono = m) \/ Coefficient(terms, m) = 0
    BY <1>1, CoefficientNone
  <2> QED
    BY <2>1 DEF FirstTerms, AsFunction
<1> QED
  BY <1>7, <1>8 DEF T, Worth, w
LEMMA AtAdded ==
  ASSUME InputsFit, NEW f \in Poly, NEW g \in Poly, NEW h \in Poly, NEW x \in Nat,
         \A m \in Monos : Same(h[m], f[m] + g[m])
  PROVE  Same(At(h, x), At(f, x) + At(g, x))
<1> DEFINE F == Spread(f, x)
           G == Spread(g, x)
           H == Spread(h, x)
           n == Degree + 1
<1>1. /\ Numbers(F, n) /\ \A m \in Monos : f[m] \in Nat /\ F[m + 1] = f[m] * Power(x, m)
      /\ n \in Nat /\ \A k \in 1..n : \E m \in Monos : k = m + 1
      /\ \A m \in Monos : Power(x, m) \in Nat
  BY SpreadIs
<1>2. Numbers(G, n) /\ \A m \in Monos : g[m] \in Nat /\ G[m + 1] = g[m] * Power(x, m)
  BY SpreadIs
<1>3. Numbers(H, n) /\ \A m \in Monos : h[m] \in Nat /\ H[m + 1] = h[m] * Power(x, m)
  BY SpreadIs
<1>4. At(f, x) = Total(F, n) /\ At(g, x) = Total(G, n) /\ At(h, x) = Total(H, n)
  BY DEF At
<1> HIDE DEF F, G, H, n
<1>5. ASSUME NEW k \in 1..n
      PROVE  Same(H[k], F[k] + G[k])
  <2>1. PICK m \in Monos : k = m + 1
    BY <1>1
  <2>2. PICK a \in Nat, b \in Nat, c \in Nat, p \in Nat :
          a = f[m] /\ b = g[m] /\ c = h[m] /\ p = Power(x, m)
    BY <1>1, <1>2, <1>3
  <2>3. H[k] = c * p /\ F[k] = a * p /\ G[k] = b * p
    BY <1>1, <1>2, <1>3, <2>1, <2>2
  <2>4. Same(c, a + b) /\ Same(p, p)
    BY <2>2 DEF Same
  <2>5. a + b \in Nat /\ (a + b) * p = a * p + b * p
    OBVIOUS
  <2>6. Same(c * p, (a + b) * p)
    BY <2>4, <2>5, SameProduct
  <2> QED
    BY <2>3, <2>5, <2>6
<1>6. Same(Total(H, n), Total(F, n) + Total(G, n))
  BY <1>1, <1>2, <1>3, <1>5, TotalAdded
<1> QED
  BY <1>4, <1>6

LEMMA MultipleWorth ==
  ASSUME InputsFit, NEW terms \in TermSpans, NEW c \in Nat, NEW u \in Nat, NEW x \in Nat,
         \A k \in 1..Len(terms) : terms[k].mono + u <= Degree
  PROVE  Same(Worth(Multiple(c, u, terms), x), (c * Power(x, u)) * Worth(terms, x))
<1> DEFINE y == Multiple(c, u, terms)
           n == Len(terms)
           v == Worths(terms, x)
           w == Worths(y, x)
           d == c * Power(x, u)
<1>1. /\ y \in TermSpans /\ Len(y) = n
      /\ \A k \in 1..n : y[k] = Term(terms[k].mono + u, (terms[k].coef * c) % P)
  BY MultipleIs
<1>2. n \in Nat /\ \A k \in 1..n : terms[k].coef \in Nat /\ terms[k].mono \in Nat
  BY TermsAre
<1>3. Numbers(v, n) /\ \A k \in 1..n : v[k] = terms[k].coef * Power(x, terms[k].mono)
  BY WorthsAre
<1> HIDE DEF y
<1>4. Numbers(w, n) /\ \A k \in 1..n : w[k] = y[k].coef * Power(x, y[k].mono)
  BY <1>1, WorthsAre
<1>5. Power(x, u) \in Nat /\ d \in Nat
  <2>1. Power(x, u) \in Nat
    BY PowerIs
  <2> QED
    BY <2>1
<1>6. Worth(terms, x) = Total(v, n) /\ Worth(y, x) = Total(w, n)
  BY <1>1 DEF Worth
<1> HIDE DEF v, w
<1>7. ASSUME NEW k \in 1..n
      PROVE  Same(w[k], d * v[k])
  <2>1. PICK a \in Nat, m \in Nat : a = terms[k].coef /\ m = terms[k].mono
    BY <1>2
  <2>2. PICK p \in Nat, q \in Nat, r \in Nat :
          p = Power(x, m) /\ q = Power(x, u) /\ r = Power(x, m + u)
    <3>1. m + u \in Nat
      OBVIOUS
    <3> QED
      BY <3>1, PowerIs
  <2>3. y[k].mono = m + u /\ y[k].coef = (a * c) % P
    <3>1. y[k] = Term(terms[k].mono + u, (terms[k].coef * c) % P)
      BY <1>1
    <3>2. y[k] = [mono |-> m + u, coef |-> (a * c) % P]
      BY <2>1, <3>1 DEF Term
    <3> QED
      BY <3>2
  <2>4. w[k] = ((a * c) % P) * r /\ v[k] = a * p
    BY <1>3, <1>4, <2>1, <2>2, <2>3
  <2>5. Same(r, p * q)
    BY <2>2, PowerAdds
  <2>6. a * c \in Nat /\ (a * c) % P \in Nat /\ p * q \in Nat
    <3>1. a * c \in Nat /\ p * q \in Nat
      OBVIOUS
    <3> QED
      BY <3>1, Remainders
  <2>7. Same((a * c) % P, a * c)
    BY <2>6, SameModulo
  <2>8. Same(((a * c) % P) * r, (a * c) * (p * q))
    BY <2>5, <2>6, <2>7, SameProduct
  <2>9. (a * c) * (p * q) = (c * q) * (a * p)
    OBVIOUS
  <2> QED
    BY <2>2, <2>4, <2>8, <2>9
<1> HIDE DEF d
<1>8. Same(Total(w, n), d * Total(v, n))
  BY <1>2, <1>3, <1>4, <1>5, <1>7, TotalScaled
<1> QED
  BY <1>6, <1>8 DEF d, y

(* Where the basis vanishes, so do multiples of its elements. *)
LEMMA MultiplesVanish ==
  ASSUME InputsFit, NEW g \in DOMAIN Basis, NEW c \in Nat, NEW top \in Monos, Basis[g].lead <= top,
         NEW x \in Zeros
  PROVE  /\ x \in Nat /\ Scaled(c, top, g) \in Poly
         /\ At(Scaled(c, top, g), x) \in Nat /\ Same(At(Scaled(c, top, g), x), 0)
<1> DEFINE terms == Basis[g].terms
           l == Basis[g].lead
           u == top - l
           y == Multiple(c, u, terms)
           w == Scaled(c, top, g)
<1>1. /\ terms \in TermSpans /\ terms # <<>> /\ terms[1].mono = l
      /\ l \in Monos /\ l \in Nat /\ l <= Degree
  BY ElementIs
<1>2. x \in Nat /\ Value(terms, x) = 0
  BY DEF Zeros
<1>3. /\ u \in Nat
      /\ \A m \in Monos : /\ w[m] \in Coefs
                          /\ w[m] = IF m >= u THEN (c * Coefficient(terms, m - u)) % P ELSE 0
  BY ScaledIs
<1>4. Degree \in Nat /\ top \in Nat /\ top <= Degree /\ l + u = top
  <2>1. Degree \in Nat /\ top \in Nat /\ top <= Degree
    BY DEF Monos, InputsFit
  <2> QED
    BY <1>1, <2>1
<1> HIDE DEF terms
<1>5. ASSUME NEW k \in 1..Len(terms)
      PROVE  terms[k].mono + u <= Degree
  <2>1. terms[k].mono \in Nat /\ terms[k].mono <= l
    <3>1. 1 \in 1..Len(terms) /\ terms[k].mono \in Nat
          /\ (1 < k => terms[k].mono < terms[1].mono)
      BY <1>1, TermsAre, TailIs
    <3>2. k = 1 \/ 1 < k
      OBVIOUS
    <3> QED
      BY <1>1, <3>1, <3>2
  <2>2. u \in Nat
    BY <1>3
  <2>3. \A m, i, j, t, d \in Nat : m <= i /\ i + j = t /\ t <= d => m + j <= d
    OBVIOUS
  <2> HIDE DEF u, l
  <2> QED
    BY <1>1, <1>4, <2>1, <2>2, <2>3
<1> HIDE DEF u, l
<1>6. /\ y \in TermSpans
      /\ \A m \in Monos : Coefficient(y, m) = IF m >= u THEN (c * Coefficient(terms, m - u)) % P ELSE 0
  BY <1>1, <1>3, <1>5, MultipleIs
<1>7. w \in Poly /\ w = AsFunction(y)
  <2>1. w = [m \in Monos |-> w[m]]
    BY AbstractOperators DEF Scaled
  <2> HIDE DEF w
  <2>2. w \in Poly
    BY <1>3, <2>1 DEF Poly
  <2>3. \A m \in Monos : w[m] = Coefficient(y, m)
    BY <1>3, <1>6
  <2> QED
    BY <2>1, <2>2, <2>3 DEF AsFunction
<1> HIDE DEF w
<1>8. At(w, x) = Worth(y, x) /\ Worth(y, x) \in Nat /\ Worth(terms, x) \in Nat
  BY <1>1, <1>2, <1>6, <1>7, AtIsWorth, WorthsAre
<1>9. Same(Worth(y, x), (c * Power(x, u)) * Worth(terms, x))
  BY <1>1, <1>2, <1>3, <1>5, MultipleWorth
<1>10. Same(Worth(terms, x), 0)
  <2>1. Worth(terms, x) % P = 0 /\ 0 % P = 0
    BY <1>1, <1>2, WorthsAre, Remainders
  <2> QED
    BY <2>1 DEF Same
<1>11. Same((c * Power(x, u)) * Worth(terms, x), 0)
  <2>1. Power(x, u) \in Nat
    BY <1>2, <1>3, PowerIs
  <2>2. c * Power(x, u) \in Nat
    BY <2>1
  <2>3. \A a \in Nat : a * 0 = 0
    OBVIOUS
  <2>4. Same(c * Power(x, u), c * Power(x, u)) /\ (c * Power(x, u)) * 0 = 0 /\ 0 \in Nat
    BY <2>2, <2>3 DEF Same
  <2> QED
    BY <1>8, <1>10, <2>2, <2>4, SameProduct
<1>12. Same(At(w, x), 0)
  BY <1>8, <1>9, <1>11 DEF Same
<1> QED
  BY <1>2, <1>7, <1>8, <1>12 DEF w
-----------------------------------------------------------------------------
(* Results are reduced and congruent to what was given *)

(* What a job gives to reduce, but for multiples of basis elements *)
Given(job) == IF "poly" \in DOMAIN job THEN AsFunction(job.poly) ELSE Division!Nil

(* Wherever the basis vanishes, what is left and the remainder together    *)
(* are worth as much as what was given.                                    *)
SumInv ==
  stage # "idle" =>
    \A x \in Zeros : Same(At(Waiting, x) + At(AsFunction(result), x), At(Given(Head(jobs)), x))

(* No element reduces a term, but for the one that is to be left alone. *)
Settled(terms, job) ==
  \A k \in DOMAIN terms :
    \/ Reducers(terms[k].mono, job) = {}
    \/ k = 1 /\ job.op = "classicTailReduce"

Congruent(o) ==
  \E c \in 1..P - 1 : \A x \in Zeros :
    Value(o.poly, x) = IF "poly" \in DOMAIN o.job THEN (c * Value(o.job.poly, x)) % P ELSE 0

OutcomesInv ==
  /\ stage # "idle" => Settled(result, Head(jobs))
  /\ \A i \in DOMAIN reducedOut :
       Settled(reducedOut[i].poly, reducedOut[i].job) /\ Congruent(reducedOut[i])

NInv == RInv /\ SumInv /\ OutcomesInv

LEMMA GivenIs ==
  ASSUME InputsFit, NEW job \in Jobs
  PROVE  /\ Given(job) \in Poly
         /\ job.op \in {"classicReducePolySet", "classicTailReduce"} =>
              /\ "poly" \in DOMAIN job /\ job.poly \in TermSpans
              /\ Given(job) = AsFunction(job.poly)
         /\ job.op \in {"classicReduceSPolySet", "regularReduce"} =>
              "poly" \notin DOMAIN job /\ Given(job) = Division!Nil
<1>1. Division!Nil \in Poly
  <2>1. Division!Nil = [m \in Monos |-> 0] /\ 0 \in Coefs
    BY AbstractOperators, Remainders
  <2> QED
    BY <2>1 DEF Poly
<1>2. CASE job.op \in {"classicReducePolySet", "classicTailReduce"}
  <2>1. job.poly \in Polynomials /\ job = [op |-> job.op, poly |-> job.poly]
    BY <1>2, JobIs
  <2>2. "poly" \in DOMAIN job
    <3> DEFINE o == job.op
               p == job.poly
    <3>1. "poly" \in DOMAIN [op |-> o, poly |-> p]
      OBVIOUS
    <3> QED
      BY <2>1, <3>1
  <2>3. job.poly \in TermSpans
    BY <2>1, PolynomialIs
  <2>4. Given(job) = AsFunction(job.poly)
    BY <2>2 DEF Given
  <2>5. AsFunction(job.poly) \in Poly
    BY <2>3, TermsAsFunction
  <2> QED
    BY <1>2, <2>2, <2>3, <2>4, <2>5
<1>3. CASE job.op \in {"classicReduceSPolySet", "regularReduce"}
  <2>1. "poly" \notin DOMAIN job
    <3>1. CASE job.op = "classicReduceSPolySet"
      <4> DEFINE o == job.op
                 a == job.a
                 b == job.b
      <4>1. "poly" \notin DOMAIN [op |-> o, a |-> a, b |-> b]
        OBVIOUS
      <4>2. job = [op |-> o, a |-> a, b |-> b]
        BY <3>1, JobIs
      <4> HIDE DEF o, a, b
      <4> QED
        BY <4>1, <4>2
    <3>2. CASE job.op = "regularReduce"
      <4> DEFINE o == job.op
                 a == job.multiple
                 b == job.element
      <4>1. "poly" \notin DOMAIN [op |-> o, multiple |-> a, element |-> b]
        OBVIOUS
      <4>2. job = [op |-> o, multiple |-> a, element |-> b]
        BY <3>2, JobIs
      <4> HIDE DEF o, a, b
      <4> QED
        BY <4>1, <4>2
    <3> QED
      BY <1>3, <3>1, <3>2
  <2>2. Given(job) = Division!Nil
    BY <2>1 DEF Given
  <2> QED
    BY <1>1, <1>3, <2>1, <2>2
<1> QED
  BY <1>2, <1>3, JobIs

LEMMA NilIsZero ==
  ASSUME InputsFit, NEW x \in Nat
  PROVE  /\ Division!Nil \in Poly /\ At(Division!Nil, x) = 0
         /\ \A m \in Monos : Division!Nil[m] = 0
<1>1. <<>> \in TermSpans /\ AsFunction(<<>>) = Division!Nil
  BY NothingIs
<1>2. Worth(<<>>, x) = 0
  <2>1. Len(<<>>) = 0
    OBVIOUS
  <2> QED
    BY <2>1, TotalOfNone DEF Worth
<1>3. \A m \in Monos : Division!Nil[m] = 0
  BY AbstractOperators
<1> QED
  BY <1>1, <1>2, <1>3, AtIsWorth, TermsAsFunction

LEMMA ZeroIs ==
  ASSUME InputsFit, NEW x \in Zeros
  PROVE  x \in Nat
BY DEF Zeros

(* Two polynomials that come to what two others do *)
LEMMA Exchanged ==
  ASSUME InputsFit, NEW a \in Poly, NEW b \in Poly, NEW f \in Poly, NEW g \in Poly, NEW x \in Nat,
         \A m \in Monos : Same(a[m] + b[m], f[m] + g[m])
  PROVE  Same(At(a, x) + At(b, x), At(f, x) + At(g, x))
<1> DEFINE s == [m \in Monos |-> (f[m] + g[m]) % P]
<1>1. \A m \in Monos : a[m] \in Nat /\ b[m] \in Nat /\ f[m] \in Nat /\ g[m] \in Nat
  <2>1. \A m \in Monos : a[m] \in Coefs /\ b[m] \in Coefs /\ f[m] \in Coefs /\ g[m] \in Coefs
    BY DEF Poly
  <2> QED
    BY <2>1, Remainders
<1>2. \A m \in Monos : f[m] + g[m] \in Nat
  BY <1>1
<1>3. s \in Poly /\ \A m \in Monos : Same(s[m], f[m] + g[m])
  <2>1. \A m \in Monos : (f[m] + g[m]) % P \in Coefs /\ Same((f[m] + g[m]) % P, f[m] + g[m])
    BY <1>2, Remainders, SameModulo
  <2> QED
    BY <2>1 DEF Poly
<1> HIDE DEF s
<1>4. \A m \in Monos : Same(s[m], a[m] + b[m])
  BY <1>3 DEF Same
<1>5. Same(At(s, x), At(f, x) + At(g, x))
  BY <1>3, AtAdded
<1>6. Same(At(s, x), At(a, x) + At(b, x))
  BY <1>3, <1>4, AtAdded
<1> QED
  BY <1>5, <1>6 DEF Same

LEMMA WaitingPoly ==
  ASSUME InputsFit, RInv
  PROVE  Waiting \in Poly /\ AsFunction(result) \in Poly
<1>1. Waiting = [m \in Monos |-> Waiting[m]]
  BY DEF Waiting
<1>2. \A m \in Monos : Waiting[m] \in Coefs
  BY WaitingType
<1>3. result \in TermSpans
  BY InvParts
<1> QED
  BY <1>1, <1>2, <1>3, TermsAsFunction DEF Poly
LEMMA SumStays ==
  ASSUME InputsFit, RInv, SumInv, stage # "idle", jobs' = jobs, NEW w, NEW r,
         w \in Poly, r \in Poly, Waiting' = w, AsFunction(result') = r,
         \A x \in Zeros : Same(At(w, x) + At(r, x), At(Waiting, x) + At(AsFunction(result), x))
  PROVE  SumInv'
BY DEF SumInv, Same

LEMMA OnlyIs ==
  ASSUME InputsFit, NEW f \in Poly, NEW S
  PROVE  /\ Division!Only(f, S) \in Poly
         /\ \A m \in Monos : Division!Only(f, S)[m] = IF m \in S THEN f[m] ELSE 0
<1>1. Division!Only(f, S) = [m \in Monos |-> IF m \in S THEN f[m] ELSE 0]
  BY AbstractOperators
<1>2. \A m \in Monos : f[m] \in Coefs
  BY DEF Poly
<1> QED
  BY <1>1, <1>2, Remainders DEF Poly

LEMMA PlusIs ==
  ASSUME InputsFit, NEW f \in Poly, NEW g \in Poly
  PROVE  /\ Division!Plus(f, g) \in Poly
         /\ \A m \in Monos : /\ f[m] \in Nat /\ g[m] \in Nat
                             /\ Division!Plus(f, g)[m] = (f[m] + g[m]) % P
                             /\ Same(Division!Plus(f, g)[m], f[m] + g[m])
<1>1. Division!Plus(f, g) = [m \in Monos |-> (f[m] + g[m]) % P]
  BY AbstractOperators
<1>2. \A m \in Monos : f[m] \in Nat /\ g[m] \in Nat
  <2>1. \A m \in Monos : f[m] \in Coefs /\ g[m] \in Coefs
    BY DEF Poly
  <2> QED
    BY <2>1, Remainders
<1>3. \A m \in Monos : f[m] + g[m] \in Nat
  BY <1>2
<1>4. \A m \in Monos : (f[m] + g[m]) % P \in Coefs /\ Same((f[m] + g[m]) % P, f[m] + g[m])
  BY <1>3, Remainders, SameModulo
<1> QED
  BY <1>1, <1>2, <1>4 DEF Poly

(* A leading term that goes to the remainder *)
LEMMA KeepSums ==
  ASSUME InputsFit, RInv, SumInv, stage # "idle", jobs' = jobs, Division!Keep
  PROVE  SumInv'
<1> DEFINE a == AsFunction(result)
           l == Division!Lead(Waiting)
           o == Division!Only(Waiting, {l})
           w == Division!Only(Waiting, Division!Monos \ {l})
           r == Division!Plus(a, o)
<1>1. AsFunction(result') = r /\ Waiting' = w
  BY DEF Division!Keep
<1>2. Waiting \in Poly /\ a \in Poly
  BY WaitingPoly
<1>3. /\ w \in Poly /\ \A m \in Monos : w[m] = IF m # l THEN Waiting[m] ELSE 0
      /\ o \in Poly /\ \A m \in Monos : o[m] = IF m = l THEN Waiting[m] ELSE 0
  BY <1>2, OnlyIs, AbstractOperators
<1> HIDE DEF a, l, o, w
<1>4. /\ r \in Poly
      /\ \A m \in Monos : a[m] \in Nat /\ o[m] \in Nat /\ Same(r[m], a[m] + o[m])
  BY <1>2, <1>3, PlusIs
<1> HIDE DEF r
<1>5. \A m \in Monos : r[m] \in Nat /\ Waiting[m] \in Nat
  <2>1. \A m \in Monos : r[m] \in Coefs /\ Waiting[m] \in Coefs
    BY <1>2, <1>4 DEF Poly
  <2> QED
    BY <2>1, Remainders
<1>6. ASSUME NEW m \in Monos
      PROVE  Same(w[m] + r[m], Waiting[m] + a[m])
  <2>1. PICK i \in Nat, j \in Nat, k \in Nat : i = a[m] /\ j = Waiting[m] /\ k = r[m]
    BY <1>4, <1>5
  <2>2. CASE m = l
    <3>1. w[m] = 0 /\ o[m] = j
      BY <1>3, <2>1, <2>2
    <3>2. Same(k, i + j)
      BY <1>4, <2>1, <3>1
    <3>3. 0 + k = k /\ i + j = j + i
      OBVIOUS
    <3> QED
      BY <2>1, <3>1, <3>2, <3>3
  <2>3. CASE m # l
    <3>1. w[m] = j /\ o[m] = 0
      BY <1>3, <2>1, <2>3
    <3>2. Same(k, i + 0)
      BY <1>4, <2>1, <3>1
    <3>3. i + 0 = i /\ Same(j, j)
      BY DEF Same
    <3>4. Same(j + k, j + i)
      BY <3>2, <3>3, SameSum
    <3> QED
      BY <2>1, <3>1, <3>4
  <2> QED
    BY <2>2, <2>3
<1>7. \A x \in Zeros : Same(At(w, x) + At(r, x), At(Waiting, x) + At(a, x))
  <2> SUFFICES ASSUME NEW x \in Zeros
               PROVE  Same(At(w, x) + At(r, x), At(Waiting, x) + At(a, x))
    OBVIOUS
  <2>1. x \in Nat
    BY ZeroIs
  <2> QED
    BY <1>2, <1>3, <1>4, <1>6, <2>1, Exchanged
<1> QED
  BY <1>1, <1>3, <1>4, <1>7, SumStays DEF a

LEMMA ReducerIs ==
  ASSUME InputsFit, NEW job \in Jobs, NEW m, NEW g \in Reducers(m, job)
  PROVE  g \in DOMAIN Basis /\ Basis[g].lead <= m
BY DEF Reducers, Reduces

(* A leading term that is cancelled *)
LEMMA CancelSums ==
  ASSUME InputsFit, RInv, SumInv, stage # "idle", jobs' = jobs, Division!Cancel
  PROVE  SumInv'
<1> DEFINE a == AsFunction(result)
           l == Division!Lead(Waiting)
           B == [h \in DOMAIN Basis |-> [lead |-> Basis[h].lead, sig |-> Basis[h].sig,
                                         poly |-> AsFunction(Basis[h].terms)]]
<1>1. /\ AsFunction(result') = a /\ Waiting # Division!Nil
      /\ \E g \in Division!Reducers(l, Head(Mapped(jobs))) :
           Waiting' = Division!Plus(Waiting, Division!Times(P - Waiting[l], l - B[g].lead, B[g].poly))
  BY DEF Division!Cancel, Mapped
<1>2. Waiting \in Poly /\ a \in Poly
  BY WaitingPoly
<1>3. jobs # <<>>
  BY DEF RInv, StageInv
<1>4. Head(jobs) \in Jobs /\ Division!Reducers(l, Head(Mapped(jobs))) = Reducers(l, Head(jobs))
  BY <1>3, HeadJob
<1>5. PICK g \in Reducers(l, Head(jobs)) :
        Waiting' = Division!Plus(Waiting, Division!Times(P - Waiting[l], l - B[g].lead, B[g].poly))
  BY <1>1, <1>4
<1>6. g \in DOMAIN Basis /\ Basis[g].lead <= l
  BY <1>4, ReducerIs
<1>7. B[g].lead = Basis[g].lead /\ B[g].poly = AsFunction(Basis[g].terms)
  BY <1>6
<1> HIDE DEF B
<1>8. l \in Monos
  <2> DEFINE S == {m \in Monos : Waiting[m] # 0}
  <2>1. l = Max(S)
    BY DEF Division!Lead, Division!Support, Division!Monos, Monos, Division!Max, Max
  <2>2. S # {}
    <3>1. Waiting = [m \in Monos |-> Waiting[m]]
      BY DEF Waiting
    <3>2. CASE \A m \in Monos : Waiting[m] = 0
      <4>1. Waiting = [m \in Monos |-> 0]
        BY <3>1, <3>2
      <4> QED
        BY <1>1, <4>1, AbstractOperators
    <3> QED
      BY <3>2
  <2>3. S \in SUBSET (0..Degree) /\ Degree \in Nat
    BY DEF Monos, InputsFit
  <2>4. S \subseteq Monos
    OBVIOUS
  <2> HIDE DEF l, S
  <2>5. Max(S) \in S
    BY <2>2, <2>3, MaxIs
  <2> QED
    BY <2>1, <2>4, <2>5
<1> HIDE DEF l
<1> DEFINE c == P - Waiting[l]
           s == Scaled(c, l, g)
           w == Division!Plus(Waiting, s)
<1>9. c \in Nat
  <2>1. Waiting[l] \in 0..P - 1 /\ P \in Nat
    BY <1>8, WaitingType, Remainders DEF Coefs
  <2> HIDE DEF l
  <2> QED
    BY <2>1
<1>10. Waiting' = w
  BY <1>5, <1>7 DEF Scaled
<1> HIDE DEF c
<1>11. \A x \in Zeros : x \in Nat /\ s \in Poly /\ At(s, x) \in Nat /\ Same(At(s, x), 0)
  BY <1>6, <1>8, <1>9, MultiplesVanish
<1> HIDE DEF s, w
<1>12. CASE Zeros = {}
  BY <1>12 DEF SumInv
<1>13. CASE Zeros # {}
  <2>1. s \in Poly
    BY <1>11, <1>13
  <2>2. w \in Poly /\ \A m \in Monos : Same(w[m], Waiting[m] + s[m])
    BY <1>2, <2>1, PlusIs DEF w
  <2>3. ASSUME NEW x \in Zeros
        PROVE  Same(At(w, x) + At(a, x), At(Waiting, x) + At(a, x))
    <3>1. x \in Nat /\ Same(At(s, x), 0)
      BY <1>11
    <3>2. Same(At(w, x), At(Waiting, x) + At(s, x))
      BY <1>2, <2>1, <2>2, <3>1, AtAdded
    <3>3. PICK i \in Nat, j \in Nat, k \in Nat, n \in Nat :
            i = At(w, x) /\ j = At(Waiting, x) /\ k = At(s, x) /\ n = At(a, x)
      BY <1>2, <2>1, <2>2, <3>1, SpreadIs
    <3>4. Same(j, j) /\ Same(n, n) /\ Same(k, 0) /\ Same(i, j + k)
      BY <3>1, <3>2, <3>3 DEF Same
    <3>5. Same(j + k, j + 0) /\ j + 0 = j /\ j + k \in Nat
      BY <3>4, SameSum
    <3>6. Same(i, j)
      BY <3>4, <3>5 DEF Same
    <3>7. Same(i + n, j + n)
      BY <3>4, <3>6, SameSum
    <3> QED
      BY <3>3, <3>7
  <2> QED
    BY <1>1, <1>2, <1>10, <2>2, <2>3, SumStays DEF a
<1> QED
  BY <1>12, <1>13
(* Two multiples of basis elements make nothing. *)
LEMMA CancelledVanishes ==
  ASSUME InputsFit, NEW g \in DOMAIN Basis, NEW h \in DOMAIN Basis, NEW top \in Monos,
         Basis[g].lead <= top, Basis[h].lead <= top, NEW x \in Zeros
  PROVE  At(Division!Cancelled(g, h, top), x) \in Nat /\ Same(At(Division!Cancelled(g, h, top), x), 0)
<1> DEFINE c == P - 1
           u == Scaled(1, top, g)
           v == Scaled(c, top, h)
           w == Division!Plus(u, v)
<1>1. Division!Cancelled(g, h, top) = w
  BY CancelledIs
<1>2. c \in Nat /\ 1 \in Nat
  BY Remainders
<1> HIDE DEF c
<1>3. x \in Nat /\ u \in Poly /\ At(u, x) \in Nat /\ Same(At(u, x), 0)
  BY <1>2, MultiplesVanish
<1>4. v \in Poly /\ At(v, x) \in Nat /\ Same(At(v, x), 0)
  BY <1>2, MultiplesVanish
<1> HIDE DEF u, v
<1>5. w \in Poly /\ \A m \in Monos : Same(w[m], u[m] + v[m])
  BY <1>3, <1>4, PlusIs
<1> HIDE DEF w
<1>6. Same(At(w, x), At(u, x) + At(v, x))
  BY <1>3, <1>4, <1>5, AtAdded
<1>7. Same(At(u, x) + At(v, x), 0 + 0)
  BY <1>3, <1>4, SameSum
<1>8. At(w, x) \in Nat /\ 0 + 0 = 0
  BY <1>3, <1>5, SpreadIs
<1> QED
  BY <1>1, <1>6, <1>7, <1>8 DEF Same

(* What every beginning leaves *)
LEMMA StartedSum ==
  ASSUME InputsFit, NEW job \in Jobs, NEW w \in Division!StartSums(JobAsFunction(job)), NEW r,
         job.op = "classicTailReduce" =>
           r = Division!Only(AsFunction(job.poly), {Division!Lead(AsFunction(job.poly))}),
         job.op # "classicTailReduce" => r = Division!Nil,
         NEW x \in Zeros
  PROVE  Same(At(w, x) + At(r, x), At(Given(job), x))
<1>0. x \in Nat
  BY ZeroIs
<1>1. CASE job.op = "classicReducePolySet"
  <2>1. w = AsFunction(job.poly) /\ Given(job) = w /\ r = Division!Nil /\ w \in Poly
    BY <1>1, StartSumsAre, GivenIs
  <2>2. At(r, x) = 0 /\ At(w, x) \in Nat
    BY <1>0, <2>1, NilIsZero, SpreadIs
  <2>3. At(w, x) + At(r, x) = At(w, x)
    BY <2>2
  <2> QED
    BY <2>1, <2>3 DEF Same
<1>2. CASE job.op = "classicTailReduce"
  <2> DEFINE f == AsFunction(job.poly)
             l == Division!Lead(f)
  <2>1. /\ w = Division!Only(f, Division!Monos \ {l}) /\ r = Division!Only(f, {l})
        /\ Given(job) = f /\ f \in Poly
    BY <1>2, StartSumsAre, GivenIs
  <2> HIDE DEF f, l
  <2>2. /\ w \in Poly /\ \A m \in Monos : w[m] = IF m # l THEN f[m] ELSE 0
        /\ r \in Poly /\ \A m \in Monos : r[m] = IF m = l THEN f[m] ELSE 0
    BY <2>1, OnlyIs, AbstractOperators
  <2>3. \A m \in Monos : f[m] \in Nat
    <3>1. \A m \in Monos : f[m] \in Coefs
      BY <2>1 DEF Poly
    <3> QED
      BY <3>1, Remainders
  <2>4. \A m \in Monos : f[m] = w[m] + r[m]
    BY <2>2, <2>3
  <2>5. \A m \in Monos : Same(f[m], w[m] + r[m])
    BY <2>4 DEF Same
  <2>6. Same(At(f, x), At(w, x) + At(r, x))
    BY <1>0, <2>1, <2>2, <2>5, AtAdded
  <2> QED
    BY <2>1, <2>6 DEF Same
<1>3. CASE job.op \in {"classicReduceSPolySet", "regularReduce"}
  <2>1. Given(job) = Division!Nil /\ r = Division!Nil
    BY <1>3, GivenIs
  <2>2. At(r, x) = 0 /\ At(Given(job), x) = 0
    BY <1>0, <2>1, NilIsZero
  <2>3. At(w, x) \in Nat /\ Same(At(w, x), 0)
    <3>1. CASE job.op = "classicReduceSPolySet"
      <4> DEFINE g == job.a
                 h == job.b
                 S == {Basis[g].lead, Basis[h].lead}
                 top == Max(S)
      <4>1. g \in DOMAIN Basis /\ h \in DOMAIN Basis /\ w = Division!Cancelled(g, h, top)
        BY <3>1, JobIs, StartSumsAre
      <4> HIDE DEF g, h
      <4>2. Basis[g].lead \in Monos /\ Basis[h].lead \in Monos
        BY <4>1, ElementIs
      <4>3. S \in SUBSET (0..Degree) /\ S # {} /\ Degree \in Nat
        BY <4>2 DEF Monos, InputsFit
      <4>4. Basis[g].lead \in S /\ Basis[h].lead \in S
        OBVIOUS
      <4> HIDE DEF S
      <4>5. top \in S /\ \A n \in S : n <= top
        BY <4>3, MaxIs
      <4>6. top \in Monos /\ Basis[g].lead <= top /\ Basis[h].lead <= top
        BY <4>3, <4>4, <4>5 DEF Monos
      <4> HIDE DEF top
      <4> QED
        BY <4>1, <4>6, CancelledVanishes
    <3>2. CASE job.op = "regularReduce"
      <4> DEFINE e == job.element
                 top == Basis[e].lead + job.multiple
      <4>0. Division!StartSums(JobAsFunction(job))
              = {Division!Cancelled(e, g, top) : g \in Reducers(top, job)}
        BY <3>2, StartSumsAre
      <4>1. PICK g \in Reducers(top, job) : w = Division!Cancelled(e, g, top)
        BY <4>0
      <4>2. g \in DOMAIN Basis /\ Basis[g].lead <= top
        BY <4>1, ReducerIs
      <4>3. e \in DOMAIN Basis /\ job.multiple \in 0..Degree /\ top <= Degree
        BY <3>2, JobIs
      <4>4. Basis[e].lead \in Nat
        BY <4>3, ElementIs
      <4>5. top \in Monos /\ Basis[e].lead <= top
        <5>1. Degree \in Nat
          BY DEF InputsFit
        <5> QED
          BY <4>3, <4>4, <5>1 DEF Monos
      <4> HIDE DEF e, top
      <4> QED
        BY <4>1, <4>2, <4>3, <4>5, CancelledVanishes
    <3> QED
      BY <1>3, <3>1, <3>2
  <2>4. At(w, x) + At(r, x) = At(w, x)
    BY <2>2, <2>3
  <2> QED
    BY <2>2, <2>3, <2>4
<1> QED
  BY <1>1, <1>2, <1>3, JobIs

LEMMA StartSums ==
  ASSUME InputsFit, RInv, jobs # <<>>, jobs' = jobs, Division!Start
  PROVE  SumInv'
<1> DEFINE job == Head(jobs)
           fj == JobAsFunction(job)
<1>1. job \in Jobs /\ Head(Mapped(jobs)) = fj
  BY HeadJob
<1>2. /\ Waiting' \in Division!StartSums(Head(Mapped(jobs)))
      /\ AsFunction(result') = IF Head(Mapped(jobs)).op = "classicTailReduce"
                                 THEN Division!Only(Head(Mapped(jobs)).poly,
                                                    {Division!Lead(Head(Mapped(jobs)).poly)})
                                 ELSE Division!Nil
  BY DEF Division!Start, Mapped
<1>3. fj.op = job.op /\ (job.op = "classicTailReduce" => fj.poly = AsFunction(job.poly))
  BY <1>1, JobMaps
<1> DEFINE w == Waiting'
           r == AsFunction(result')
<1>4. /\ w \in Division!StartSums(fj)
      /\ job.op = "classicTailReduce" =>
           r = Division!Only(AsFunction(job.poly), {Division!Lead(AsFunction(job.poly))})
      /\ job.op # "classicTailReduce" => r = Division!Nil
  BY <1>1, <1>2, <1>3
<1>5. Waiting' = w /\ AsFunction(result)' = r /\ Head(jobs)' = job
  OBVIOUS
<1> HIDE DEF w, r, job
<1>6. \A x \in Zeros : Same(At(w, x) + At(r, x), At(Given(job), x))
  BY <1>1, <1>4, StartedSum DEF fj
<1> QED
  BY <1>5, <1>6 DEF SumInv, Same
-----------------------------------------------------------------------------
(* How the outcome of a reduction comes from its remainder *)

LEMMA ValueIs ==
  ASSUME InputsFit, NEW terms \in TermSpans, NEW x \in Nat
  PROVE  Value(terms, x) \in Coefs /\ Value(terms, x) \in Nat /\ Same(Value(terms, x), Worth(terms, x))
<1>1. Worth(terms, x) \in Nat /\ Value(terms, x) = Worth(terms, x) % P
  BY WorthsAre
<1>2. Value(terms, x) \in Coefs
  BY <1>1, Remainders
<1>3. Value(terms, x) \in Nat /\ Value(terms, x) % P = Value(terms, x)
  BY <1>2, Remainders
<1> QED
  BY <1>1, <1>2, <1>3 DEF Same

Scales(y, terms) ==
  \E c \in 1..P - 1 : \A x \in Nat : Value(y, x) = (c * Value(terms, x)) % P

LEMMA MonicScales ==
  ASSUME InputsFit, NEW terms \in TermSpans, NonZero(terms)
  PROVE  /\ DOMAIN MakeMonic(terms) = DOMAIN terms
         /\ \A k \in DOMAIN terms : MakeMonic(terms)[k].mono = terms[k].mono
         /\ Scales(MakeMonic(terms), terms)
<1>1. CASE terms = <<>>
  <2>1. MakeMonic(terms) = terms
    BY <1>1 DEF MakeMonic
  <2>2. ASSUME NEW x \in Nat
        PROVE  Value(terms, x) = (1 * Value(terms, x)) % P
    <3>1. Value(terms, x) \in Coefs /\ Value(terms, x) \in Nat
      BY ValueIs
    <3>2. 1 * Value(terms, x) = Value(terms, x)
      BY <3>1
    <3> QED
      BY <3>1, <3>2, Remainders
  <2>3. 1 \in 1..P - 1
    BY Remainders
  <2> QED
    BY <2>1, <2>2, <2>3 DEF Scales
<1>2. CASE terms # <<>>
  <2> DEFINE a == terms[1].coef
             c == InverseOf(a)
             y == Multiple(c, 0, terms)
  <2>1. a \in Coefs /\ a # 0 /\ Head(terms).coef = a
    BY <1>2, FirstIs
  <2>2. c \in 1..P - 1
    <3>1. \E d \in 1..P - 1 : (d * a) % P = 1
      BY <2>1, InverseExists
    <3> QED
      BY <3>1 DEF InverseOf
  <2>3. c \in Nat
    BY <2>2, Remainders
  <2>4. MakeMonic(terms) = y
    BY <1>2, <2>1 DEF MakeMonic, InverseOf
  <2> HIDE DEF a, c
  <2>5. \A k \in 1..Len(terms) : terms[k].mono + 0 <= Degree /\ terms[k].mono + 0 = terms[k].mono
    <3>1. \A k \in 1..Len(terms) : terms[k].mono \in Nat /\ terms[k].mono <= Degree
      BY TermsAre
    <3>2. \A n \in Nat : n + 0 = n
      OBVIOUS
    <3> QED
      BY <3>1, <3>2
  <2>6. /\ y \in TermSpans /\ Len(y) = Len(terms)
        /\ \A k \in 1..Len(terms) : y[k] = Term(terms[k].mono + 0, (terms[k].coef * c) % P)
    BY <2>3, <2>5, MultipleIs
  <2>7. DOMAIN terms = 1..Len(terms) /\ DOMAIN y = 1..Len(terms)
    BY <2>6, TermsAre
  <2>8. \A k \in DOMAIN terms : y[k].mono = terms[k].mono
    <3>1. \A m, e : Term(m, e).mono = m
      BY DEF Term
    <3> HIDE DEF y
    <3>2. \A k \in DOMAIN terms : y[k].mono = terms[k].mono + 0
      BY <2>6, <2>7, <3>1
    <3> QED
      BY <2>5, <2>7, <3>2
  <2>9. ASSUME NEW x \in Nat
        PROVE  Value(y, x) = (c * Value(terms, x)) % P
    <3>1. Same(Worth(y, x), (c * Power(x, 0)) * Worth(terms, x))
      BY <2>3, <2>5, MultipleWorth
    <3>2. c * Power(x, 0) = c
      <4>1. Power(x, 0) = 1 /\ c * 1 = c
        BY <2>3, PowerIs
      <4> QED
        BY <4>1
    <3> HIDE DEF y
    <3>3. /\ Value(terms, x) \in Nat /\ Same(Value(terms, x), Worth(terms, x))
          /\ Worth(terms, x) \in Nat /\ Value(y, x) = Worth(y, x) % P
      BY <2>6, ValueIs, WorthsAre
    <3>4. Same(c * Value(terms, x), c * Worth(terms, x))
      <4>1. Same(c, c)
        BY DEF Same
      <4> QED
        BY <2>3, <3>3, <4>1, SameProduct
    <3>5. Same(Worth(y, x), c * Worth(terms, x))
      BY <3>1, <3>2
    <3> QED
      BY <3>3, <3>4, <3>5 DEF Same
  <2> HIDE DEF y
  <2> QED
    BY <2>2, <2>4, <2>7, <2>8, <2>9 DEF Scales
<1> QED
  BY <1>1, <1>2

(* What is left is nothing, so that the remainder is worth what was given. *)
LEMMA RemainderWorth ==
  ASSUME InputsFit, RInv, SumInv, stage # "idle", Waiting = Division!Nil, NEW x \in Zeros
  PROVE  Value(result, x)
           = IF "poly" \in DOMAIN Head(jobs) THEN Value(Head(jobs).poly, x) ELSE 0
<1> DEFINE job == Head(jobs)
           f == AsFunction(result)
<1>1. jobs # <<>> /\ result \in TermSpans
  BY InvParts DEF RInv, StageInv
<1>2. job \in Jobs /\ x \in Nat
  BY <1>1, HeadJob, ZeroIs
<1>3. Same(At(Waiting, x) + At(f, x), At(Given(job), x))
  BY DEF SumInv
<1>4. At(f, x) = Worth(result, x) /\ Worth(result, x) \in Nat
      /\ Value(result, x) = Worth(result, x) % P
  BY <1>1, <1>2, AtIsWorth, WorthsAre
<1>5. At(Waiting, x) = 0
  BY <1>2, NilIsZero
<1> HIDE DEF job, f
<1>6. Same(Worth(result, x), At(Given(job), x))
  <2>1. 0 + Worth(result, x) = Worth(result, x)
    BY <1>4
  <2> QED
    BY <1>3, <1>4, <1>5, <2>1
<1>7. CASE job.op \in {"classicReducePolySet", "classicTailReduce"}
  <2>1. "poly" \in DOMAIN job /\ job.poly \in TermSpans /\ Given(job) = AsFunction(job.poly)
    BY <1>2, <1>7, GivenIs
  <2>2. At(Given(job), x) = Worth(job.poly, x) /\ Value(job.poly, x) = Worth(job.poly, x) % P
    BY <1>2, <2>1, AtIsWorth, WorthsAre
  <2>3. Value(result, x) = Value(job.poly, x)
    BY <1>4, <1>6, <2>2 DEF Same
  <2> QED
    BY <2>1, <2>3 DEF job
<1>8. CASE job.op \in {"classicReduceSPolySet", "regularReduce"}
  <2>1. "poly" \notin DOMAIN job /\ Given(job) = Division!Nil
    BY <1>2, <1>8, GivenIs
  <2>2. At(Given(job), x) = 0 /\ 0 % P = 0
    BY <1>2, <2>1, NilIsZero, Remainders
  <2>3. Value(result, x) = 0
    BY <1>4, <1>6, <2>2 DEF Same
  <2> QED
    BY <2>1, <2>3 DEF job
<1> QED
  BY <1>2, <1>7, <1>8, JobIs

LEMMA OutcomeIs ==
  ASSUME InputsFit, RInv, SumInv, stage # "idle", Waiting = Division!Nil,
         Settled(result, Head(jobs)), NEW o,
         o.job = Head(jobs), o.poly = MakeMonic(result)
  PROVE  Settled(o.poly, o.job) /\ Congruent(o)
<1> DEFINE job == Head(jobs)
           y == MakeMonic(result)
<1>1. result \in TermSpans /\ NonZero(result) /\ jobs # <<>>
  BY InvParts DEF RInv, StageInv
<1>2. /\ DOMAIN y = DOMAIN result /\ \A k \in DOMAIN result : y[k].mono = result[k].mono
      /\ Scales(y, result)
  BY <1>1, MonicScales
<1>3. \A x \in Zeros : Value(result, x) = IF "poly" \in DOMAIN job THEN Value(job.poly, x) ELSE 0
  BY RemainderWorth
<1> HIDE DEF job, y
<1>4. o.job = job /\ o.poly = y
  BY DEF job, y
<1>5. Settled(y, job)
  BY <1>2 DEF Settled, job
<1>6. PICK c \in 1..P - 1 : \A x \in Nat : Value(y, x) = (c * Value(result, x)) % P
  BY <1>2 DEF Scales
<1>7. ASSUME NEW x \in Zeros
      PROVE  Value(y, x) = IF "poly" \in DOMAIN job THEN (c * Value(job.poly, x)) % P ELSE 0
  <2>1. Value(y, x) = (c * Value(result, x)) % P
    BY <1>6, ZeroIs
  <2>2. CASE "poly" \in DOMAIN job
    <3>1. Value(result, x) = Value(job.poly, x)
      BY <1>3, <2>2
    <3> QED
      BY <2>1, <2>2, <3>1
  <2>3. CASE "poly" \notin DOMAIN job
    <3>1. Value(result, x) = 0
      BY <1>3, <2>3
    <3>2. c \in Nat
      BY Remainders
    <3>3. c * 0 = 0 /\ 0 % P = 0
      BY <3>2, Remainders
    <3> QED
      BY <2>1, <2>3, <3>1, <3>3
  <2> QED
    BY <2>2, <2>3
<1> QED
  BY <1>4, <1>5, <1>7 DEF Congruent
-----------------------------------------------------------------------------
(* Every step keeps the sums and the outcomes. *)

(* What is kept is settled. *)
LEMMA KeptSettled ==
  ASSUME InputsFit, RInv, OutcomesInv, KeepLead
  PROVE  OutcomesInv'
<1>1. /\ stage = "reducing" /\ jobs' = jobs /\ reducedOut' = reducedOut
  BY DEF KeepLead
<1>2. PICK l \in LeadTerms :
        Reducers(l.term.mono, Head(jobs)) = {} /\ result' = Append(result, l.term)
  BY DEF KeepLead
<1> DEFINE t == l.term
           n == Len(result)
           y == Append(result, t)
<1>3. result \in TermSpans /\ t \in Terms
  BY <1>1, InvParts, LeadTermIs DEF LeadTaken
<1>4. result \in Seq(Terms) /\ n \in Nat /\ DOMAIN result = 1..n
  BY <1>3, TermsAre
<1> HIDE DEF t
<1>5. /\ DOMAIN y = 1..n + 1 /\ y[n + 1] = t /\ \A k \in 1..n : y[k] = result[k]
  BY <1>3, <1>4
<1>6. result' = y /\ Reducers(t.mono, Head(jobs)) = {}
  BY <1>2 DEF t
<1>7. Settled(result, Head(jobs))
  BY <1>1 DEF OutcomesInv
<1> HIDE DEF y
<1>8. Settled(y, Head(jobs))
  <2> SUFFICES ASSUME NEW k \in DOMAIN y
               PROVE  \/ Reducers(y[k].mono, Head(jobs)) = {}
                      \/ k = 1 /\ Head(jobs).op = "classicTailReduce"
    BY DEF Settled
  <2>1. k \in 1..n \/ k = n + 1
    BY <1>4, <1>5
  <2>2. CASE k \in 1..n
    BY <1>4, <1>5, <1>7, <2>2 DEF Settled
  <2>3. CASE k = n + 1
    BY <1>5, <1>6, <2>3
  <2> QED
    BY <2>1, <2>2, <2>3
<1> QED
  BY <1>1, <1>6, <1>8 DEF OutcomesInv

LEMMA StartedSettled ==
  ASSUME InputsFit, RInv, OutcomesInv, StartPoly \/ StartTail \/ StartSPoly \/ StartRegular
  PROVE  OutcomesInv' /\ jobs # <<>> /\ jobs' = jobs
<1>1. /\ jobs' = jobs /\ reducedOut' = reducedOut /\ jobs # <<>>
      /\ \/ result' = <<>>
         \/ result' = <<Head(Head(jobs).poly)>> /\ Head(jobs).op = "classicTailReduce"
  BY DEF StartPoly, StartTail, StartSPoly, StartRegular, Begin
<1>2. Settled(result', Head(jobs))
  <2>1. CASE result' = <<>>
    BY <2>1 DEF Settled
  <2>2. CASE result' = <<Head(Head(jobs).poly)>> /\ Head(jobs).op = "classicTailReduce"
    <3>1. \A t : \A k \in DOMAIN <<t>> : k = 1
      OBVIOUS
    <3>2. \A k \in DOMAIN result' : k = 1
      BY <2>2, <3>1
    <3> QED
      BY <2>2, <3>2 DEF Settled
  <2> QED
    BY <1>1, <2>1, <2>2
<1> QED
  BY <1>1, <1>2 DEF OutcomesInv

LEMMA FinishedSettled ==
  ASSUME InputsFit, NInv, Finish
  PROVE  SumInv' /\ OutcomesInv'
<1>1. RInv /\ SumInv /\ OutcomesInv
  BY DEF NInv
<1> DEFINE o == [job |-> Head(jobs), poly |-> MakeMonic(result)]
<1>2. /\ stage = "reducing" /\ stage' = "idle"
      /\ reducedOut' = reducedOut \/ reducedOut' = Append(reducedOut, o)
  BY DEF Finish
<1>3. Waiting = Division!Nil
  <2>1. Division!Finish
    BY <1>1, FinishDivides
  <2> QED
    BY <2>1 DEF Division!Finish
<1>4. Settled(o.poly, o.job) /\ Congruent(o)
  <2>1. o.job = Head(jobs) /\ o.poly = MakeMonic(result)
    OBVIOUS
  <2>2. Settled(result, Head(jobs))
    BY <1>1, <1>2 DEF OutcomesInv
  <2> HIDE DEF o
  <2> QED
    BY <1>1, <1>2, <1>3, <2>1, <2>2, OutcomeIs
<1> DEFINE T == [job : Jobs, poly : TermSpans]
           q == Append(reducedOut, o)
           n == Len(reducedOut)
<1>5. reducedOut \in Seq(T)
  BY <1>1, InvParts
<1> HIDE DEF T, o
<1>6. n \in Nat /\ DOMAIN reducedOut = 1..n
      /\ DOMAIN q = 1..n + 1 /\ q[n + 1] = o /\ \A i \in 1..n : q[i] = reducedOut[i]
  BY <1>5
<1> HIDE DEF q
<1>7. \A i \in DOMAIN reducedOut :
        Settled(reducedOut[i].poly, reducedOut[i].job) /\ Congruent(reducedOut[i])
  BY <1>1 DEF OutcomesInv
<1>8. \A i \in DOMAIN q : Settled(q[i].poly, q[i].job) /\ Congruent(q[i])
  <2> SUFFICES ASSUME NEW i \in DOMAIN q
               PROVE  Settled(q[i].poly, q[i].job) /\ Congruent(q[i])
    OBVIOUS
  <2>1. i \in 1..n \/ i = n + 1
    BY <1>6
  <2> QED
    BY <1>4, <1>6, <1>7, <2>1
<1>9. reducedOut' = reducedOut \/ reducedOut' = q
  BY <1>2 DEF q
<1>10. OutcomesInv'
  BY <1>2, <1>7, <1>8, <1>9 DEF OutcomesInv
<1>11. SumInv'
  BY <1>2 DEF SumInv
<1> QED
  BY <1>10, <1>11

LEMMA SearchSums ==
  ASSUME InputsFit, NInv, Deduplicate \/ FirstTop \/ NextTop \/ EndOfLikeTerms \/ DropZero
  PROVE  SumInv' /\ OutcomesInv'
<1>1. RInv /\ SumInv /\ OutcomesInv
  BY DEF NInv
<1>2. Waiting' = Waiting
  BY <1>1, DeduplicateKeeps, FirstTopKeeps, NextTopKeeps, EndOfLikeTermsKeeps, DropZeroKeeps
<1>3. jobs' = jobs /\ result' = result /\ reducedOut' = reducedOut
  BY DEF Deduplicate, FirstTop, NextTop, EndOfLikeTerms, DropZero
<1>4. stage' # "idle" => stage # "idle"
  <2>1. Deduplicate => stage' = stage
    BY DEF Deduplicate
  <2>2. FirstTop => stage = "reducing"
    BY DEF FirstTop
  <2>3. NextTop => stage' = stage
    BY DEF NextTop
  <2>4. EndOfLikeTerms => stage = "adding"
    BY DEF EndOfLikeTerms
  <2>5. DropZero => stage' = stage
    BY DEF DropZero
  <2> QED
    BY <2>1, <2>2, <2>3, <2>4, <2>5
<1>5. SumInv'
  BY <1>1, <1>2, <1>3, <1>4 DEF SumInv
<1>6. OutcomesInv'
  BY <1>1, <1>3, <1>4 DEF OutcomesInv
<1> QED
  BY <1>5, <1>6

LEMMA SumsHold ==
  ASSUME InputsFit, NInv, [Next]_vars
  PROVE  NInv'
<1>0. RInv /\ SumInv /\ OutcomesInv
  BY DEF NInv
<1>1. RInv'
  BY <1>0, StepDivides
<1>2. CASE StartPoly \/ StartTail \/ StartSPoly \/ StartRegular
  <2>1. OutcomesInv' /\ jobs # <<>> /\ jobs' = jobs
    BY <1>0, <1>2, StartedSettled
  <2>2. Division!Start
    BY <1>0, <1>2, StartPolyDivides, StartTailDivides, StartSPolyDivides, StartRegularDivides
  <2>3. SumInv'
    BY <1>0, <2>1, <2>2, StartSums
  <2> QED
    BY <1>1, <2>1, <2>3 DEF NInv
<1>3. CASE RefuseRegular
  <2>1. stage' = "idle" /\ reducedOut' = reducedOut
    BY <1>3 DEF RefuseRegular
  <2>2. SumInv' /\ OutcomesInv'
    BY <1>0, <2>1 DEF SumInv, OutcomesInv
  <2> QED
    BY <1>1, <2>2 DEF NInv
<1>4. CASE Deduplicate \/ FirstTop \/ NextTop \/ EndOfLikeTerms \/ DropZero
  BY <1>1, <1>4, SearchSums DEF NInv
<1>5. CASE KeepLead
  <2>1. Division!Keep /\ stage # "idle" /\ jobs' = jobs
    BY <1>0, <1>5, KeepLeadDivides DEF KeepLead
  <2>2. SumInv'
    BY <1>0, <2>1, KeepSums
  <2>3. OutcomesInv'
    BY <1>0, <1>5, KeptSettled
  <2> QED
    BY <1>1, <2>2, <2>3 DEF NInv
<1>6. CASE ReduceLead
  <2>1. /\ Division!Cancel /\ stage # "idle"
        /\ jobs' = jobs /\ reducedOut' = reducedOut /\ result' = result
    BY <1>0, <1>6, ReduceLeadDivides DEF ReduceLead
  <2>2. SumInv'
    BY <1>0, <2>1, CancelSums
  <2>3. OutcomesInv'
    BY <1>0, <2>1 DEF OutcomesInv
  <2> QED
    BY <1>1, <2>2, <2>3 DEF NInv
<1>7. CASE Finish
  BY <1>1, <1>7, FinishedSettled DEF NInv
<1>8. CASE Done \/ UNCHANGED vars
  <2>1. UNCHANGED <<reducer, jobs, stage, queue, table, lead, result, reducedOut>>
    BY <1>8 DEF Done, vars
  <2>2. Waiting' = Waiting
    BY <2>1 DEF Waiting, Hashed, Taken
  <2>3. SumInv' /\ OutcomesInv'
    BY <1>0, <2>1, <2>2 DEF SumInv, OutcomesInv
  <2> QED
    BY <1>1, <2>3 DEF NInv
<1> QED
  BY <1>2, <1>3, <1>4, <1>5, <1>6, <1>7, <1>8 DEF Next

LEMMA SumsBegin ==
  ASSUME InputsFit, Init
  PROVE  NInv
<1>1. stage = "idle" /\ DOMAIN reducedOut = {}
  BY DEF Init
<1> QED
  BY <1>1, InitHolds DEF NInv, SumInv, OutcomesInv

LEMMA NormalResults ==
  ASSUME InputsFit, NInv
  PROVE  ResultsAreNormal
<1> SUFFICES ASSUME NEW i \in DOMAIN reducedOut
             PROVE  /\ \A k, l \in DOMAIN reducedOut[i].poly :
                         k < l => reducedOut[i].poly[k].mono > reducedOut[i].poly[l].mono
                    /\ Settled(reducedOut[i].poly, reducedOut[i].job)
                    /\ Congruent(reducedOut[i])
  BY DEF ResultsAreNormal, Settled, Congruent
<1> DEFINE T == [job : Jobs, poly : TermSpans]
<1>1. reducedOut \in Seq(T)
  BY DEF NInv, RInv
<1>2. reducedOut[i] \in T
  <2> HIDE DEF T
  <2> QED
    BY <1>1
<1>3. reducedOut[i].poly \in TermSpans
  BY <1>2
<1> QED
  BY <1>3 DEF NInv, OutcomesInv, TermSpans, Descending

(* The invariant of a reducer.  In every state of every kind of reducer    *)
(* the queue, the table and the lead term have their types; a hashed       *)
(* reducer has exactly one entry for each term in its table, however often *)
(* a monomial came and went; chained entries share their monomial, and     *)
(* none is left behind above a term that has already been taken; and every *)
(* finished reduction has returned a descending polynomial that cannot be  *)
(* reduced any further and is, up to a constant, worth what was given      *)
(* wherever the whole basis vanishes.                                      *)
THEOREM EntriesStaySound == Spec => []EntriesAreSound
<1>1. Init => NInv
  BY InputsAssumption, SumsBegin
<1>2. NInv /\ [Next]_vars => NInv'
  BY InputsAssumption, SumsHold
<1>3. NInv => EntriesAreSound
  <2>1. ASSUME NInv
        PROVE  TypeOK /\ OneEntryPerMono /\ ChainsAreLike /\ ResultsAreNormal
    <3>1. RInv
      BY <2>1 DEF NInv
    <3> QED
      BY <2>1, <3>1, InputsAssumption, TypesFit, OneEach, LikeChained, NormalResults
  <2> QED
    BY <2>1 DEF EntriesAreSound
<1> QED
  BY <1>1, <1>2, <1>3, PTL DEF Spec
=============================================================================
