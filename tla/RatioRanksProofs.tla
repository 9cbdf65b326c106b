-------------------------- MODULE RatioRanksProofs --------------------------
(***************************************************************************)
(* Comparing ranks is comparing ratios, and a new element finds room, for  *)
(* every sequence of insertions, as long as there are four ranks for each  *)
(* element.                                                                *)
(***************************************************************************)
EXTENDS RatioRanks, FiniteSetTheorems, WellFoundedInduction, TLAPS

LEMMA MinIs ==
  ASSUME NEW S, S \subseteq Nat, S # {}
  PROVE  Min(S) \in S /\ \A n \in S : Min(S) <= n
<1>1. PICK m \in S : \A n \in S : <<n, m>> \notin OpToRel(<, Nat)
  BY NatLessThanWellFounded, WFMin
<1>2. ASSUME NEW n \in S
      PROVE  m <= n
  <2>1. m \in Nat /\ n \in Nat
    OBVIOUS
  <2>2. ~(n < m)
    BY <1>1, <2>1 DEF OpToRel
  <2> QED
    BY <2>1, <2>2
<1> QED
  BY <1>1, <1>2 DEF Min

LEMMA MaxIs ==
  ASSUME NEW n \in Nat, NEW S \in SUBSET (0..n), S # {}
  PROVE  Max(S) \in S /\ \A x \in S : x <= Max(S)
<1> DEFINE T == {i \in 0..n : n - i \in S}
<1>1. T \subseteq Nat
  OBVIOUS
<1>2. T # {}
  <2>1. PICK x \in S : TRUE
    OBVIOUS
  <2>2. n - x \in 0..n /\ n - (n - x) = x
    BY <2>1
  <2>3. n - x \in T
    BY <2>1, <2>2
  <2> QED
    BY <2>3
<1>3. Min(T) \in T /\ \A j \in T : Min(T) <= j
  <2> HIDE DEF T
  <2> QED
    BY <1>1, <1>2, MinIs
<1>4. ASSUME NEW x \in S
      PROVE  x <= n - Min(T)
  <2>1. n - x \in 0..n /\ n - (n - x) = x
    OBVIOUS
  <2>2. Min(T) <= n - x
    BY <1>3, <2>1
  <2>3. Min(T) \in 0..n
    BY <1>3
  <2> QED
    BY <2>1, <2>2, <2>3
<1>5. \E x \in S : \A y \in S : x >= y
  <2>1. n - Min(T) \in S
    BY <1>3
  <2> QED
    BY <1>4, <2>1
<1> QED
  BY <1>5 DEF Max

-----------------------------------------------------------------------------
(* Ranks in the order of the ratios q, with room for one between any two *)

Spaced(q, r, n, gap) ==
  /\ r \in [1..n -> gap .. MaxRank - gap]
  /\ \A i, j \in 1..n :
       /\ q[i] = q[j] => r[i] = r[j]
       /\ q[i] < q[j] => r[i] + gap <= r[j]

RanksInv ==
  \E n \in 0..MaxSize :
    /\ ratios \in [1..n -> Ratios] /\ Len(ratios) = n
    /\ Len(ranks) = n
    /\ Spaced(ratios, ranks, n, 2)

(* The ranks around a ratio that no element has *)
LEMMA Around ==
  ASSUME RanksSuffice, NEW n \in Nat, ratios \in [1..n -> Ratios],
         NEW gap \in {2, 4}, NEW r, Spaced(ratios, r, n, gap),
         NEW ratio \in Ratios, \A i \in 1..n : ratios[i] # ratio
  PROVE  /\ RankBelow(r, ratio) \in 0..MaxRank /\ RankAbove(r, ratio) \in 0..MaxRank
         /\ RankBelow(r, ratio) + gap <= RankAbove(r, ratio)
         /\ \A i \in 1..n : /\ ratios[i] < ratio => r[i] <= RankBelow(r, ratio)
                            /\ ratios[i] > ratio => r[i] >= RankAbove(r, ratio)
<1> DEFINE below == {i \in 1..n : ratios[i] <= ratio}
           above == {i \in 1..n : ratios[i] > ratio}
           lows == {r[i] : i \in below}
           highs == {r[i] : i \in above}
<1>1. /\ r \in [1..n -> gap .. MaxRank - gap] /\ DOMAIN r = 1..n
      /\ MaxRank \in Nat /\ MaxRank >= 4 /\ Ratios \subseteq Int
  BY DEF Spaced, RanksSuffice
<1>2. /\ RankBelow(r, ratio) = IF below = {} THEN 0 ELSE Max(lows)
      /\ RankAbove(r, ratio) = IF above = {} THEN MaxRank ELSE Min(highs)
  BY <1>1 DEF RankBelow, RankAbove
<1>3. \A i \in 1..n : /\ r[i] \in Nat /\ r[i] \in 0..MaxRank
                     /\ gap <= r[i] /\ r[i] + gap <= MaxRank
  <2> SUFFICES ASSUME NEW i \in 1..n
               PROVE  r[i] \in Nat /\ r[i] \in 0..MaxRank /\ gap <= r[i] /\ r[i] + gap <= MaxRank
    OBVIOUS
  <2>1. r[i] \in gap .. MaxRank - gap /\ gap \in Nat
    BY <1>1
  <2> QED
    BY <1>1, <2>1
<1>4. below # {} => /\ \E i \in below : Max(lows) = r[i]
                    /\ \A i \in below : r[i] <= Max(lows)
  <2> SUFFICES ASSUME below # {} PROVE /\ \E i \in below : Max(lows) = r[i]
                                       /\ \A i \in below : r[i] <= Max(lows)
    OBVIOUS
  <2>1. lows \in SUBSET (0..MaxRank) /\ lows # {}
    BY <1>3
  <2>2. Max(lows) \in lows /\ \A x \in lows : x <= Max(lows)
    <3> HIDE DEF lows
    <3> QED
      BY <1>1, <2>1, MaxIs
  <2> QED
    BY <2>2
<1>5. above # {} => /\ \E i \in above : Min(highs) = r[i]
                    /\ \A i \in above : Min(highs) <= r[i]
  <2> SUFFICES ASSUME above # {} PROVE /\ \E i \in above : Min(highs) = r[i]
                                       /\ \A i \in above : Min(highs) <= r[i]
    OBVIOUS
  <2>1. highs \in SUBSET Nat /\ highs # {}
    BY <1>3
  <2>2. Min(highs) \in highs /\ \A x \in highs : Min(highs) <= x
    <3> HIDE DEF highs
    <3> QED
      BY <2>1, MinIs
  <2> QED
    BY <2>2
<1>6. \A i \in below, j \in above : r[i] + gap <= r[j]
  <2> SUFFICES ASSUME NEW i \in below, NEW j \in above PROVE r[i] + gap <= r[j]
    OBVIOUS
  <2>1. ratios[i] \in Int /\ ratios[j] \in Int /\ ratio \in Int
    BY <1>1
  <2>2. ratios[i] < ratios[j]
    BY <2>1
  <2> QED
    BY <2>2 DEF Spaced
<1>7. \A i \in 1..n : /\ ratios[i] < ratio => i \in below
                      /\ ratios[i] > ratio => i \in above
  <2> SUFFICES ASSUME NEW i \in 1..n
               PROVE  /\ ratios[i] < ratio => i \in below
                      /\ ratios[i] > ratio => i \in above
    OBVIOUS
  <2>1. ratios[i] \in Int /\ ratio \in Int
    BY <1>1
  <2> QED
    BY <2>1
<1> HIDE DEF lows, highs, below, above
<1>8. below \subseteq 1..n /\ above \subseteq 1..n
  BY DEF below, above
<1>9. CASE below = {} /\ above = {}
  <2>1. RankBelow(r, ratio) = 0 /\ RankAbove(r, ratio) = MaxRank
    BY <1>2, <1>9
  <2>2. \A i \in 1..n : ~(ratios[i] < ratio) /\ ~(ratios[i] > ratio)
    BY <1>7, <1>9
  <2>3. 0 \in 0..MaxRank /\ MaxRank \in 0..MaxRank /\ 0 + gap <= MaxRank
    BY <1>1
  <2> QED
    BY <2>1, <2>2, <2>3
<1>10. CASE below = {} /\ above # {}
  BY <1>1, <1>2, <1>3, <1>5, <1>7, <1>8, <1>10, SMTT(20)
<1>11. CASE below # {} /\ above = {}
  <2>1. PICK i \in below : Max(lows) = r[i]
    BY <1>4, <1>11
  <2>2. \A j \in 1..n : ratios[j] < ratio => r[j] <= r[i]
    BY <1>4, <1>7, <1>11, <2>1
  <2>3. \A j \in 1..n : ~(ratios[j] > ratio)
    BY <1>7, <1>11
  <2> QED
    BY <1>1, <1>2, <1>3, <1>8, <1>11, <2>1, <2>2, <2>3, SMTT(20)
<1>12. CASE below # {} /\ above # {}
  BY <1>1, <1>2, <1>3, <1>4, <1>5, <1>6, <1>7, <1>8, <1>12, SMTT(20)
<1> QED
  BY <1>9, <1>10, <1>11, <1>12

LEMMA HalfWay ==
  ASSUME NEW lo \in Nat, NEW hi \in Nat, lo + 4 <= hi
  PROVE  lo + ((hi - lo) \div 2) \in lo + 2 .. hi - 2
OBVIOUS

LEMMA Wider ==
  ASSUME MaxRank \in Nat, NEW gap \in {2, 4}, NEW n \in Nat, NEW q, NEW r,
         Spaced(q, r, n, gap)
  PROVE  Spaced(q, r, n, 2)
<1>1. /\ r \in [1..n -> gap .. MaxRank - gap]
      /\ \A i, j \in 1..n : /\ q[i] = q[j] => r[i] = r[j]
                            /\ q[i] < q[j] => r[i] + gap <= r[j]
  BY DEF Spaced
<1>2. gap .. MaxRank - gap \subseteq 2 .. MaxRank - 2 /\ \A i \in 1..n : r[i] \in Nat
  BY <1>1
<1> QED
  BY <1>1, <1>2 DEF Spaced

(* The first element finds room. *)
LEMMA RoomAtFirst ==
  ASSUME RanksSuffice, NEW ratio, DOMAIN ranks = {}, MaxSize > 0
  PROVE  Room(ranks, ratio)
<1>1. RankBelow(ranks, ratio) = 0 /\ RankAbove(ranks, ratio) = MaxRank
  BY DEF RankBelow, RankAbove
<1>2. MaxRank \in Nat /\ MaxRank >= 8
  BY DEF RanksSuffice
<1>3. 0 + ((MaxRank - 0) \div 2) \in 2 .. MaxRank - 2
  BY <1>2, HalfWay
<1> QED
  BY <1>1, <1>2, <1>3 DEF Room, HasRoom, Middle

(* The middle of enough room *)
LEMMA MiddleIs ==
  ASSUME RanksSuffice, NEW n \in Nat, ratios \in [1..n -> Ratios],
         NEW gap \in {2, 4}, NEW r, Spaced(ratios, r, n, gap),
         NEW ratio \in Ratios, \A i \in 1..n : ratios[i] # ratio,
         gap = 4 \/ Room(r, ratio)
  PROVE  /\ Room(r, ratio)
         /\ Middle(r, ratio) \in 2 .. MaxRank - 2
         /\ \A i \in 1..n : /\ ratios[i] < ratio => r[i] + 2 <= Middle(r, ratio)
                            /\ ratios[i] > ratio => Middle(r, ratio) + 2 <= r[i]
<1>1. PICK lo \in 0..MaxRank, hi \in 0..MaxRank :
        lo = RankBelow(r, ratio) /\ hi = RankAbove(r, ratio)
  BY Around
<1>2. /\ lo + gap <= hi
      /\ \A i \in 1..n : /\ ratios[i] < ratio => r[i] <= lo
                         /\ ratios[i] > ratio => r[i] >= hi
  BY <1>1, Around
<1>3. MaxRank \in Nat /\ lo \in Nat /\ hi \in Nat /\ hi <= MaxRank
  BY DEF RanksSuffice
<1>4. lo + 4 <= hi
  <2>1. CASE gap = 4
    BY <1>2, <2>1
  <2>2. CASE Room(r, ratio)
    BY <1>1, <1>3, <2>2 DEF Room, HasRoom
  <2> QED
    BY <2>1, <2>2
<1>5. PICK mid \in lo + 2 .. hi - 2 : mid = Middle(r, ratio)
  BY <1>1, <1>3, <1>4, HalfWay DEF Middle
<1>6. Room(r, ratio)
  BY <1>1, <1>3, <1>4, <1>5 DEF Room, HasRoom
<1>7. \A i \in 1..n : r[i] \in Nat
  BY <1>3 DEF Spaced
<1> QED
  BY <1>2, <1>3, <1>5, <1>6, <1>7

-----------------------------------------------------------------------------
(* Ranks that are spread out *)

LEMMA OneMore ==
  ASSUME NEW a \in Nat, NEW x \in Nat, NEW y \in Nat, x < y
  PROVE  a * x + a <= a * y
<1>1. PICK d \in Nat : y = x + 1 + d
  <2>1. y - x - 1 \in Nat /\ y = x + 1 + (y - x - 1)
    OBVIOUS
  <2> QED
    BY <2>1
<1>2. a * y = a * x + a + a * d /\ a * d \in Nat /\ a * x \in Nat
  BY <1>1
<1> QED
  BY <1>2

LEMMA ShareIs ==
  ASSUME NEW m \in Nat, NEW k \in Nat, k > 0, m >= 4 * k
  PROVE  /\ m \div k \in Nat /\ m \div k >= 4
         /\ (m \div k) * k <= m
<1> DEFINE q == m \div k
           r == m % k
<1>1. q \in Nat /\ r \in 0..k - 1 /\ m = q * k + r
  OBVIOUS
<1> HIDE DEF q, r
<1>2. q * k <= m /\ m < q * k + k
  BY <1>1
<1>3. q >= 4
  <2> SUFFICES ASSUME q < 4 PROVE FALSE
    BY <1>1
  <2>1. k * q + k <= k * 4
    BY <1>1, OneMore
  <2> QED
    BY <1>1, <1>2, <2>1
<1> QED
  BY <1>1, <1>2, <1>3 DEF q

LEMMA SpreadIsSpaced ==
  ASSUME RanksSuffice, NEW n \in Nat, 0 < n, n < MaxSize,
         NEW r, Spaced(ratios, r, n, 2), Len(r) = n, ratios \in [1..n -> Ratios]
  PROVE  /\ Spaced(ratios, SpreadRanks(r), n, 4)
         /\ Len(SpreadRanks(r)) = n
<1> DEFINE S == RanksInOrder(r)
           Below(i) == {x \in S : x < r[i]}
           place(i) == Cardinality(Below(i))
           increment == MaxRank \div (n + 2)
<1>1. /\ MaxRank \in Nat /\ MaxSize \in Nat /\ DOMAIN r = 1..n
      /\ \A i \in 1..n : r[i] \in Nat
      /\ Ratios \subseteq Int
  BY DEF Spaced, RanksSuffice
<1>2. /\ increment \in Nat /\ increment >= 4
      /\ increment * (n + 2) <= MaxRank
  <2>1. n + 2 \in Nat /\ n + 2 > 0 /\ MaxRank >= 4 * (n + 2)
    BY <1>1 DEF RanksSuffice
  <2> QED
    BY <1>1, <2>1, ShareIs
<1>3. IsFiniteSet(S) /\ Cardinality(S) <= n
  <2>1. IsFiniteSet(1..n) /\ Cardinality(1..n) = n
    BY FS_Interval
  <2>2. S = {r[i] : i \in 1..n}
    BY <1>1 DEF RanksInOrder
  <2>3. r \in Surjection(1..n, S)
    BY <1>1, <2>2 DEF Surjection, Spaced
  <2> QED
    BY <2>1, <2>3, FS_Surjection
<1>4. \A i \in 1..n : r[i] \in S /\ r[i] \notin Below(i) /\ Below(i) \subseteq S
  BY <1>1 DEF RanksInOrder
<1> HIDE DEF S
<1>5. ASSUME NEW i \in 1..n
      PROVE  place(i) \in 0..n - 1
  <2>1. Below(i) \subseteq S /\ Below(i) # S
    BY <1>4
  <2>2. /\ IsFiniteSet(Below(i)) /\ Cardinality(Below(i)) \in Nat /\ Cardinality(S) \in Nat
        /\ Cardinality(Below(i)) < Cardinality(S)
    <3> HIDE DEF Below
    <3> QED
      BY <1>3, <2>1, FS_Subset, FS_CardinalityType
  <2> QED
    BY <1>3, <2>2
<1>6. ASSUME NEW i \in 1..n, NEW j \in 1..n, r[i] < r[j]
      PROVE  place(i) < place(j)
  <2>1. Below(i) \subseteq Below(j) /\ Below(i) # Below(j)
    <3>1. r[i] \in Nat /\ r[j] \in Nat /\ S \subseteq Nat
      BY <1>1 DEF S, RanksInOrder
    <3>2. r[i] \in Below(j) /\ r[i] \notin Below(i)
      BY <1>4, <1>6
    <3>3. \A x \in S : x < r[i] => x < r[j]
      BY <1>6, <3>1
    <3> QED
      BY <3>2, <3>3
  <2>2. IsFiniteSet(Below(j)) /\ IsFiniteSet(Below(i))
    <3>1. Below(j) \subseteq S /\ Below(i) \subseteq S
      BY <1>4
    <3> HIDE DEF Below
    <3> QED
      BY <1>3, <3>1, FS_Subset
  <2> HIDE DEF Below
  <2> QED
    BY <2>1, <2>2, FS_Subset, FS_CardinalityType
<1>7. PICK first \in {increment, 2 * increment} :
        \A i \in 1..n : SpreadRanks(r)[i] = first + increment * place(i)
  <2> DEFINE f == IF r[1] = Min(S) THEN increment ELSE 2 * increment
  <2>1. n + 1 + 1 = n + 2 /\ increment # 0
    BY <1>2
  <2>2. SpreadRanks(r) = [i \in 1..n |-> f + increment * place(i)]
    BY <1>1, <2>1 DEF SpreadRanks, S
  <2> HIDE DEF increment, place
  <2>3. \A i \in 1..n : SpreadRanks(r)[i] = f + increment * place(i)
    BY <2>2
  <2>4. f \in {increment, 2 * increment}
    OBVIOUS
  <2> QED
    BY <2>3, <2>4
<1>8. DOMAIN SpreadRanks(r) = 1..n /\ Len(SpreadRanks(r)) = n
      /\ SpreadRanks(r) = [i \in 1..n |-> SpreadRanks(r)[i]]
  BY <1>1 DEF SpreadRanks
<1> DEFINE spread == SpreadRanks(r)
<1> HIDE DEF spread, increment, place
<1>9. ASSUME NEW i \in 1..n
      PROVE  spread[i] \in 4 .. MaxRank - 4
  <2>1. PICK p \in Nat : p = place(i) /\ p < n
    BY <1>5
  <2>2. increment * p + increment <= increment * n /\ increment * p \in Nat
    BY <1>2, <2>1, OneMore
  <2>3. spread[i] = first + increment * p
    BY <1>7, <2>1 DEF spread
  <2>4. increment * (n + 2) = increment * n + 2 * increment /\ increment * n \in Nat
    BY <1>2
  <2> QED
    BY <1>1, <1>2, <2>2, <2>3, <2>4
<1>10. ASSUME NEW i \in 1..n, NEW j \in 1..n, r[i] < r[j]
       PROVE  spread[i] + 4 <= spread[j]
  <2>1. PICK p \in Nat, q \in Nat : p = place(i) /\ q = place(j) /\ p < q
    BY <1>5, <1>6, <1>10
  <2>2. increment * p + increment <= increment * q
    BY <1>2, <2>1, OneMore
  <2>3. spread[i] = first + increment * p /\ spread[j] = first + increment * q
    BY <1>7, <2>1 DEF spread
  <2>4. first \in Nat /\ increment * p \in Nat /\ increment * q \in Nat
    BY <1>2, <2>1
  <2> QED
    BY <1>2, <2>2, <2>3, <2>4
<1>11. ASSUME NEW i \in 1..n, NEW j \in 1..n
       PROVE  /\ ratios[i] = ratios[j] => spread[i] = spread[j]
              /\ ratios[i] < ratios[j] => spread[i] + 4 <= spread[j]
  <2>1. ratios[i] \in Int /\ ratios[j] \in Int /\ r[i] \in Nat /\ r[j] \in Nat
    BY <1>1
  <2>2. CASE ratios[i] = ratios[j]
    <3>1. r[i] = r[j]
      BY <2>2 DEF Spaced
    <3>2. place(i) = place(j)
      BY <3>1 DEF place
    <3>3. ~(ratios[i] < ratios[j])
      BY <2>1, <2>2
    <3> QED
      BY <1>7, <3>2, <3>3 DEF spread
  <2>3. CASE ratios[i] < ratios[j]
    <3>1. r[i] + 2 <= r[j]
      BY <2>3 DEF Spaced
    <3>2. ratios[i] # ratios[j] /\ r[i] < r[j]
      BY <2>1, <2>3, <3>1
    <3> QED
      BY <1>10, <3>2
  <2> QED
    BY <2>2, <2>3
<1>12. spread \in [1..n -> 4 .. MaxRank - 4]
  BY <1>8, <1>9 DEF spread
<1> QED
  BY <1>8, <1>11, <1>12 DEF Spaced, spread

-----------------------------------------------------------------------------
(* The invariant *)

(* A new element with a rank that fits *)
LEMMA OneMoreElement ==
  ASSUME RanksSuffice, NEW n \in Nat, n < MaxSize,
         ratios \in [1..n -> Ratios], Len(ratios) = n,
         NEW r, Spaced(ratios, r, n, 2), Len(r) = n,
         NEW ratio \in Ratios, ratios' = Append(ratios, ratio),
         NEW rank \in 2 .. MaxRank - 2, ranks' = Append(r, rank),
         \A i \in 1..n :
           /\ ratios[i] = ratio => r[i] = rank
           /\ ratios[i] < ratio => r[i] + 2 <= rank
           /\ ratios[i] > ratio => rank + 2 <= r[i]
  PROVE  RanksInv'
<1>1. n + 1 \in 0..MaxSize /\ MaxRank \in Nat /\ Ratios \subseteq Int
  BY DEF RanksSuffice
<1> DEFINE R == 2 .. MaxRank - 2
<1>2. r \in Seq(R) /\ ratios \in Seq(Ratios)
  <2>1. r \in [1..n -> R]
    BY DEF Spaced
  <2> HIDE DEF R
  <2> QED
    BY <2>1
<1> HIDE DEF R
<1>3. ratios' \in [1..n + 1 -> Ratios] /\ Len(ratios') = n + 1
  <2>1. Append(ratios, ratio) \in Seq(Ratios) /\ Len(Append(ratios, ratio)) = n + 1
    BY <1>2
  <2>2. \A q \in Seq(Ratios) : q \in [1..Len(q) -> Ratios]
    OBVIOUS
  <2>3. Append(ratios, ratio) \in [1..n + 1 -> Ratios]
    BY <2>1, <2>2
  <2> QED
    BY <2>1, <2>3
<1>4. ranks' \in [1..n + 1 -> R] /\ Len(ranks') = n + 1
  <2>1. rank \in R
    BY DEF R
  <2>2. Append(r, rank) \in Seq(R) /\ Len(Append(r, rank)) = n + 1
    BY <1>2, <2>1
  <2>3. \A q \in Seq(R) : q \in [1..Len(q) -> R]
    OBVIOUS
  <2>4. Append(r, rank) \in [1..n + 1 -> R]
    BY <2>2, <2>3
  <2> QED
    BY <2>2, <2>4
<1>5. \A i \in 1..n : ratios'[i] = ratios[i] /\ ranks'[i] = r[i]
  BY <1>2
<1>6. ratios'[n + 1] = ratio /\ ranks'[n + 1] = rank
  BY <1>2
<1>7. ASSUME NEW i \in 1..n + 1, NEW j \in 1..n + 1
      PROVE  /\ ratios'[i] = ratios'[j] => ranks'[i] = ranks'[j]
             /\ ratios'[i] < ratios'[j] => ranks'[i] + 2 <= ranks'[j]
  <2>1. (i \in 1..n \/ i = n + 1) /\ (j \in 1..n \/ j = n + 1)
    OBVIOUS
  <2>2. CASE i \in 1..n /\ j \in 1..n
    BY <1>5, <2>2 DEF Spaced
  <2>3. CASE i \in 1..n /\ j = n + 1
    BY <1>5, <1>6, <2>3
  <2>4. CASE i = n + 1 /\ j \in 1..n
    <3>1. ratios[j] \in Int /\ ratio \in Int
      BY <1>1, <2>4
    <3> QED
      BY <1>5, <1>6, <2>4, <3>1
  <2>5. CASE i = n + 1 /\ j = n + 1
    <3>1. ratio \in Int
      BY <1>1
    <3> QED
      BY <1>6, <2>5, <3>1
  <2> QED
    BY <2>1, <2>2, <2>3, <2>4, <2>5
<1>8. \E m \in 0..MaxSize :
        /\ ratios' \in [1..m -> Ratios] /\ Len(ratios') = m /\ Len(ranks') = m
        /\ ranks' \in [1..m -> 2 .. MaxRank - 2]
        /\ \A i, j \in 1..m :
             /\ ratios'[i] = ratios'[j] => ranks'[i] = ranks'[j]
             /\ ratios'[i] < ratios'[j] => ranks'[i] + 2 <= ranks'[j]
  BY <1>1, <1>3, <1>4, <1>7 DEF R
<1> QED
  BY <1>8 DEF RanksInv, Spaced

LEMMA NextRanksInv == RanksSuffice /\ RanksInv /\ [Next]_vars => RanksInv'
<1> SUFFICES ASSUME RanksSuffice, RanksInv, [Next]_vars
             PROVE  RanksInv'
  OBVIOUS
<1>1. CASE UNCHANGED vars
  BY <1>1 DEF RanksInv, Spaced, vars
<1>2. ASSUME NEW ratio \in Ratios, Insert(ratio)
      PROVE  RanksInv'
  <2>1. PICK n \in 0..MaxSize : /\ ratios \in [1..n -> Ratios] /\ Len(ratios) = n
                                /\ Len(ranks) = n /\ Spaced(ratios, ranks, n, 2)
    BY DEF RanksInv
  <2>2. n \in Nat /\ n < MaxSize /\ ratios' = Append(ratios, ratio)
    BY <1>2, <2>1 DEF Insert, RanksSuffice
  <2>3. Index = 1..n
    BY <2>1 DEF Index, Spaced
  <2>4. MaxRank \in Nat /\ Ratios \subseteq Int /\ MaxSize \in Nat
    BY DEF RanksSuffice
  <2>5. CASE \E i \in Index : ratios[i] = ratio
    <3>1. PICK k \in 1..n : ratios[k] = ratio
      BY <2>3, <2>5
    <3>2. PICK rank \in 2 .. MaxRank - 2 : rank = ranks[k]
      BY <2>1 DEF Spaced
    <3>3. \A i \in 1..n : /\ ratios[i] = ratio => ranks[i] = rank
                          /\ ratios[i] < ratio => ranks[i] + 2 <= rank
                          /\ ratios[i] > ratio => rank + 2 <= ranks[i]
      BY <2>1, <3>1, <3>2 DEF Spaced
    <3>4. RankBelow(ranks, ratio) = rank
      <4> DEFINE below == {i \in 1..n : ratios[i] <= ratio}
                 lows == {ranks[i] : i \in below}
      <4>1. k \in below
        BY <2>4, <3>1
      <4>2. RankBelow(ranks, ratio) = Max(lows)
        BY <2>3, <4>1 DEF RankBelow, Index
      <4>3. \A i \in below : ranks[i] \in 0..MaxRank /\ ranks[i] <= rank
        <5> SUFFICES ASSUME NEW i \in below
                     PROVE  ranks[i] \in 0..MaxRank /\ ranks[i] <= rank
          OBVIOUS
        <5>1. ranks[i] \in 2 .. MaxRank - 2
          BY <2>1 DEF Spaced
        <5>2. ratios[i] = ratio \/ ratios[i] < ratio
          <6>1. ratios[i] \in Int /\ ratio \in Int /\ ratios[i] <= ratio
            BY <2>1, <2>4
          <6> QED
            BY <6>1
        <5> QED
          BY <2>4, <3>3, <5>1, <5>2
      <4>4. lows \in SUBSET (0..MaxRank) /\ lows # {} /\ rank \in lows /\ \A x \in lows : x <= rank
        BY <3>2, <4>1, <4>3
      <4> HIDE DEF lows
      <4>5. Max(lows) \in lows /\ \A x \in lows : x <= Max(lows)
        BY <2>4, <4>4, MaxIs
      <4>6. Max(lows) <= rank /\ rank <= Max(lows) /\ Max(lows) \in Nat
        <5>1. \A x \in lows : x \in Nat
          BY <4>4
        <5> QED
          BY <4>4, <4>5, <5>1
      <4> QED
        BY <2>4, <4>2, <4>6
    <3>5. ranks' = Append(ranks, rank)
      BY <1>2, <2>5, <3>4 DEF Insert
    <3> QED
      BY <2>1, <2>2, <3>3, <3>5, OneMoreElement
  <2>6. CASE ~\E i \in Index : ratios[i] = ratio
    <3>1. \A i \in 1..n : ratios[i] # ratio
      BY <2>3, <2>6
    <3>2. \A i \in 1..n : ratios[i] \in Int /\ ratio \in Int
      BY <2>1, <2>4
    <3>3. ASSUME NEW r, NEW gap \in {2, 4}, Spaced(ratios, r, n, gap), Len(r) = n,
                 gap = 4 \/ Room(r, ratio), ranks' = Append(r, Middle(r, ratio))
          PROVE  RanksInv'
      <4>1. PICK rank \in 2 .. MaxRank - 2 :
              /\ rank = Middle(r, ratio)
              /\ \A i \in 1..n : /\ ratios[i] < ratio => r[i] + 2 <= rank
                                 /\ ratios[i] > ratio => rank + 2 <= r[i]
        BY <2>1, <2>2, <3>1, <3>3, MiddleIs
      <4>2. Spaced(ratios, r, n, 2)
        BY <2>4, <3>3, Wider
      <4> QED
        BY <2>1, <2>2, <3>1, <3>3, <4>1, <4>2, OneMoreElement
    <3>4. CASE Room(ranks, ratio)
      <4>1. ranks' = Append(ranks, Middle(ranks, ratio))
        BY <1>2, <2>6, <3>4 DEF Insert
      <4> QED
        BY <2>1, <3>3, <3>4, <4>1
    <3>5. CASE ~Room(ranks, ratio)
      <4>1. ranks' = Append(SpreadRanks(ranks), Middle(SpreadRanks(ranks), ratio))
        BY <1>2, <2>6, <3>5 DEF Insert
      <4>2. 0 < n
        BY <2>2, <2>3, <2>4, <3>5, RoomAtFirst DEF Index
      <4>3. Spaced(ratios, SpreadRanks(ranks), n, 4) /\ Len(SpreadRanks(ranks)) = n
        BY <2>1, <2>2, <4>2, SpreadIsSpaced
      <4> QED
        BY <3>3, <4>1, <4>3
    <3> QED
      BY <3>4, <3>5
  <2> QED
    BY <2>5, <2>6
<1> QED
  BY <1>1, <1>2 DEF Next

LEMMA InitRanksInv == RanksSuffice /\ Init => RanksInv
<1> SUFFICES ASSUME RanksSuffice, Init PROVE RanksInv
  OBVIOUS
<1>1. 0 \in 0..MaxSize /\ 1..0 = {} /\ Len(ratios) = 0 /\ Len(ranks) = 0
  BY DEF Init, RanksSuffice
<1>2. ratios \in [1..0 -> Ratios] /\ ranks \in [1..0 -> 2 .. MaxRank - 2]
  BY DEF Init
<1> QED
  BY <1>1, <1>2 DEF RanksInv, Spaced

LEMMA RanksAlways ==
  ASSUME RanksSuffice
  PROVE  Spec => []RanksInv
<1>1. Init => RanksInv
  BY InitRanksInv
<1>2. RanksInv /\ [Next]_vars => RanksInv'
  BY NextRanksInv
<1> QED
  BY <1>1, <1>2, PTL DEF Spec

-----------------------------------------------------------------------------
(* What the ranks are for *)

LEMMA RanksCompare ==
  ASSUME RanksSuffice, RanksInv
  PROVE  RanksCompareRatios
<1>1. PICK n \in 0..MaxSize : /\ ratios \in [1..n -> Ratios] /\ Len(ratios) = n
                              /\ Len(ranks) = n /\ Spaced(ratios, ranks, n, 2)
  BY DEF RanksInv
<1>2. /\ Index = 1..n /\ Ratios \subseteq Int /\ MaxRank \in Nat /\ MaxRank >= 4
      /\ MaxSize \in Nat /\ n \in Nat
  BY <1>1 DEF Index, Spaced, RanksSuffice
<1>3. \A i \in 1..n : /\ ratios[i] \in Int /\ ranks[i] \in Nat
                      /\ ranks[i] >= 2 /\ ranks[i] + 2 <= MaxRank
  <2> SUFFICES ASSUME NEW i \in 1..n
               PROVE  /\ ratios[i] \in Int /\ ranks[i] \in Nat
                      /\ ranks[i] >= 2 /\ ranks[i] + 2 <= MaxRank
    OBVIOUS
  <2>1. ratios[i] \in Ratios /\ ranks[i] \in 2 .. MaxRank - 2
    BY <1>1 DEF Spaced
  <2>2. ratios[i] \in Int
    BY <1>2, <2>1
  <2>3. ranks[i] \in Nat /\ ranks[i] >= 2 /\ ranks[i] + 2 <= MaxRank
    BY <1>2, <2>1
  <2> QED
    BY <2>2, <2>3
<1>4. \A i, j \in 1..n :
        /\ ratios[i] = ratios[j] => ranks[i] = ranks[j]
        /\ ratios[i] < ratios[j] => ranks[i] + 2 <= ranks[j]
  BY <1>1 DEF Spaced
<1>5. ASSUME NEW i \in Index, NEW j \in Index
      PROVE  RatioCompare(i, j) = Comparison(ratios[i], ratios[j])
  <2>1. /\ ratios[i] \in Int /\ ratios[j] \in Int /\ ranks[i] \in Nat /\ ranks[j] \in Nat
        /\ ratios[i] = ratios[j] => ranks[i] = ranks[j]
        /\ ratios[i] < ratios[j] => ranks[i] + 2 <= ranks[j]
        /\ ratios[j] < ratios[i] => ranks[j] + 2 <= ranks[i]
    BY <1>2, <1>3, <1>4
  <2> QED
    BY <2>1 DEF RatioCompare, Comparison
<1>6. ASSUME NEW ratio \in Ratios, NEW i \in Index
      PROVE  StoredRatioCompare(ratio, i) = Comparison(ratio, ratios[i])
  <2> DEFINE from == {k \in Index : ratios[k] >= ratio}
             next == CHOOSE k \in from : \A j \in from : ratios[k] <= ratios[j]
  <2>1. /\ ratio \in Int /\ ratios[i] \in Int /\ ranks[i] \in Nat
        /\ ranks[i] >= 2 /\ ranks[i] + 2 <= MaxRank
    BY <1>2, <1>3
  <2>2. RatioRank(ratio) = IF from = {} THEN MaxRank
                           ELSE IF ratios[next] = ratio THEN ranks[next] ELSE ranks[next] - 1
    BY DEF RatioRank
  <2>3. CASE from = {}
    <3>1. ratio > ratios[i]
      <4>1. ~(ratios[i] >= ratio)
        BY <2>3
      <4> QED
        BY <2>1, <4>1
    <3> QED
      BY <1>2, <2>1, <2>2, <2>3, <3>1 DEF StoredRatioCompare, Comparison
  <2>4. CASE from # {}
    <3>1. \E k \in from : \A j \in from : ratios[k] <= ratios[j]
      <4> DEFINE highs == {ranks[k] : k \in from}
      <4>1. highs \subseteq Nat /\ highs # {}
        BY <1>2, <1>3, <2>4
      <4>2. Min(highs) \in highs /\ \A x \in highs : Min(highs) <= x
        <5> HIDE DEF highs
        <5> QED
          BY <4>1, MinIs
      <4>3. PICK k \in from : ranks[k] = Min(highs)
        BY <4>2
      <4>4. ASSUME NEW j \in from
            PROVE  ratios[k] <= ratios[j]
        <5>1. ranks[k] <= ranks[j]
          BY <4>2, <4>3
        <5>2. /\ ratios[k] \in Int /\ ratios[j] \in Int /\ ranks[k] \in Nat /\ ranks[j] \in Nat
              /\ ratios[j] < ratios[k] => ranks[j] + 2 <= ranks[k]
          BY <1>2, <1>3, <1>4
        <5> QED
          BY <5>1, <5>2
      <4> QED
        BY <4>4
    <3>2. next \in from /\ \A j \in from : ratios[next] <= ratios[j]
      <4> HIDE DEF from
      <4> QED
        BY <3>1
    <3>3. PICK k \in 1..n : /\ k = next /\ ratios[k] >= ratio
                            /\ \A j \in from : ratios[k] <= ratios[j]
      BY <1>2, <3>2
    <3>4. RatioRank(ratio) = IF ratios[k] = ratio THEN ranks[k] ELSE ranks[k] - 1
      BY <2>2, <2>4, <3>3
    <3>5. /\ ratios[k] \in Int /\ ranks[k] \in Nat /\ ranks[k] >= 2
          /\ ratios[k] = ratios[i] => ranks[k] = ranks[i]
          /\ ratios[k] < ratios[i] => ranks[k] + 2 <= ranks[i]
          /\ ratios[i] < ratios[k] => ranks[i] + 2 <= ranks[k]
      BY <1>2, <1>3, <1>4
    <3>6. ratios[i] >= ratio => ratios[k] <= ratios[i]
      BY <3>3
    <3> QED
      BY <2>1, <3>3, <3>4, <3>5, <3>6 DEF StoredRatioCompare, Comparison
  <2> QED
    BY <2>3, <2>4
<1> QED
  BY <1>5, <1>6 DEF RanksCompareRatios

(* However many elements are squeezed in, comparing the ranks of two of
   them, or what is asked of a ratio that none of them has, is comparing the
   ratios, which is all that SigPolyBasis uses ranks for. *)
THEOREM RanksStayInOrder == ASSUME RanksSuffice PROVE Spec => []RanksCompareRatios
<1>1. RanksInv => RanksCompareRatios
  BY RanksCompare
<1> QED
  BY <1>1, RanksAlways, PTL

(* Once the ranks are spread out there is room for every ratio, so that
   insert goes back to its label again at most once. *)
THEOREM RoomIsMade == ASSUME RanksSuffice PROVE Spec => []SpreadingMakesRoom
<1>1. ASSUME RanksInv
      PROVE  SpreadingMakesRoom
  <2>1. PICK n \in 0..MaxSize : /\ ratios \in [1..n -> Ratios] /\ Len(ratios) = n
                                /\ Len(ranks) = n /\ Spaced(ratios, ranks, n, 2)
    BY <1>1 DEF RanksInv
  <2> SUFFICES ASSUME NEW ratio \in Ratios \ Range(ratios),
                      Len(ratios) < MaxSize, ~Room(ranks, ratio)
               PROVE  Room(SpreadRanks(ranks), ratio)
    BY DEF SpreadingMakesRoom
  <2>2. n \in Nat /\ n < MaxSize /\ MaxSize \in Nat
    BY <2>1 DEF RanksSuffice
  <2>3. \A i \in 1..n : ratios[i] # ratio
    BY <2>1 DEF Range
  <2>4. 0 < n
    <3>1. DOMAIN ranks = 1..n
      BY <2>1 DEF Spaced
    <3> QED
      BY <2>2, <3>1, RoomAtFirst
  <2>5. Spaced(ratios, SpreadRanks(ranks), n, 4)
    BY <2>1, <2>2, <2>4, SpreadIsSpaced
  <2> QED
    BY <2>1, <2>2, <2>3, <2>5, MiddleIs
<1> QED
  BY <1>1, RanksAlways, PTL
=============================================================================
