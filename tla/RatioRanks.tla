----------------------------- MODULE RatioRanks -----------------------------
(***************************************************************************)
(* The ranks SigPolyBasis gives to the ratios of signature and lead        *)
(* monomial, so that comparing two ratios is comparing two numbers.  Ranks *)
(* are spread out, with a gap between any two, in which the rank of a      *)
(* ratio that is only asked about lies; when there is no room left, all    *)
(* are given anew.                                                         *)
(*                                                                         *)
(* Only the order of ratios matters: they are numbers here.                *)
(***************************************************************************)
EXTENDS Integers, Sequences, FiniteSetsExt, Functions

CONSTANTS
  Ratios,   \* the ratios
  MaxRank,  \* numeric_limits<Rank>::max()
  MaxSize   \* bound on the elements of the basis

(* What is said of ranks holds if there are enough of them.  Rank is       *)
(* size_t, and an element takes more than four bytes of memory.            *)
RanksSuffice ==
  /\ Ratios \subseteq Int /\ MaxSize \in Nat /\ MaxRank \in Nat
  /\ MaxRank >= 4 * (MaxSize + 1)

VARIABLES
  ratios,   \* mSigLeadRatio
  ranks     \* mRatioRanks

vars == <<ratios, ranks>>

Index == DOMAIN ranks

----------------------------------------------------------------------------
HasRoom(prevRank, rank, nextRank) ==
  rank # 0 /\ rank # MaxRank /\ nextRank - prevRank >= 4

(* Old ranks in the order of ratios, next to each other if equal *)
RanksInOrder(old) == {old[i] : i \in DOMAIN old}

(* Evenly spread: one increment before the first.  The walk compares each  *)
(* rank to the one before it, and the first to that of the oldest element, *)
(* so there is one increment more unless that element is the first.        *)
SpreadRanks(old) ==
  LET size == Len(old) + 1
      share == MaxRank \div (size + 1)
      increment == IF share = 0 THEN 2 ELSE share
      first == IF old[1] = Min(RanksInOrder(old)) THEN increment ELSE 2 * increment
      before(i) == Cardinality({r \in RanksInOrder(old) : r < old[i]})
  IN  [i \in DOMAIN old |-> first + increment * before(i)]

RankBelow(old, ratio) ==
  LET below == {i \in DOMAIN old : ratios[i] <= ratio}
  IN  IF below = {} THEN 0 ELSE Max({old[i] : i \in below})

RankAbove(old, ratio) ==
  LET above == {i \in DOMAIN old : ratios[i] > ratio}
  IN  IF above = {} THEN MaxRank ELSE Min({old[i] : i \in above})

Middle(old, ratio) ==
  RankBelow(old, ratio) + ((RankAbove(old, ratio) - RankBelow(old, ratio)) \div 2)

Room(old, ratio) == HasRoom(RankBelow(old, ratio), Middle(old, ratio), RankAbove(old, ratio))

Init == ratios = <<>> /\ ranks = <<>>

(* insert: like its equals, or in the middle, or in the middle after all   *)
(* are spread out                                                          *)
Insert(ratio) ==
  /\ Len(ratios) < MaxSize
  /\ ratios' = Append(ratios, ratio)
  /\ \/ /\ \E i \in Index : ratios[i] = ratio
        /\ ranks' = Append(ranks, RankBelow(ranks, ratio))
     \/ /\ ~\E i \in Index : ratios[i] = ratio
        /\ Room(ranks, ratio)
        /\ ranks' = Append(ranks, Middle(ranks, ratio))
     \/ /\ ~\E i \in Index : ratios[i] = ratio
        /\ ~Room(ranks, ratio)
        /\ LET spread == SpreadRanks(ranks)
           IN  Room(spread, ratio) /\ ranks' = Append(spread, Middle(spread, ratio))

Next == \E ratio \in Ratios : Insert(ratio)

Spec == Init /\ [][Next]_vars

----------------------------------------------------------------------------
(* The rank of a ratio that may be of no element *)
RatioRank(ratio) ==
  LET from == {i \in Index : ratios[i] >= ratio}
      next == CHOOSE i \in from : \A j \in from : ratios[i] <= ratios[j]
  IN  IF Index = {} THEN 0
      ELSE IF from = {} THEN MaxRank
      ELSE IF ratios[next] = ratio THEN ranks[next]
      ELSE ranks[next] - 1

Comparison(x, y) == IF x < y THEN "LT" ELSE IF x > y THEN "GT" ELSE "EQ"

(* ratioCompare of two elements *)
RatioCompare(i, j) == Comparison(ranks[i], ranks[j])

(* StoredRatioCmp: of a ratio to an element *)
StoredRatioCompare(ratio, i) == Comparison(RatioRank(ratio), ranks[i])

(* Comparing ranks is comparing ratios, of two elements and of a ratio     *)
(* that is of none of them, however many elements were squeezed in.        *)
RanksCompareRatios ==
  /\ \A i, j \in Index : RatioCompare(i, j) = Comparison(ratios[i], ratios[j])
  /\ \A ratio \in Ratios, i \in Index :
       StoredRatioCompare(ratio, i) = Comparison(ratio, ratios[i])

(* An element always finds room: spreading leaves enough, so that insert   *)
(* does not go around for ever.                                            *)
SpreadingMakesRoom ==
  \A ratio \in Ratios \ Range(ratios) :
    Len(ratios) < MaxSize /\ ~Room(ranks, ratio) => Room(SpreadRanks(ranks), ratio)
=============================================================================
