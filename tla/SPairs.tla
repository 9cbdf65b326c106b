------------------------------- MODULE SPairs -------------------------------
(***************************************************************************)
(* The state of PolyBasis (the basis elements found so far) and of SPairs  *)
(* (the pending S-pairs, and the S-pairs known to be useless), and the     *)
(* criteria by which SPairs eliminates an S-pair.  Basis elements are      *)
(* numbered from 0 in order of insertion; a polynomial is represented by   *)
(* its lead monomial, all that this code looks at.                         *)
(***************************************************************************)
EXTENDS Monomials, FiniteSets

CONSTANTS
  MaxIndex,  \* the largest value of SPairs::Queue::Index
  TermCount, \* of each element to be; 0 unless sparse S-pairs are preferred
  NoMono     \* the lead of an element that is not there yet

Gens == 0..MaxIndex

ASSUME MaxIndexAssumption == MaxIndex \in Nat
ASSUME TermCountAssumption == TermCount \in [Gens -> Nat]
ASSUME NoMonoAssumption == NoMono \notin Mono

VARIABLES
  size,         \* PolyBasis::size()
  lead,         \* lead monomials; those of retired elements are remembered
  retired,      \* the retired elements
  notMinimal,   \* elements whose leadMinimal flag is false
  mEliminated,  \* the set bits of the BitTriangle, as pairs <<col, row>>
  mQueue,       \* the pairs of the PairQueue, <<col, row>> with col > row
  hitCache      \* mBuchbergerLcmHitCache

basisVars == <<size, lead, retired, notMinimal>>
sPairVars == <<mEliminated, mQueue, hitCache>>

-----------------------------------------------------------------------------
(* PolyBasis *)

Existing == {i \in Gens : i < size}
Live == Existing \ retired

(* MonoLookup's divisors and multiples, of the elements that are not retired.
   Mutated forms: retire leaves the element in the lookup; the test is the
   wrong way round. *)
Divisors(m) == {i \in Live : Divides(lead[i], m)}

MultiplesUnremoved(m) == {i \in Existing : Divides(m, lead[i])}
MultiplesSwapped(m) == {i \in Live : Divides(lead[i], m)}

Multiples(m) == {i \in Live : Divides(m, lead[i])}

Reducible(m) == Divisors(m) # {}

-----------------------------------------------------------------------------
(* The criteria *)

Unordered(a, b) == IF a > b THEN <<a, b>> ELSE <<b, a>>
Eliminated(a, b) == Unordered(a, b) \in mEliminated

LcmOf(p) == Lcm(lead[p[1]], lead[p[2]])

(* Mutated form: the second lcm is not looked at. *)
WitnessOfOneLcm(c, a, b) ==
  /\ c # a /\ c # b
  /\ Eliminated(c, a) \/ ~Divides(lead[b], Lcm(lead[c], lead[a]))

(* Criterion::proceed returns false: c shows that (a, b) is useless. *)
Witness(c, a, b) ==
  /\ c # a /\ c # b
  /\ Eliminated(c, a) \/ ~Divides(lead[b], Lcm(lead[c], lead[a]))
  /\ Eliminated(c, b) \/ ~Divides(lead[a], Lcm(lead[c], lead[b]))

(* A cached hit is tried again as long as it is alive. *)
CacheWitness(c, a, b) ==
  /\ c \notin retired
  /\ Divides(lead[c], Lcm(lead[a], lead[b]))
  /\ Witness(c, a, b)

(* simpleBuchbergerLcmCriterion(a, b, lcm): its value, and the cache after
   it.  Which divisor the lookup finds first is up to the lookup. *)
SimpleCriterion(a, b) ==
  \/ CacheWitness(hitCache[b], a, b)
  \/ CacheWitness(hitCache[a], a, b)
  \/ \E c \in Divisors(Lcm(lead[a], lead[b])) : Witness(c, a, b)

UpdateHitCache(a, b) ==
  IF CacheWitness(hitCache[b], a, b)
  THEN UNCHANGED hitCache
  ELSE IF CacheWitness(hitCache[a], a, b)
  THEN hitCache' = [hitCache EXCEPT ![b] = hitCache[a]]
  ELSE \E c \in Divisors(Lcm(lead[a], lead[b])) :
         /\ Witness(c, a, b)
         /\ hitCache' = [hitCache EXCEPT ![a] = c, ![b] = c]

(* simpleBuchbergerLcmCriterionSlow *)
SimpleCriterionSlow(a, b) ==
  LET lcmAB == Lcm(lead[a], lead[b])
  IN  \E i \in Live \ {a, b} :
        /\ Divides(lead[i], lcmAB)
        /\ Eliminated(i, a) \/ Lcm(lead[a], lead[i]) # lcmAB
        /\ Eliminated(i, b) \/ Lcm(lead[b], lead[i]) # lcmAB

(* a and b lie in one connected component of the undirected graph with the
   nodes V and the edges E, pairs <<col, row>>. *)
Connected(a, b, V, E) ==
  \A S \in SUBSET V :
    (a \in S /\ \A c \in S, d \in V : Unordered(c, d) \in E => d \in S)
    => b \in S

(* The edges of the graph of the advanced criterion *)
CriterionEdges(V, lcmAB) ==
  {e \in V \X V : /\ e[1] > e[2]
                  /\ e \in mEliminated \/ ~Divides(lcmAB, LcmOf(e))}

AdvancedCriterionSlow(a, b) ==
  LET lcmAB == Lcm(lead[a], lead[b])
      V == Divisors(lcmAB)
  IN  Connected(a, b, V, CriterionEdges(V, lcmAB))

(* Mutated form: graphs of four nodes are left to the simple criterion too. *)
AdvancedCriterionOfFive(a, b) ==
  \/ SimpleCriterion(a, b)
  \/ /\ Cardinality(Divisors(Lcm(lead[a], lead[b]))) > 4
     /\ AdvancedCriterionSlow(a, b)

(* advancedBuchbergerLcmCriterion: graphs of up to three nodes are left to
   the simple criterion *)
AdvancedCriterion(a, b) ==
  \/ SimpleCriterion(a, b)
  \/ /\ Cardinality(Divisors(Lcm(lead[a], lead[b]))) > 3
     /\ AdvancedCriterionSlow(a, b)

UpdateHitCacheLate(a, b) ==
  IF SimpleCriterion(a, b) THEN UpdateHitCache(a, b) ELSE UNCHANGED hitCache

-----------------------------------------------------------------------------
(* The queue *)

RankOf(p) == OrderRank(LcmOf(p))
IsRetired(p) == p[1] \in retired \/ p[2] \in retired

(* Mutated form: pairs of one lcm come in any order. *)
BeforeOrTied(p, q) == RankOf(p) <= RankOf(q)

(* QueueConfiguration::compare: p need not wait for q. *)
Before(p, q) ==
  \/ RankOf(p) < RankOf(q)
  \/ /\ RankOf(p) = RankOf(q)
     /\ LET terms(r) == TermCount[r[1]] + TermCount[r[2]]
        IN  \/ terms(p) < terms(q)
            \/ terms(p) = terms(q) /\ p[1] + p[2] <= q[1] + q[2]

(* A column was sorted when it was added, and its head is the candidate it
   offers. *)
Heads(col) ==
  {p \in mQueue :
     p[1] = col /\ \A q \in mQueue : q[1] = col => Before(p, q)}

(* topPair: the least head.  A head that is retired can have a key that was
   never computed, so it may come out at any time and hide its column. *)
TopPairs ==
  {p \in mQueue :
     /\ p \in Heads(p[1])
     /\ \/ IsRetired(p)
        \/ \A col \in {q[1] : q \in mQueue} \ {p[1]} :
             \E h \in Heads(col) : IsRetired(h) \/ Before(p, h)}
=============================================================================
