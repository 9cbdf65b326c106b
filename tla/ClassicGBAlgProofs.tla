-------------------------- MODULE ClassicGBAlgProofs --------------------------
(***************************************************************************)
(* Lemmas about divisibility and lcm of monomials, and the type            *)
(* correctness of ClassicGBAlg.  Then the S-pair criteria are sound: for   *)
(* an ideal, SyzygiesGenerated holds whatever the ring, the order, the     *)
(* input and the options.                                                  *)
(*                                                                         *)
(* SyzygiesGenerated is not inductive.  That an eliminated pair (a, b) is  *)
(* joined by the settled and the pending pairs is not enough when another  *)
(* pair with the lcm of (a, b) is dropped because (a, b) was eliminated:   *)
(* the two could be dropped because of each other.  The invariant below    *)
(* says that an eliminated pair is joined without any pending pair of its  *)
(* own lcm.                                                                *)
(*                                                                         *)
(* In the last part, what the algorithm knows about its basis and its      *)
(* queue is accurate.                                                      *)
(***************************************************************************)
EXTENDS ClassicGBAlg, FiniteSetTheorems, WellFoundedInduction, TLAPS

(* Two exponents of one monomial can be compared. *)
LEMMA ExponentInt == \A m \in Mono, v \in Vars : m.exp[v] \in 0..MaxExp
BY MaxExpAssumption DEF Mono

(* An lcm is a monomial of the component of its arguments. *)
LEMMA LcmMono ==
  ASSUME NEW m \in Mono, NEW n \in Mono
  PROVE  Lcm(m, n) \in Mono
BY MaxExpAssumption DEF Mono, Lcm

(* Divisibility is a partial order. *)
LEMMA DividesReflexive == \A m \in Mono : Divides(m, m)
BY MaxExpAssumption DEF Mono, Divides

LEMMA DividesTransitive ==
  ASSUME NEW k \in Mono, NEW m \in Mono, NEW n \in Mono,
         Divides(k, m), Divides(m, n)
  PROVE  Divides(k, n)
BY ExponentInt, MaxExpAssumption DEF Divides

LEMMA DividesAntisymmetric ==
  ASSUME NEW m \in Mono, NEW n \in Mono, Divides(m, n), Divides(n, m)
  PROVE  m = n
<1>1. ASSUME NEW v \in Vars
      PROVE  m.exp[v] = n.exp[v]
  <2>1. m.exp[v] \in Int /\ n.exp[v] \in Int
    BY ExponentInt, MaxExpAssumption
  <2>2. m.exp[v] <= n.exp[v] /\ n.exp[v] <= m.exp[v]
    BY DEF Divides
  <2> QED
    BY <2>1, <2>2
<1>2. m.exp = n.exp
  BY <1>1 DEF Mono
<1> QED
  BY <1>2 DEF Mono, Divides

(* An lcm of two monomials of one component is their least common multiple. *)
LEMMA LcmMultiple ==
  ASSUME NEW m \in Mono, NEW n \in Mono, m.comp = n.comp
  PROVE  Divides(m, Lcm(m, n)) /\ Divides(n, Lcm(m, n))
BY ExponentInt, MaxExpAssumption DEF Divides, Lcm

LEMMA LcmLeast ==
  ASSUME NEW k \in Mono, NEW m \in Mono, NEW n \in Mono,
         Divides(m, k), Divides(n, k)
  PROVE  Divides(Lcm(m, n), k)
BY ExponentInt, MaxExpAssumption DEF Divides, Lcm

LEMMA LcmCommutes ==
  ASSUME NEW m \in Mono, NEW n \in Mono, m.comp = n.comp
  PROVE  Lcm(m, n) = Lcm(n, m)
BY LcmMono, LcmMultiple, LcmLeast, DividesAntisymmetric

(* A proper divisor comes earlier in the order. *)
LEMMA ProperDivisorSmaller ==
  ASSUME NEW m \in Mono, NEW n \in Mono, Divides(m, n), m # n
  PROVE  OrderRank(m) < OrderRank(n)
BY OrderAssumption DEF Divides

-----------------------------------------------------------------------------

(* The monomials of the pairs of existing elements *)
LEMMA PairLcm ==
  ASSUME TypeOK, NEW p \in ExistingPairs
  PROVE  /\ p[1] \in Existing /\ p[2] \in Existing
         /\ p = <<p[1], p[2]>>
         /\ p[1] > p[2]
         /\ lead[p[1]] \in Mono /\ lead[p[2]] \in Mono
         /\ LcmOf(p) \in Mono
BY LcmMono DEF TypeOK, ExistingPairs, Existing, LcmOf

(* A polynomial moves between the multisets that insertPolys works on. *)
LEMMA PutType ==
  ASSUME NEW polys \in [Mono -> Nat], NEW m \in Mono
  PROVE  Put(polys, m) \in [Mono -> Nat]
BY DEF Put

LEMMA TakeType ==
  ASSUME NEW polys \in [Mono -> Nat], NEW m \in Mono, polys[m] > 0
  PROVE  Take(polys, m) \in [Mono -> Nat]
BY DEF Take

LEMMA InitType == Init => TypeOK
<1> SUFFICES ASSUME Init PROVE TypeOK
  OBVIOUS
<1> USE MaxIndexAssumption, NoMonoAssumption DEF Init
<1>1. Existing = {}
  BY DEF Existing, Gens
<1>2. size \in 0..(MaxIndex + 1) /\ w \in Int /\ oldGen \in Nat
  OBVIOUS
<1>3. /\ lead \in [Gens -> Mono \cup {NoMono}]
      /\ \A i \in Gens : lead[i] \in Mono <=> i < size
  BY DEF Gens
<1>4. /\ hitCache \in [Gens -> Gens]
      /\ \A i \in Gens : hitCache[i] = 0 \/ hitCache[i] < size
  BY DEF Gens
<1>5. toInsert \in [Mono -> Nat] /\ toReduce \in [Mono -> Nat]
  BY OptionsAssumption DEF NoPolys
<1>6. pc \in PCs /\ (pc \in {"addPairs", "retire"} => size > 0 /\ oldGen <= newGen)
  BY DEF PCs
<1> QED
  BY <1>1, <1>2, <1>3, <1>4, <1>5, <1>6 DEF TypeOK

(* Inserting an element keeps the state of PolyBasis and SPairs well formed. *)
LEMMA InsertElementType ==
  ASSUME TypeOK, pc = "insert", NEW m \in Mono, InsertElement(m)
  PROVE  /\ size' \in 0..(MaxIndex + 1)
         /\ lead' \in [Gens -> Mono \cup {NoMono}]
         /\ \A i \in Gens : lead'[i] \in Mono <=> i < size'
         /\ (retired \subseteq Existing)'
         /\ (notMinimal \subseteq Existing)'
         /\ (mEliminated \subseteq ExistingPairs)'
         /\ (mQueue \subseteq ExistingPairs)'
         /\ hitCache' \in [Gens -> Gens]
         /\ \A i \in Gens : hitCache'[i] = 0 \/ hitCache'[i] < size'
         /\ pc' \in PCs
         /\ (toRetire \subseteq Live)'
         /\ oldGen' \in Nat
         /\ (pc \in {"addPairs", "retire"} => size > 0 /\ oldGen <= newGen)'
         /\ (treated \subseteq ExistingPairs)'
<1> USE MaxIndexAssumption, NoMonoAssumption
<1>1. size \in Gens /\ size' = size + 1
  BY DEF InsertElement, TypeOK, Gens
<1>2. Existing' = Existing \cup {size}
  BY <1>1, SMTT(20) DEF Existing, Gens, TypeOK
<1>3. ExistingPairs \subseteq ExistingPairs'
  BY <1>2 DEF ExistingPairs
<1>4. Multiples(m) \subseteq Live /\ Live \subseteq Existing
  BY DEF Multiples, Live
<1>5. \A i \in Existing : <<size, i>> \in ExistingPairs'
  BY <1>1, <1>2 DEF ExistingPairs, Existing, Gens
<1>6. size' \in 0..(MaxIndex + 1)
  BY <1>1 DEF Gens
<1>7. /\ lead' \in [Gens -> Mono \cup {NoMono}]
      /\ \A i \in Gens : lead'[i] \in Mono <=> i < size'
  <2>1. lead' = [lead EXCEPT ![size] = m]
    BY DEF InsertElement
  <2>2. \A i \in Gens : i < size' <=> i = size \/ i < size
    BY <1>1 DEF Gens
  <2> QED
    BY <1>1, <2>1, <2>2 DEF TypeOK
<1>8. /\ hitCache' \in [Gens -> Gens]
      /\ \A i \in Gens : hitCache'[i] = 0 \/ hitCache'[i] < size'
  <2>1. hitCache' = hitCache
    BY DEF InsertElement
  <2> QED
    BY <1>1, <2>1, SMTT(20) DEF TypeOK, Gens
<1>9. /\ (retired \subseteq Existing)'
      /\ (notMinimal \subseteq Existing)'
      /\ (mQueue \subseteq ExistingPairs)'
  BY <1>2, <1>3, <1>4 DEF InsertElement, TypeOK
<1>10. (mEliminated \subseteq ExistingPairs)' /\ (treated \subseteq ExistingPairs)'
  BY <1>3, <1>4, <1>5 DEF InsertElement, TypeOK
<1>11. (toRetire \subseteq Live)'
  BY <1>2, <1>4, <1>9 DEF InsertElement, TypeOK, Live
<1>12. /\ pc' \in PCs
       /\ oldGen' \in Nat
       /\ (pc \in {"addPairs", "retire"} => size > 0 /\ oldGen <= newGen)'
  BY <1>1 DEF InsertElement, PCs, newGen, Gens
<1> QED
  BY <1>6, <1>7, <1>8, <1>9, <1>10, <1>11, <1>12

(* The steps that leave the basis alone, one group per loop of the code *)
LEMMA SameBasis ==
  UNCHANGED basisVars =>
    /\ Existing' = Existing
    /\ ExistingPairs' = ExistingPairs
    /\ Live' = Live
    /\ newGen' = newGen
BY DEF basisVars, Existing, ExistingPairs, Live, newGen

LEMMA InsertPolysType ==
  ASSUME TypeOK, InsertPolys
  PROVE  TypeOK'
<1>1. ASSUME NEW m \in Mono, Postpone(m)
      PROVE  TypeOK'
  <2>1. toInsert' \in [Mono -> Nat] /\ toReduce' \in [Mono -> Nat]
    BY <1>1, TakeType, PutType DEF Postpone, TypeOK
  <2> QED
    BY <1>1, <2>1, SameBasis DEF Postpone, TypeOK, basisVars, sPairVars
<1>2. ASSUME NEW m \in Mono, InsertIrreducible(m)
      PROVE  TypeOK'
  <2>1. toInsert' \in [Mono -> Nat]
    BY <1>2, TakeType DEF InsertIrreducible, TypeOK
  <2>2. pc = "insert" /\ InsertElement(m)
    BY <1>2 DEF InsertIrreducible
  <2>3. UNCHANGED <<computing, toReduce, group, w, stopped>>
    BY <1>2 DEF InsertIrreducible
  <2>4. (group \subseteq ExistingPairs)'
    BY <2>2, <2>3 DEF TypeOK, InsertElement, ExistingPairs, Existing, Gens
  <2> QED
    BY <2>1, <2>2, <2>3, <2>4, InsertElementType DEF TypeOK
<1>3. ASSUME NEW m \in Mono, ReduceAndInsert(m)
      PROVE  TypeOK'
  <2>1. toInsert' \in [Mono -> Nat]
    BY <1>3, TakeType DEF ReduceAndInsert, TypeOK
  <2>2. UNCHANGED <<computing, toReduce, group, w, stopped>>
    BY <1>3 DEF ReduceAndInsert
  <2>3. CASE UNCHANGED <<basisVars, sPairVars, pc, toRetire, oldGen, treated>>
    BY <2>1, <2>2, <2>3, SameBasis DEF TypeOK, basisVars, sPairVars
  <2>4. ASSUME NEW r \in Remainders(m), InsertElement(r)
        PROVE  TypeOK'
    <3>1. r \in Mono /\ pc = "insert"
      BY <1>3 DEF Remainders, ReduceAndInsert
    <3>2. (group \subseteq ExistingPairs)'
      BY <2>2, <2>4 DEF TypeOK, InsertElement, ExistingPairs, Existing, Gens
    <3> QED
      BY <2>1, <2>2, <2>4, <3>1, <3>2, InsertElementType DEF TypeOK
  <2> QED
    BY <1>3, <2>3, <2>4 DEF ReduceAndInsert
<1>4. ASSUME NEW m \in Mono, ReducePoly(m)
      PROVE  TypeOK'
  <2>1. toReduce' \in [Mono -> Nat]
    BY <1>4, TakeType DEF ReducePoly, TypeOK
  <2>2. toInsert' \in [Mono -> Nat]
    BY <1>4, PutType DEF ReducePoly, Remainders, TypeOK
  <2>3. pc' \in PCs \ {"addPairs", "retire"}
    BY <1>4 DEF ReducePoly, PCs
  <2> QED
    BY <1>4, <2>1, <2>2, <2>3, SameBasis
    DEF ReducePoly, TypeOK, basisVars, sPairVars
<1>5. CASE InsertLoopEnds
  <2>1. pc' \in PCs \ {"addPairs", "retire"}
    BY <1>5 DEF InsertLoopEnds, PCs
  <2>2. computing' \in BOOLEAN /\ stopped' \in BOOLEAN
    BY <1>5 DEF InsertLoopEnds, TypeOK
  <2> QED
    BY <1>5, <2>1, <2>2, SameBasis
    DEF InsertLoopEnds, TypeOK, basisVars, sPairVars
<1>6. ASSUME NEW r \in toRetire, Retire(r)
      PROVE  TypeOK'
  <2>1. Existing' = Existing /\ ExistingPairs' = ExistingPairs /\ newGen' = newGen
    BY <1>6 DEF Retire, Existing, ExistingPairs, newGen
  <2>2. r \in Existing /\ lead[r] \in Mono
    BY DEF TypeOK, Live, Existing
  <2>3. toReduce' \in [Mono -> Nat]
    BY <1>6, <2>2, PutType DEF Retire, TypeOK
  <2>4. (retired \subseteq Existing)' /\ (toRetire \subseteq Live)'
    BY <1>6, <2>1, <2>2 DEF Retire, TypeOK, Live
  <2>5. pc' \in PCs /\ (pc \in {"addPairs", "retire"} => size > 0 /\ oldGen <= newGen)'
    BY <1>6, <2>1 DEF Retire, TypeOK, PCs
  <2> QED
    BY <1>6, <2>1, <2>3, <2>4, <2>5 DEF Retire, TypeOK, sPairVars
<1> QED
  BY <1>1, <1>2, <1>3, <1>4, <1>5, <1>6 DEF InsertPolys

(* What the simple criterion leaves in its cache is an existing element. *)
LEMMA UpdateHitCacheType ==
  ASSUME TypeOK, NEW a \in Existing, NEW b \in Existing, UpdateHitCache(a, b)
  PROVE  /\ hitCache' \in [Gens -> Gens]
         /\ \A i \in Gens : hitCache'[i] = 0 \/ hitCache'[i] < size
<1> USE MaxIndexAssumption
<1>1. a \in Gens /\ b \in Gens
  BY DEF Existing
<1>2. CASE UNCHANGED hitCache
  BY <1>2 DEF TypeOK
<1>3. CASE hitCache' = [hitCache EXCEPT ![b] = hitCache[a]]
  BY <1>1, <1>3 DEF TypeOK
<1>4. ASSUME NEW c \in Divisors(Lcm(lead[a], lead[b])),
             hitCache' = [hitCache EXCEPT ![a] = c, ![b] = c]
      PROVE  /\ hitCache' \in [Gens -> Gens]
             /\ \A i \in Gens : hitCache'[i] = 0 \/ hitCache'[i] < size
  <2>1. c \in Gens /\ c < size
    BY DEF Divisors, Live, Existing
  <2> QED
    BY <1>1, <1>4, <2>1 DEF TypeOK
<1> QED
  BY <1>2, <1>3, <1>4 DEF UpdateHitCache

(* The pair that addPairs looks at *)
LEMMA PairType ==
  ASSUME TypeOK, AddingPairs
  PROVE  /\ newGen \in Existing /\ oldGen \in Existing
         /\ Pair \in ExistingPairs
         /\ oldGen + 1 \in Nat /\ oldGen + 1 <= newGen
<1>1. /\ size \in 1..(MaxIndex + 1) /\ oldGen \in Nat
      /\ oldGen < size - 1 /\ newGen = size - 1
  BY MaxIndexAssumption DEF TypeOK, AddingPairs, newGen
<1>2. newGen \in Existing /\ oldGen \in Existing /\ newGen > oldGen
  BY <1>1, MaxIndexAssumption DEF Existing, Gens
<1> QED
  BY <1>1, <1>2 DEF Pair, ExistingPairs

LEMMA AddPairsType ==
  ASSUME TypeOK, AddPairs
  PROVE  TypeOK'
<1>1. ASSUME AddingPairs, NextOldGen,
             mEliminated' \subseteq ExistingPairs, mQueue' \subseteq ExistingPairs,
             hitCache' \in [Gens -> Gens],
             \A i \in Gens : hitCache'[i] = 0 \/ hitCache'[i] < size
      PROVE  TypeOK'
  <2>1. oldGen' \in Nat /\ oldGen' <= newGen
    BY <1>1, PairType DEF NextOldGen
  <2> QED
    BY <1>1, <2>1, SameBasis DEF NextOldGen, TypeOK, basisVars
<1>2. CASE SkipRetired
  BY <1>1, <1>2 DEF SkipRetired, TypeOK, sPairVars
<1>3. CASE EliminateTrivial
  BY <1>1, <1>3, PairType DEF EliminateTrivial, TypeOK
<1>4. CASE EliminateEarly
  BY <1>1, <1>4, PairType, UpdateHitCacheType
  DEF EliminateEarly, Considered, TypeOK
<1>5. CASE QueuePair
  BY <1>1, <1>5, PairType DEF QueuePair, Considered, TypeOK
<1>6. CASE AddPairsEnds
  <2>1. pc' \in PCs /\ pc = "addPairs"
    BY <1>6 DEF AddPairsEnds, PCs
  <2> QED
    BY <1>6, <2>1, SameBasis DEF AddPairsEnds, TypeOK, basisVars, sPairVars
<1> QED
  BY <1>2, <1>3, <1>4, <1>5, <1>6 DEF AddPairs

LEMMA ComputeType ==
  ASSUME TypeOK, Compute
  PROVE  TypeOK'
<1>1. CASE Finish
  BY <1>1, SameBasis DEF Finish, TypeOK, PCs, basisVars, sPairVars
<1>2. CASE CallbackStops
  BY <1>2, SameBasis DEF CallbackStops, TypeOK, PCs, basisVars, sPairVars
<1>3. CASE BeginStep
  BY <1>3, SameBasis DEF BeginStep, TypeOK, PCs, basisVars, sPairVars
<1>4. CASE GroupEnds
  BY <1>4, SameBasis DEF GroupEnds, TypeOK, PCs, basisVars, sPairVars
<1>5. ASSUME NEW p \in TopPairs, PopRetired(p)
      PROVE  TypeOK'
  <2>1. mQueue' \subseteq ExistingPairs
    BY <1>5 DEF PopRetired, TypeOK
  <2> QED
    BY <1>5, <2>1, SameBasis DEF PopRetired, TypeOK, basisVars, driverVars
<1>6. ASSUME NEW p \in TopPairs
      PROVE  p \in ExistingPairs /\ p[1] \in Existing /\ p[2] \in Existing
  BY PairLcm DEF TopPairs, TypeOK
<1>7. ASSUME NEW p \in TopPairs, PopUseless(p)
      PROVE  TypeOK'
  <2>1. mQueue' \subseteq ExistingPairs
    BY <1>7 DEF PopUseless, TypeOK
  <2>2. /\ hitCache' \in [Gens -> Gens]
        /\ \A i \in Gens : hitCache'[i] = 0 \/ hitCache'[i] < size
    BY <1>6, <1>7, UpdateHitCacheType
    DEF PopUseless, UpdateHitCacheLate, TypeOK
  <2> QED
    BY <1>7, <2>1, <2>2, SameBasis DEF PopUseless, TypeOK, basisVars, driverVars
<1>8. ASSUME NEW p \in TopPairs, PopSelected(p)
      PROVE  TypeOK'
  <2>1. w' \in Int
    BY <1>6, <1>8, PairLcm, DegreeAssumption DEF PopSelected
  <2>2. /\ mQueue' \subseteq ExistingPairs
        /\ mEliminated' \subseteq ExistingPairs
        /\ group' \subseteq ExistingPairs
        /\ treated' \subseteq ExistingPairs
    BY <1>6, <1>8 DEF PopSelected, TypeOK
  <2> QED
    BY <1>8, <2>1, <2>2, SameBasis DEF PopSelected, TypeOK, basisVars
<1>9. ASSUME NEW p \in group, ReduceSPoly(p)
      PROVE  TypeOK'
  <2>1. toInsert' \in [Mono -> Nat]
    BY <1>9, PutType DEF ReduceSPoly, Remainders, TypeOK
  <2>2. group' \subseteq ExistingPairs
    BY <1>9 DEF ReduceSPoly, TypeOK
  <2>3. pc' \in PCs \ {"addPairs", "retire"}
    BY <1>9 DEF ReduceSPoly, PCs
  <2> QED
    BY <1>9, <2>1, <2>2, <2>3, SameBasis
    DEF ReduceSPoly, TypeOK, basisVars, sPairVars
<1> QED
  BY <1>1, <1>2, <1>3, <1>4, <1>5, <1>7, <1>8, <1>9 DEF Compute

(* Every variable keeps a value of its kind, whatever the input, the options
   and the choices of the lookup, the queue and the reducer. *)
THEOREM TypeCorrect == Spec => []TypeOK
<1>1. Init => TypeOK
  BY InitType
<1>2. TypeOK /\ [Next]_vars => TypeOK'
  <2> SUFFICES ASSUME TypeOK, [Next]_vars
               PROVE  TypeOK'
    OBVIOUS
  <2>1. CASE UNCHANGED vars
    BY <2>1, SameBasis DEF vars, basisVars, sPairVars, driverVars, TypeOK
  <2> QED
    BY <2>1, InsertPolysType, AddPairsType, ComputeType DEF Next, Returned
<1> QED
  BY <1>1, <1>2, PTL DEF Spec

-----------------------------------------------------------------------------

(* What is known while an element is inserted *)
Inserting ==
  pc \in {"addPairs", "retire"} =>
    /\ newGen \notin retired \cup toRetire
    /\ pc = "retire" => oldGen = newGen
    /\ \A r \in toRetire :
         Divides(lead[newGen], lead[r]) /\ <<newGen, r>> \in treated
    /\ \A i \in Live : i < oldGen => <<newGen, i>> \in mQueue \cup mEliminated

(* The lead of a retired element stays in the initial ideal. *)
RetiredDivisible ==
  \A i \in retired : \E j \in Live : Divides(lead[j], lead[i])

(* The edges that may show that a pair with the lcm of p is useless *)
EdgesBelow(p) == Settled \cup {q \in Pending : LcmOf(q) # LcmOf(p)}

EliminatedBelow ==
  \A p \in mEliminated : ~IsRetired(p) => Generated(p, EdgesBelow(p))

IInv ==
  /\ TypeOK
  /\ Inserting
  /\ RetiredDivisible
  /\ EliminatedBelow
  /\ SyzygiesGenerated

Nodes(p) == {i \in Existing : Divides(lead[i], LcmOf(p))}

-----------------------------------------------------------------------------
(* Connectedness in a graph *)

LEMMA UnorderedSymmetric ==
  \A a, b \in Nat : Unordered(a, b) = Unordered(b, a)
BY DEF Unordered

LEMMA ConnectedEdge ==
  ASSUME NEW V, NEW E, NEW a \in V, NEW b \in V, Unordered(a, b) \in E
  PROVE  Connected(a, b, V, E)
BY DEF Connected

LEMMA ConnectedTransitive ==
  ASSUME NEW V, NEW E, NEW a, NEW b, NEW c,
         Connected(a, c, V, E), Connected(c, b, V, E)
  PROVE  Connected(a, b, V, E)
BY DEF Connected

LEMMA ConnectedSymmetric ==
  ASSUME NEW V \in SUBSET Nat, NEW E, NEW a \in V, NEW b \in V,
         Connected(a, b, V, E)
  PROVE  Connected(b, a, V, E)
<1> SUFFICES ASSUME NEW S \in SUBSET V, b \in S, a \notin S,
                    \A c \in S, d \in V : Unordered(c, d) \in E => d \in S
             PROVE  FALSE
  BY DEF Connected
<1>1. \A c \in V \ S, d \in V : Unordered(c, d) \in E => d \in V \ S
  BY UnorderedSymmetric
<1> QED
  BY <1>1 DEF Connected

(* A larger graph *)
LEMMA ConnectedMonotone ==
  ASSUME NEW V, NEW W, V \subseteq W, NEW E, NEW F, E \subseteq F,
         NEW a \in V, NEW b, Connected(a, b, V, E)
  PROVE  Connected(a, b, W, F)
<1> SUFFICES ASSUME NEW S \in SUBSET W, a \in S,
                    \A c \in S, d \in W : Unordered(c, d) \in F => d \in S
             PROVE  b \in S
  BY DEF Connected
<1>1. /\ S \cap V \in SUBSET V
      /\ a \in S \cap V
      /\ \A c \in S \cap V, d \in V : Unordered(c, d) \in E => d \in S \cap V
  OBVIOUS
<1> QED
  BY <1>1 DEF Connected

(* An edge can be replaced by a path. *)
LEMMA ConnectedReplace ==
  ASSUME NEW V, NEW E, NEW F, NEW a, NEW b, Connected(a, b, V, E),
         \A c, d \in V : Unordered(c, d) \in E => Connected(c, d, V, F)
  PROVE  Connected(a, b, V, F)
<1> SUFFICES ASSUME NEW S \in SUBSET V, a \in S,
                    \A c \in S, d \in V : Unordered(c, d) \in F => d \in S
             PROVE  b \in S
  BY DEF Connected
<1>1. ASSUME NEW c \in S, NEW d \in V, Unordered(c, d) \in E
      PROVE  d \in S
  <2>1. Connected(c, d, V, F)
    BY <1>1
  <2> QED
    BY <2>1 DEF Connected
<1> QED
  BY <1>1 DEF Connected

-----------------------------------------------------------------------------
(* Pairs, their lcms and the graphs that generate them *)

LEMMA SameComponent ==
  ASSUME IsIdeal, TypeOK, NEW i \in Existing, NEW j \in Existing
  PROVE  lead[i] \in Mono /\ lead[j] \in Mono /\ lead[i].comp = lead[j].comp
BY DEF IsIdeal, TypeOK, Existing, Mono

LEMMA PairNodes ==
  ASSUME IsIdeal, TypeOK, NEW p \in ExistingPairs
  PROVE  p[1] \in Nodes(p) /\ p[2] \in Nodes(p) /\ Nodes(p) \subseteq Nat
BY PairLcm, SameComponent, LcmMultiple, MaxIndexAssumption
   DEF Nodes, LcmOf, Existing, Gens

(* Two elements make one pair, with one lcm. *)
LEMMA UnorderedPair ==
  ASSUME IsIdeal, TypeOK, NEW i \in Existing, NEW j \in Existing, i # j
  PROVE  /\ Unordered(i, j) \in ExistingPairs
         /\ Unordered(i, j) \in {<<i, j>>, <<j, i>>}
         /\ LcmOf(Unordered(i, j)) = Lcm(lead[i], lead[j])
<1>1. i \in Nat /\ j \in Nat
  BY MaxIndexAssumption DEF Existing, Gens
<1>2. Lcm(lead[i], lead[j]) = Lcm(lead[j], lead[i])
  BY SameComponent, LcmCommutes
<1> QED
  BY <1>1, <1>2 DEF Unordered, ExistingPairs, LcmOf

LEMMA UnorderedOfPair ==
  ASSUME TypeOK, NEW p \in ExistingPairs
  PROVE  Unordered(p[1], p[2]) = p
BY PairLcm DEF Unordered

(* The pair of two nodes lies below the pair whose nodes they are. *)
LEMMA NodesPair ==
  ASSUME IsIdeal, TypeOK, NEW p \in ExistingPairs,
         NEW i \in Nodes(p), NEW j \in Nodes(p), i # j
  PROVE  /\ Unordered(i, j) \in ExistingPairs
         /\ Divides(LcmOf(Unordered(i, j)), LcmOf(p))
<1>1. /\ i \in Existing /\ Divides(lead[i], LcmOf(p))
      /\ j \in Existing /\ Divides(lead[j], LcmOf(p))
  BY DEF Nodes
<1>2. lead[i] \in Mono /\ lead[j] \in Mono /\ LcmOf(p) \in Mono
  BY <1>1, SameComponent, PairLcm
<1> QED
  BY <1>1, <1>2, UnorderedPair, LcmLeast

LEMMA NodesBelow ==
  ASSUME TypeOK, NEW p \in ExistingPairs, NEW q \in ExistingPairs,
         Divides(LcmOf(q), LcmOf(p))
  PROVE  Nodes(q) \subseteq Nodes(p)
<1> SUFFICES ASSUME NEW i \in Nodes(q)
             PROVE  i \in Nodes(p)
  OBVIOUS
<1>1. i \in Existing /\ lead[i] \in Mono /\ Divides(lead[i], LcmOf(q))
  BY DEF Nodes, TypeOK, Existing
<1>2. LcmOf(p) \in Mono /\ LcmOf(q) \in Mono
  BY PairLcm
<1>3. Divides(lead[i], LcmOf(p))
  BY <1>1, <1>2, DividesTransitive
<1> QED
  BY <1>1, <1>3 DEF Nodes

LEMMA GeneratedDef ==
  ASSUME NEW p, NEW E
  PROVE  Generated(p, E) <=> Connected(p[1], p[2], Nodes(p), E)
BY DEF Generated, Nodes

(* A pair generated by E is joined by E in the graph of any pair above. *)
LEMMA GeneratedAbove ==
  ASSUME IsIdeal, TypeOK, NEW p \in ExistingPairs, NEW E,
         NEW i \in Nodes(p), NEW j \in Nodes(p), i # j,
         Generated(Unordered(i, j), E)
  PROVE  Connected(i, j, Nodes(p), E)
<1> DEFINE q == Unordered(i, j)
<1>1. q \in ExistingPairs /\ Nodes(q) \subseteq Nodes(p)
  BY NodesPair, NodesBelow
<1>2. q[1] \in Nodes(q) /\ q[2] \in Nodes(q) /\ Nodes(p) \subseteq Nat
  BY <1>1, PairNodes
<1>3. Connected(q[1], q[2], Nodes(q), E)
  BY GeneratedDef
<1> HIDE DEF q
<1>4. Connected(q[1], q[2], Nodes(p), E)
  BY <1>1, <1>2, <1>3, ConnectedMonotone
<1>5. Connected(q[2], q[1], Nodes(p), E)
  BY <1>1, <1>2, <1>4, ConnectedSymmetric
<1>6. q = <<i, j>> \/ q = <<j, i>>
  BY DEF q, Unordered
<1>7. CASE q = <<i, j>>
  BY <1>4, <1>7
<1>8. CASE q = <<j, i>>
  BY <1>5, <1>8
<1> QED
  BY <1>6, <1>7, <1>8

(* Only edges below a pair matter to it, and each can be replaced by what
   generates it. *)
LEMMA GeneratedReplace ==
  ASSUME IsIdeal, TypeOK, NEW p \in ExistingPairs,
         NEW E \in SUBSET ExistingPairs, NEW F, Generated(p, E),
         \A q \in E : Divides(LcmOf(q), LcmOf(p)) => Generated(q, F)
  PROVE  Generated(p, F)
<1>1. ASSUME NEW i \in Nodes(p), NEW j \in Nodes(p), Unordered(i, j) \in E
      PROVE  Connected(i, j, Nodes(p), F)
  <2>1. i # j
    <3>1. Nodes(p) \subseteq Nat
      BY PairNodes
    <3> QED
      BY <1>1, <3>1 DEF ExistingPairs, Unordered
  <2>2. Generated(Unordered(i, j), F)
    BY <1>1, <2>1, NodesPair
  <2> QED
    BY <2>1, <2>2, GeneratedAbove
<1>2. Connected(p[1], p[2], Nodes(p), E)
  BY GeneratedDef
<1>3. Connected(p[1], p[2], Nodes(p), F)
  BY <1>1, <1>2, ConnectedReplace
<1> QED
  BY <1>3, GeneratedDef

LEMMA GeneratedEdge ==
  ASSUME IsIdeal, TypeOK, NEW p \in ExistingPairs, NEW E, p \in E
  PROVE  Generated(p, E)
BY PairNodes, UnorderedOfPair, ConnectedEdge, GeneratedDef

LEMMA GeneratedRestrict ==
  ASSUME IsIdeal, TypeOK, NEW p \in ExistingPairs,
         NEW E \in SUBSET ExistingPairs, NEW F, Generated(p, E),
         \A q \in E : Divides(LcmOf(q), LcmOf(p)) => q \in F
  PROVE  Generated(p, F)
BY GeneratedEdge, GeneratedReplace

-----------------------------------------------------------------------------
(* The criteria *)

LEMMA EdgesArePairs == TypeOK => Settled \cup Pending \subseteq ExistingPairs
BY DEF TypeOK, Settled, Pending

LEMMA EdgesArePairsNext ==
  TypeOK' => (Settled \cup Pending)' \subseteq ExistingPairs'
BY DEF TypeOK, Settled, Pending

(* What an edge of the criterion's graph stands for *)
LEMMA EdgeBelow ==
  ASSUME IsIdeal, TypeOK, EliminatedBelow, SyzygiesGenerated,
         NEW p \in ExistingPairs, NEW e \in ExistingPairs,
         Divides(LcmOf(e), LcmOf(p)),
         (e \in mEliminated /\ ~IsRetired(e)) \/ LcmOf(e) # LcmOf(p)
  PROVE  Generated(e, EdgesBelow(p))
<1>1. CASE LcmOf(e) = LcmOf(p)
  <2>1. EdgesBelow(e) = EdgesBelow(p)
    BY <1>1 DEF EdgesBelow
  <2> QED
    BY <1>1, <2>1 DEF EliminatedBelow
<1>2. CASE LcmOf(e) # LcmOf(p)
  <2>1. LcmOf(e) \in Mono /\ LcmOf(p) \in Mono
    BY PairLcm
  <2>2. Generated(e, Settled \cup Pending)
    BY PairLcm, SameComponent DEF SyzygiesGenerated
  <2>3. \A q \in Settled \cup Pending :
          Divides(LcmOf(q), LcmOf(e)) => LcmOf(q) # LcmOf(p)
    BY <1>2, <2>1, DividesAntisymmetric
  <2>4. \A q \in Settled \cup Pending :
          Divides(LcmOf(q), LcmOf(e)) => q \in EdgesBelow(p)
    BY <2>3 DEF EdgesBelow
  <2> QED
    BY <2>2, <2>4, EdgesArePairs, GeneratedRestrict
<1> QED
  BY <1>1, <1>2

LEMMA EdgeConnects ==
  ASSUME IsIdeal, TypeOK, EliminatedBelow, SyzygiesGenerated,
         NEW p \in ExistingPairs,
         NEW i \in Nodes(p), NEW j \in Nodes(p), i # j,
         \/ Eliminated(i, j) /\ i \in Live /\ j \in Live
         \/ LcmOf(Unordered(i, j)) # LcmOf(p)
  PROVE  Connected(i, j, Nodes(p), EdgesBelow(p))
<1>1. /\ Unordered(i, j) \in ExistingPairs
      /\ Divides(LcmOf(Unordered(i, j)), LcmOf(p))
  BY NodesPair
<1>2. i \in Live /\ j \in Live => ~IsRetired(Unordered(i, j))
  BY DEF Live, IsRetired, Unordered
<1>3. Generated(Unordered(i, j), EdgesBelow(p))
  BY <1>1, <1>2, EdgeBelow DEF Eliminated
<1> QED
  BY <1>3, GeneratedAbove

(* Gebauer and Moeller's criterion: a path of two edges *)
LEMMA WitnessSound ==
  ASSUME IsIdeal, TypeOK, EliminatedBelow, SyzygiesGenerated,
         NEW a \in Live, NEW b \in Live, a # b, NEW c \in Live,
         Divides(lead[c], Lcm(lead[a], lead[b])), Witness(c, a, b)
  PROVE  Generated(Unordered(a, b), EdgesBelow(Unordered(a, b)))
<1> DEFINE p == Unordered(a, b)
<1>1. a \in Existing /\ b \in Existing /\ c \in Existing
  BY DEF Live
<1>2. p \in ExistingPairs /\ LcmOf(p) = Lcm(lead[a], lead[b])
  BY <1>1, UnorderedPair
<1>3. a \in Nodes(p) /\ b \in Nodes(p) /\ c \in Nodes(p)
  BY <1>1, <1>2, SameComponent, LcmMultiple DEF Nodes
<1>4. c # a /\ c # b
  BY DEF Witness
<1>5. /\ LcmOf(Unordered(c, a)) = Lcm(lead[c], lead[a])
      /\ LcmOf(Unordered(c, b)) = Lcm(lead[c], lead[b])
  BY <1>1, <1>4, UnorderedPair
<1>6. Divides(lead[a], LcmOf(p)) /\ Divides(lead[b], LcmOf(p))
  BY <1>3 DEF Nodes
<1> HIDE DEF p
<1>7. Connected(c, a, Nodes(p), EdgesBelow(p))
  BY <1>2, <1>3, <1>4, <1>5, <1>6, EdgeConnects DEF Witness
<1>8. Connected(c, b, Nodes(p), EdgesBelow(p))
  BY <1>2, <1>3, <1>4, <1>5, <1>6, EdgeConnects DEF Witness
<1>9. Connected(a, c, Nodes(p), EdgesBelow(p))
  BY <1>2, <1>3, <1>7, PairNodes, ConnectedSymmetric
<1>10. Connected(a, b, Nodes(p), EdgesBelow(p))
  BY <1>8, <1>9, ConnectedTransitive
<1>11. Unordered(a, b) = p
  BY DEF p
<1>12. a # b /\ p \in {<<a, b>>, <<b, a>>}
  BY <1>11 DEF Unordered
<1>13. Connected(b, a, Nodes(p), EdgesBelow(p))
  BY <1>2, <1>3, <1>10, PairNodes, ConnectedSymmetric
<1>14. Connected(p[1], p[2], Nodes(p), EdgesBelow(p))
  BY <1>10, <1>12, <1>13
<1> QED
  BY <1>11, <1>14, GeneratedDef

LEMMA SimpleCriterionSound ==
  ASSUME IsIdeal, TypeOK, EliminatedBelow, SyzygiesGenerated,
         NEW a \in Live, NEW b \in Live, a # b, SimpleCriterion(a, b)
  PROVE  Generated(Unordered(a, b), EdgesBelow(Unordered(a, b)))
<1>1. ASSUME NEW i \in {a, b}, CacheWitness(hitCache[i], a, b)
      PROVE  hitCache[i] \in Live
  <2>1. i \in Existing /\ i \in Gens
    BY DEF Live, Existing
  <2>2. hitCache[i] \in Gens /\ hitCache[i] < size
    BY <2>1, MaxIndexAssumption DEF TypeOK, Existing, Gens
  <2> QED
    BY <1>1, <2>2 DEF CacheWitness, Live, Existing
<1>2. ASSUME NEW i \in {a, b}, CacheWitness(hitCache[i], a, b)
      PROVE  Generated(Unordered(a, b), EdgesBelow(Unordered(a, b)))
  BY <1>1, <1>2, WitnessSound DEF CacheWitness
<1>3. ASSUME NEW c \in Divisors(Lcm(lead[a], lead[b])), Witness(c, a, b)
      PROVE  Generated(Unordered(a, b), EdgesBelow(Unordered(a, b)))
  BY <1>3, WitnessSound DEF Divisors
<1> QED
  BY <1>2, <1>3 DEF SimpleCriterion

(* The advanced criterion: a path of any length *)
LEMMA AdvancedCriterionSound ==
  ASSUME IsIdeal, TypeOK, EliminatedBelow, SyzygiesGenerated,
         NEW p \in ExistingPairs, ~IsRetired(p), AdvancedCriterion(p[1], p[2])
  PROVE  Generated(p, EdgesBelow(p))
<1>1. p[1] \in Live /\ p[2] \in Live /\ p[1] # p[2]
  BY PairLcm, MaxIndexAssumption DEF Live, IsRetired, Existing, Gens
<1>2. CASE SimpleCriterion(p[1], p[2])
  BY <1>1, <1>2, SimpleCriterionSound, UnorderedOfPair
<1>3. CASE AdvancedCriterionSlow(p[1], p[2])
  <2> DEFINE V == Divisors(LcmOf(p))
             E == CriterionEdges(V, LcmOf(p))
  <2>1. Connected(p[1], p[2], V, E)
    BY <1>3 DEF AdvancedCriterionSlow, LcmOf
  <2>2. V \subseteq Nodes(p) /\ V \subseteq Live
    BY DEF Divisors, Nodes, Live
  <2>3. p[1] \in V
    BY <1>1, PairNodes DEF Divisors, Nodes
  <2>4. ASSUME NEW i \in Nodes(p), NEW j \in Nodes(p), Unordered(i, j) \in E
        PROVE  Connected(i, j, Nodes(p), EdgesBelow(p))
    <3>1. i \in V /\ j \in V
      BY <2>4 DEF CriterionEdges, Unordered
    <3>2. i # j
      BY <2>4, PairNodes DEF CriterionEdges, Unordered
    <3>3. Eliminated(i, j) \/ ~Divides(LcmOf(p), LcmOf(Unordered(i, j)))
      BY <2>4 DEF CriterionEdges, Eliminated
    <3>4. Divides(LcmOf(p), LcmOf(p))
      BY PairLcm, DividesReflexive
    <3> QED
      BY <2>2, <3>1, <3>2, <3>3, <3>4, EdgeConnects
  <2> HIDE DEF V, E
  <2>5. Connected(p[1], p[2], Nodes(p), E)
    BY <2>1, <2>2, <2>3, ConnectedMonotone
  <2>6. Connected(p[1], p[2], Nodes(p), EdgesBelow(p))
    BY <2>4, <2>5, ConnectedReplace
  <2> QED
    BY <2>6, GeneratedDef
<1> QED
  BY <1>2, <1>3 DEF AdvancedCriterion

-----------------------------------------------------------------------------
(* A step that inserts no element *)

(* The pairs that are no longer pending are settled, or generated without
   themselves. *)
LEMMA DropPending ==
  ASSUME IsIdeal, TypeOK, EliminatedBelow, SyzygiesGenerated,
         NEW S, NEW P, S \cup P \subseteq ExistingPairs, Settled \subseteq S,
         \A q \in Pending : q \in S \cup P \/ Generated(q, S \cup P)
  PROVE  /\ \A p \in ExistingPairs : Generated(p, S \cup P)
         /\ \A p \in mEliminated :
              ~IsRetired(p) =>
                Generated(p, S \cup {q \in P : LcmOf(q) # LcmOf(p)})
<1>1. \A q \in Settled \cup Pending : Generated(q, S \cup P)
  BY EdgesArePairs, GeneratedEdge
<1>2. ASSUME NEW p \in ExistingPairs
      PROVE  Generated(p, S \cup P)
  <2>1. Generated(p, Settled \cup Pending)
    BY PairLcm, SameComponent DEF SyzygiesGenerated
  <2> QED
    BY <1>1, <2>1, EdgesArePairs, GeneratedReplace
<1>3. ASSUME NEW p \in mEliminated, ~IsRetired(p)
      PROVE  Generated(p, S \cup {q \in P : LcmOf(q) # LcmOf(p)})
  <2> DEFINE F == S \cup {q \in P : LcmOf(q) # LcmOf(p)}
  <2>1. p \in ExistingPairs
    BY DEF TypeOK
  <2>2. Generated(p, EdgesBelow(p)) /\ EdgesBelow(p) \subseteq ExistingPairs
    BY <1>3, EdgesArePairs DEF EliminatedBelow, EdgesBelow
  <2>3. ASSUME NEW q \in EdgesBelow(p), Divides(LcmOf(q), LcmOf(p))
        PROVE  Generated(q, F)
    <3>1. q \in ExistingPairs
      BY <2>2
    <3>2. CASE q \in Settled
      BY <3>1, <3>2, GeneratedEdge
    <3>3. CASE q \notin Settled
      <4>1. LcmOf(q) # LcmOf(p) /\ Generated(q, S \cup P)
        BY <1>1, <3>3 DEF EdgesBelow
      <4>2. LcmOf(q) \in Mono /\ LcmOf(p) \in Mono
        BY <2>1, <3>1, PairLcm
      <4>3. \A e \in S \cup P :
              Divides(LcmOf(e), LcmOf(q)) => LcmOf(e) # LcmOf(p)
        BY <2>3, <4>1, <4>2, DividesAntisymmetric
      <4> QED
        BY <3>1, <4>1, <4>3, GeneratedRestrict
    <3> QED
      BY <3>2, <3>3
  <2> QED
    BY <2>1, <2>2, <2>3, GeneratedReplace
<1> QED
  BY <1>2, <1>3

LEMMA SameLeads ==
  ASSUME IsIdeal, TypeOK, TypeOK', EliminatedBelow, SyzygiesGenerated,
         UNCHANGED <<size, lead>>, retired \subseteq retired',
         Settled \subseteq Settled',
         \A q \in Pending :
           q \in (Settled \cup Pending)'
             \/ Generated(q, (Settled \cup Pending)'),
         \A p \in mEliminated' :
           \/ p \in mEliminated
           \/ p \in Settled'
           \/ Generated(p, Settled' \cup {q \in Pending' : LcmOf(q) # LcmOf(p)})
  PROVE  EliminatedBelow' /\ SyzygiesGenerated'
<1>1. Existing' = Existing /\ ExistingPairs' = ExistingPairs
  BY DEF Existing, ExistingPairs
<1>2. Settled' \cup Pending' \subseteq ExistingPairs
  BY <1>1, EdgesArePairsNext
<1>3. /\ \A p \in ExistingPairs : Generated(p, Settled' \cup Pending')
      /\ \A p \in mEliminated :
           ~IsRetired(p) =>
             Generated(p, Settled' \cup {q \in Pending' : LcmOf(q) # LcmOf(p)})
  BY <1>2, DropPending
<1>4. SyzygiesGenerated'
  BY <1>1, <1>3 DEF SyzygiesGenerated, Generated, LcmOf
<1>5. ASSUME NEW p \in mEliminated', ~IsRetired(p)'
      PROVE  Generated(p, Settled' \cup {q \in Pending' : LcmOf(q) # LcmOf(p)})
  <2>1. ~IsRetired(p) /\ p \in ExistingPairs
    BY <1>1, <1>5 DEF IsRetired, TypeOK
  <2> QED
    BY <1>3, <1>5, <2>1, GeneratedEdge
<1>6. EliminatedBelow'
  BY <1>1, <1>5 DEF EliminatedBelow, EdgesBelow, Generated, LcmOf
<1> QED
  BY <1>4, <1>6

(* What the steps that leave leads alone have in common *)
LEMMA SettledGrows ==
  UNCHANGED <<size, lead>> /\ treated \subseteq treated' => Settled \subseteq Settled'
BY DEF Settled, ExistingPairs, Existing

LEMMA RetiredSame ==
  RetiredDivisible /\ UNCHANGED <<size, lead, retired>> => RetiredDivisible'
BY DEF RetiredDivisible, Live, Existing

(* The steps outside addPairs that leave basis and pairs alone *)
LEMMA IdleStep ==
  ASSUME IsIdeal, IInv, TypeOK',
         UNCHANGED <<basisVars, mEliminated, mQueue, treated>>,
         pc \notin {"addPairs", "retire", "overflow"},
         pc' \notin {"addPairs", "retire", "overflow"}
  PROVE  IInv'
<1>1. UNCHANGED <<size, lead, retired>>
  BY DEF basisVars
<1>2. Pending' = Pending
  BY <1>1 DEF Pending, IsRetired
<1>3. Settled \subseteq Settled'
  BY <1>1, SettledGrows
<1>4. EliminatedBelow' /\ SyzygiesGenerated'
  BY <1>1, <1>2, <1>3, SameLeads DEF IInv
<1> QED
  BY <1>1, <1>4, RetiredSame DEF IInv, Inserting

-----------------------------------------------------------------------------
(* SPairs::addPairs *)

LEMMA AddPairsStep ==
  ASSUME IsIdeal, IInv, TypeOK', AddPairs
  PROVE  IInv'
<1> USE DEF IInv
<1>1. /\ pc = "addPairs" /\ UNCHANGED <<size, lead, retired, treated, toRetire>>
      /\ newGen' = newGen
  BY DEF AddPairs, AddingPairs, Considered, SkipRetired, EliminateTrivial,
         EliminateEarly, QueuePair, AddPairsEnds, NextOldGen, basisVars, newGen
<1>2. Live' = Live /\ newGen \notin retired
  BY <1>1 DEF Live, Existing, Inserting
<1>3. RetiredDivisible' /\ Settled \subseteq Settled'
  BY <1>1, RetiredSame, SettledGrows
<1>4. CASE AddPairsEnds
  <2>1. /\ oldGen = newGen /\ UNCHANGED <<mQueue, mEliminated, oldGen>>
        /\ pc' \in {"insert", "retire"}
    BY <1>4 DEF AddPairsEnds, sPairVars
  <2>2. Inserting'
    BY <1>1, <1>2, <2>1 DEF Inserting
  <2>3. \A p \in ExistingPairs : p[1] = newGen => ~(p[2] >= oldGen)
    BY <2>1, PairLcm, MaxIndexAssumption DEF Existing, Gens
  <2>4. Pending \subseteq Pending'
    BY <1>1, <2>1, <2>3 DEF Pending, IsRetired
  <2> QED
    BY <1>1, <1>3, <2>1, <2>2, <2>4, SameLeads
<1>5. ASSUME AddingPairs, NextOldGen,
             oldGen \in retired \/ Pair \in mQueue' \cup mEliminated',
             mQueue \subseteq mQueue', mEliminated \subseteq mEliminated'
      PROVE  Inserting'
  <2>1. pc' = "addPairs" /\ oldGen' = oldGen + 1
    BY <1>1, <1>5 DEF NextOldGen
  <2>2. ASSUME NEW i \in Live, i < oldGen'
        PROVE  <<newGen, i>> \in mQueue' \cup mEliminated'
    <3>1. i < oldGen \/ i = oldGen
      BY <2>1, <2>2, MaxIndexAssumption DEF Live, Existing, Gens, TypeOK
    <3>2. CASE i < oldGen
      BY <1>1, <1>5, <3>2 DEF Inserting
    <3>3. CASE i = oldGen
      BY <1>5, <3>3 DEF Live, Pair
    <3> QED
      BY <3>1, <3>2, <3>3
  <2> QED
    BY <1>1, <1>2, <2>1, <2>2 DEF Inserting
<1>6. ASSUME AddingPairs, NextOldGen, mQueue' \in {mQueue, mQueue \cup {Pair}}
      PROVE  \A q \in Pending : q = Pair \/ q \in Pending'
  <2>1. pc' = "addPairs" /\ oldGen' = oldGen + 1
    BY <1>1, <1>6 DEF NextOldGen
  <2>2. SUFFICES ASSUME NEW q \in Pending, q # Pair
                 PROVE  q \in Pending'
    OBVIOUS
  <2>3. CASE q \in mQueue /\ ~IsRetired(q)
    BY <1>1, <1>6, <2>3 DEF Pending, IsRetired
  <2>4. CASE /\ q \in ExistingPairs /\ q[1] = newGen /\ q[2] >= oldGen
             /\ q[2] \notin retired
    <3>1. q[2] # oldGen /\ q[2] \in Nat
      BY <2>2, <2>4, PairLcm, MaxIndexAssumption DEF Pair, Existing, Gens
    <3>2. q[2] >= oldGen'
      <4>1. oldGen \in Nat
        BY DEF TypeOK
      <4> QED
        BY <2>1, <2>4, <3>1, <4>1
    <3>3. ExistingPairs' = ExistingPairs
      BY <1>1 DEF ExistingPairs, Existing
    <3> QED
      BY <1>1, <2>1, <2>4, <3>2, <3>3 DEF Pending
  <2> QED
    BY <2>3, <2>4 DEF Pending
<1>7. CASE SkipRetired
  <2>1. /\ AddingPairs /\ NextOldGen /\ oldGen \in retired
        /\ UNCHANGED <<mQueue, mEliminated>>
    BY <1>7 DEF SkipRetired, sPairVars
  <2>2. Inserting'
    BY <1>5, <2>1
  <2>3. Pair \notin Pending
    BY <2>1 DEF Pending, Pair, IsRetired
  <2>4. \A q \in Pending : q \in Pending'
    BY <1>6, <2>1, <2>3
  <2> QED
    BY <1>1, <1>3, <2>1, <2>2, <2>4, SameLeads
<1>8. CASE EliminateTrivial
  <2>1. /\ AddingPairs /\ NextOldGen /\ mQueue' = mQueue
        /\ mEliminated' = mEliminated \cup {Pair}
    BY <1>8 DEF EliminateTrivial
  <2>2. Inserting'
    BY <1>5, <2>1
  <2>3. Pair \in ExistingPairs /\ newGen \in Existing /\ oldGen \in Existing
    BY <2>1, PairType
  <2>4. RelativelyPrime(lead[newGen], lead[oldGen])
    BY <1>8, <2>3, SameComponent DEF EliminateTrivial
  <2>5. Pair \in Settled
    BY <2>3, <2>4 DEF Settled, RelativelyPrime, Pair
  <2>6. \A q \in Pending : q \in Settled' \cup Pending'
    BY <1>3, <1>6, <2>1, <2>5
  <2>7. \A p \in mEliminated' : p \in mEliminated \/ p \in Settled'
    BY <1>3, <2>1, <2>5
  <2> QED
    BY <1>1, <1>3, <2>2, <2>6, <2>7, SameLeads
<1>9. CASE EliminateEarly
  <2>1. /\ AddingPairs /\ NextOldGen /\ mQueue' = mQueue
        /\ mEliminated' = mEliminated \cup {Pair}
        /\ oldGen \notin retired /\ SimpleCriterion(newGen, oldGen)
    BY <1>9 DEF EliminateEarly, Considered
  <2>2. Inserting'
    BY <1>5, <2>1
  <2>3. /\ Pair \in ExistingPairs /\ newGen \in Live /\ oldGen \in Live
        /\ newGen # oldGen /\ Unordered(newGen, oldGen) = Pair
    BY <1>2, <2>1, PairType, UnorderedOfPair, MaxIndexAssumption
    DEF Live, Pair, AddingPairs, Existing, Gens
  <2>4. Generated(Pair, EdgesBelow(Pair))
    BY <2>1, <2>3, SimpleCriterionSound
  <2>5. \A q \in EdgesBelow(Pair) :
          q \in Settled' \cup {e \in Pending' : LcmOf(e) # LcmOf(Pair)}
    BY <1>3, <1>6, <2>1 DEF EdgesBelow
  <2>6. Generated(Pair, Settled' \cup {e \in Pending' : LcmOf(e) # LcmOf(Pair)})
    BY <2>3, <2>4, <2>5, EdgesArePairs, GeneratedRestrict DEF EdgesBelow
  <2>7. Generated(Pair, (Settled \cup Pending)')
    BY <2>3, <2>4, <2>5, EdgesArePairs, GeneratedRestrict DEF EdgesBelow
  <2>8. \A q \in Pending :
          q \in (Settled \cup Pending)'
            \/ Generated(q, (Settled \cup Pending)')
    BY <1>6, <2>1, <2>7
  <2>9. EliminatedBelow' /\ SyzygiesGenerated'
    BY <1>1, <1>3, <2>1, <2>6, <2>8, SameLeads
  <2> QED
    BY <1>3, <2>2, <2>9
<1>10. CASE QueuePair
  <2>1. /\ AddingPairs /\ NextOldGen /\ mQueue' = mQueue \cup {Pair}
        /\ mEliminated' = mEliminated /\ oldGen \notin retired
    BY <1>10 DEF QueuePair, Considered
  <2>2. Inserting'
    BY <1>5, <2>1
  <2>3. Pair \in Pending'
    BY <1>1, <1>2, <2>1 DEF Pending, IsRetired, Pair
  <2>4. \A q \in Pending : q \in Pending'
    BY <1>6, <2>1, <2>3
  <2> QED
    BY <1>1, <1>3, <2>1, <2>2, <2>4, SameLeads
<1> QED
  BY <1>4, <1>7, <1>8, <1>9, <1>10 DEF AddPairs

-----------------------------------------------------------------------------
(* SPairs::pop *)

LEMMA ComputeStep ==
  ASSUME IsIdeal, IInv, TypeOK', Compute
  PROVE  IInv'
<1> USE DEF IInv
<1>1. CASE Finish \/ CallbackStops \/ BeginStep \/ GroupEnds
           \/ \E p \in group : ReduceSPoly(p)
  <2>1. /\ UNCHANGED <<basisVars, mEliminated, mQueue, treated>>
        /\ pc \notin {"addPairs", "retire", "overflow"}
        /\ pc' \notin {"addPairs", "retire", "overflow"}
    BY <1>1 DEF Finish, CallbackStops, BeginStep, GroupEnds, ReduceSPoly,
                sPairVars
  <2> QED
    BY <2>1, IdleStep
<1>2. ASSUME NEW p \in TopPairs,
             PopRetired(p) \/ PopUseless(p) \/ PopSelected(p)
      PROVE  IInv'
  <2>1. /\ pc = "pop" /\ pc' = "pop" /\ UNCHANGED <<size, lead, retired>>
        /\ mQueue' = mQueue \ {p} /\ treated \subseteq treated'
    BY <1>2 DEF PopRetired, PopUseless, PopSelected, Popping, driverVars,
                basisVars
  <2>2. p \in ExistingPairs
    BY DEF TopPairs, TypeOK
  <2>3. RetiredDivisible' /\ Settled \subseteq Settled' /\ Inserting'
    BY <2>1, RetiredSame, SettledGrows DEF Inserting
  <2>4. \A q \in Pending : q = p \/ q \in Pending'
    BY <2>1 DEF Pending, IsRetired
  <2>5. CASE PopRetired(p)
    <3>1. p \notin Pending /\ mEliminated' = mEliminated
      BY <2>1, <2>5 DEF PopRetired, Pending
    <3>2. \A q \in Pending : q \in Pending'
      BY <2>4, <3>1
    <3> QED
      BY <2>1, <2>3, <3>1, <3>2, SameLeads
  <2>6. CASE PopUseless(p)
    <3>1. /\ ~IsRetired(p) /\ AdvancedCriterion(p[1], p[2])
          /\ mEliminated' = mEliminated
      BY <2>6 DEF PopUseless
    <3>2. Generated(p, EdgesBelow(p))
      BY <2>2, <3>1, AdvancedCriterionSound
    <3>3. \A q \in EdgesBelow(p) : q \in Settled' \cup Pending'
      BY <2>3, <2>4 DEF EdgesBelow
    <3>4. Generated(p, (Settled \cup Pending)')
      BY <2>2, <3>2, <3>3, EdgesArePairs, GeneratedRestrict DEF EdgesBelow
    <3>5. \A q \in Pending :
            q \in (Settled \cup Pending)'
              \/ Generated(q, (Settled \cup Pending)')
      BY <2>4, <3>4
    <3> QED
      BY <2>1, <2>3, <3>1, <3>5, SameLeads
  <2>7. CASE PopSelected(p)
    <3>1. p \in Settled' /\ mEliminated' = mEliminated \cup {p}
      BY <2>7 DEF PopSelected, Settled
    <3>2. \A q \in Pending : q \in Settled' \cup Pending'
      BY <2>4, <3>1
    <3>3. \A q \in mEliminated' : q \in mEliminated \/ q \in Settled'
      BY <3>1
    <3> QED
      BY <2>1, <2>3, <3>2, <3>3, SameLeads
  <2> QED
    BY <1>2, <2>5, <2>6, <2>7
<1> QED
  BY <1>1, <1>2 DEF Compute

-----------------------------------------------------------------------------
(* insertPolys *)

LEMMA LeastElement ==
  ASSUME NEW T \in SUBSET Nat, T # {}
  PROVE  \E i \in T : \A j \in T : i <= j
<1>1. IsWellFoundedOn(OpToRel(<, Nat), Nat)
  BY NatLessThanWellFounded
<1>2. PICK i \in T : \A j \in T : <<j, i>> \notin OpToRel(<, Nat)
  BY <1>1, WFMin
<1>3. \A j \in T : ~(j < i)
  BY <1>2 DEF OpToRel
<1> QED
  BY <1>3

(* The pairs that are lost with r are generated by the others.  A lost pair
   (r, y) is joined through the element n that made r redundant: (n, r) is
   settled, and (n, y) is pending, or eliminated and joined by pairs of
   smaller lcm.  If one of these is lost too, it comes before (r, y). *)
LEMMA LostPairs ==
  ASSUME IsIdeal, IInv, NEW r \in toRetire, Retire(r)
  PROVE  \A q \in Pending : Generated(q, (Settled \cup Pending)')
<1> USE DEF IInv
<1> DEFINE F == (Settled \cup Pending)'
           n == newGen
           Bad == {q \in Pending : ~Generated(q, F)}
<1>1. /\ pc = "retire" /\ pc' \in {"insert", "retire"} /\ oldGen = n
      /\ UNCHANGED <<size, lead, mQueue, mEliminated, treated>>
      /\ retired' = retired \cup {r}
  BY DEF Retire, sPairVars, Inserting
<1>2. /\ n \in Live /\ r \in Live /\ n # r
      /\ n \in Existing /\ r \in Existing
      /\ Divides(lead[n], lead[r]) /\ <<n, r>> \in treated
      /\ \A i \in Live : i # n => i < n
  <2>1. /\ n \notin retired \cup toRetire
        /\ Divides(lead[n], lead[r]) /\ <<n, r>> \in treated
    BY <1>1 DEF Inserting
  <2>2. r \in Live /\ size > 0
    BY <1>1 DEF TypeOK
  <2>3. n \in Existing /\ \A i \in Existing : i # n => i < n
    BY <2>2, MaxIndexAssumption DEF TypeOK, Existing, Gens, newGen
  <2> QED
    BY <2>1, <2>2, <2>3 DEF Live
<1>3. Settled \subseteq F /\ <<n, r>> \in F
  BY <1>1, <1>2, SettledGrows DEF Settled
<1>4. /\ Pending = {q \in mQueue : ~IsRetired(q)}
      /\ \A q \in Pending : ~(r \in {q[1], q[2]}) => q \in F
  BY <1>1 DEF Pending, IsRetired
<1>5. Pending \subseteq ExistingPairs /\ Settled \subseteq ExistingPairs
  BY EdgesArePairs
<1>6. \A q \in Pending : RankOf(q) \in Nat
  BY <1>5, PairLcm, OrderAssumption DEF RankOf
<1> SUFFICES ASSUME Bad # {}
             PROVE  FALSE
  OBVIOUS
<1> HIDE DEF F, n
<1>7. PICK q \in Bad : \A x \in Bad : RankOf(q) <= RankOf(x)
  <2> DEFINE T == {RankOf(x) : x \in Bad}
  <2>1. T \in SUBSET Nat /\ T # {}
    BY <1>6
  <2> HIDE DEF T
  <2>2. \E k \in T : \A l \in T : k <= l
    BY <2>1, LeastElement
  <2> QED
    BY <2>2 DEF T
<1>8. q \in ExistingPairs /\ q \in Pending /\ ~Generated(q, F) /\ ~IsRetired(q)
  BY <1>4, <1>5, <1>7
<1>9. r \in {q[1], q[2]}
  BY <1>4, <1>8, GeneratedEdge
<1>10. PICK y \in Live : y # r /\ q = Unordered(r, y)
  <2>1. q[1] \in Live /\ q[2] \in Live /\ q[1] # q[2]
    BY <1>8, PairLcm, MaxIndexAssumption DEF IsRetired, Live, Existing, Gens
  <2>2. Unordered(q[1], q[2]) = q /\ Unordered(q[2], q[1]) = q
    BY <1>8, PairLcm, UnorderedOfPair, UnorderedSymmetric, MaxIndexAssumption
    DEF Existing, Gens
  <2> QED
    BY <1>9, <2>1, <2>2
<1>11. /\ lead[n] \in Mono /\ lead[r] \in Mono /\ LcmOf(q) \in Mono
       /\ y \in Existing
  BY <1>2, <1>8, PairLcm DEF TypeOK, Existing, Live
<1>12. r \in Nodes(q) /\ y \in Nodes(q) /\ n \in Nodes(q)
  <2>1. r \in Nodes(q) /\ y \in Nodes(q)
    BY <1>8, <1>10, PairNodes DEF Unordered
  <2>2. Divides(lead[n], LcmOf(q))
    BY <1>2, <1>11, <2>1, DividesTransitive DEF Nodes
  <2> QED
    BY <1>2, <2>1, <2>2 DEF Nodes
<1>13. Unordered(r, n) = <<n, r>> /\ Unordered(n, r) = <<n, r>>
  BY <1>2, MaxIndexAssumption DEF Unordered, Existing, Gens
<1>14. Connected(r, n, Nodes(q), F)
  BY <1>3, <1>12, <1>13, ConnectedEdge
<1>15. CASE y = n
  BY <1>3, <1>8, <1>10, <1>13, <1>15, GeneratedEdge
<1>16. CASE y # n
  <2> DEFINE e == <<n, y>>
  <2>1. y < n /\ Unordered(n, y) = e
    BY <1>2, <1>11, <1>16, MaxIndexAssumption DEF Unordered, Existing, Gens
  <2>2. e \in ExistingPairs /\ Divides(LcmOf(e), LcmOf(q))
    BY <1>8, <1>12, <1>16, <2>1, NodesPair
  <2>3. ~IsRetired(e)
    BY <1>2 DEF IsRetired, Live
  <2>4. e \in mQueue \/ e \in mEliminated
    BY <1>1, <2>1 DEF Inserting, n
  <2> HIDE DEF e
  <2>5. ASSUME e \in mQueue
        PROVE  Generated(e, F)
    <3>1. e \in Pending /\ ~(r \in {e[1], e[2]})
      BY <1>2, <1>4, <1>10, <2>3, <2>5 DEF e
    <3>2. e \in F
      BY <1>4, <3>1
    <3> QED
      BY <2>2, <3>2, GeneratedEdge
  <2>6. ASSUME e \in mEliminated
        PROVE  Generated(e, F)
    <3>1. Generated(e, EdgesBelow(e)) /\ EdgesBelow(e) \subseteq ExistingPairs
      BY <1>5, <2>3, <2>6 DEF EliminatedBelow, EdgesBelow
    <3>2. ASSUME NEW x \in EdgesBelow(e), Divides(LcmOf(x), LcmOf(e))
          PROVE  Generated(x, F)
      <4>1. CASE x \in Settled
        BY <1>3, <1>5, <4>1, GeneratedEdge
      <4>2. CASE x \notin Settled
        <5>1. x \in Pending /\ LcmOf(x) # LcmOf(e)
          BY <4>2 DEF EdgesBelow
        <5>2. LcmOf(x) \in Mono /\ LcmOf(e) \in Mono
          BY <1>5, <2>2, <5>1, PairLcm
        <5>3. RankOf(x) < RankOf(e)
          BY <3>2, <5>1, <5>2, ProperDivisorSmaller DEF RankOf
        <5>4. RankOf(e) <= RankOf(q)
          BY <1>11, <2>2, <5>2, OrderAssumption DEF RankOf, Divides
        <5>5. RankOf(x) \in Nat /\ RankOf(e) \in Nat /\ RankOf(q) \in Nat
          BY <1>11, <5>2, OrderAssumption DEF RankOf
        <5>6. x \notin Bad
          BY <1>7, <5>3, <5>4, <5>5
        <5> QED
          BY <5>1, <5>6
      <4> QED
        BY <4>1, <4>2
    <3> QED
      BY <2>2, <3>1, <3>2, GeneratedReplace
  <2>7. Generated(e, F)
    BY <2>4, <2>5, <2>6
  <2>8. Connected(n, y, Nodes(q), F)
    BY <1>8, <1>12, <1>16, <2>1, <2>7, GeneratedAbove
  <2>9. Connected(r, y, Nodes(q), F)
    BY <1>14, <2>8, ConnectedTransitive
  <2>10. Connected(y, r, Nodes(q), F)
    BY <1>8, <1>12, <2>9, PairNodes, ConnectedSymmetric
  <2>11. Connected(q[1], q[2], Nodes(q), F)
    BY <1>10, <2>9, <2>10 DEF Unordered
  <2> QED
    BY <1>8, <2>11, GeneratedDef
<1> QED
  BY <1>15, <1>16

LEMMA RetireStep ==
  ASSUME IsIdeal, IInv, TypeOK', NEW r \in toRetire, Retire(r)
  PROVE  IInv'
<1> USE DEF IInv
<1>1. /\ pc = "retire" /\ pc' \in {"insert", "retire"} /\ oldGen = newGen
      /\ UNCHANGED <<size, lead, mQueue, mEliminated, treated, oldGen>>
      /\ retired' = retired \cup {r} /\ toRetire' = toRetire \ {r}
      /\ newGen' = newGen
  BY DEF Retire, sPairVars, Inserting, newGen
<1>2. Live' = Live \ {r}
  BY <1>1 DEF Live, Existing
<1>3. Inserting'
  BY <1>1, <1>2 DEF Inserting
<1>4. newGen \in Live' /\ Divides(lead[newGen], lead[r])
  <2>1. newGen \in Existing
    BY <1>1, MaxIndexAssumption DEF TypeOK, newGen, Existing, Gens
  <2> QED
    BY <1>1, <1>2, <2>1 DEF Inserting, Live
<1>5. ASSUME NEW i \in retired'
      PROVE  \E j \in Live' : Divides(lead[j], lead[i])
  <2>1. CASE i = r
    BY <1>4, <2>1
  <2>2. CASE i \in retired
    <3>1. PICK j \in Live : Divides(lead[j], lead[i])
      BY <2>2 DEF RetiredDivisible
    <3>2. CASE j # r
      BY <1>2, <3>1, <3>2
    <3>3. CASE j = r
      <4>1. lead[newGen] \in Mono /\ lead[r] \in Mono /\ lead[i] \in Mono
        BY <1>2, <1>4, <2>2 DEF TypeOK, Live, Existing
      <4> QED
        BY <1>4, <3>1, <3>3, <4>1, DividesTransitive
    <3> QED
      BY <3>2, <3>3
  <2> QED
    BY <1>1, <2>1, <2>2
<1>6. RetiredDivisible'
  BY <1>1, <1>5 DEF RetiredDivisible
<1>7. Settled \subseteq Settled'
  BY <1>1, SettledGrows
<1>8. EliminatedBelow' /\ SyzygiesGenerated'
  BY <1>1, <1>7, LostPairs, SameLeads
<1> QED
  BY <1>3, <1>6, <1>8

(* A new element: its pairs with live elements are pending, and those with
   retired elements are joined through a live divisor. *)
LEMMA InsertElementStep ==
  ASSUME IsIdeal, IInv, TypeOK', pc = "insert",
         NEW m \in Mono, InsertElement(m)
  PROVE  IInv'
<1> USE DEF IInv
<1> DEFINE n == size
           E2 == (Settled \cup Pending)'
           Lcm2(p) == Lcm(lead'[p[1]], lead'[p[2]])
           Nodes2(p) == {i \in Existing' : Divides(lead'[i], Lcm2(p))}
<1>1. /\ n \in Gens /\ size' = n + 1 /\ n \in Nat
      /\ lead'[n] = m /\ \A i \in Existing : lead'[i] = lead[i]
      /\ UNCHANGED <<retired, mQueue>>
      /\ pc' \in {"addPairs", "overflow"} /\ oldGen' = 0
      /\ toRetire' \subseteq Multiples(m)
      /\ mEliminated' = mEliminated \cup {<<n, i>> : i \in toRetire'}
      /\ treated' = treated \cup {<<n, i>> : i \in toRetire'}
  BY MaxIndexAssumption DEF InsertElement, TypeOK, Gens, Existing
<1>2. /\ Existing' = Existing \cup {n} /\ n \notin Existing
      /\ \A i \in Existing : i \in Nat /\ i < n
  <2>1. Gens \subseteq Nat
    BY MaxIndexAssumption DEF Gens
  <2>2. n \in Gens /\ \A i \in Gens : i < size' <=> i = n \/ i < n
    BY <1>1, <2>1
  <2>3. \A i \in Gens : i \in Nat /\ ~(n < n)
    BY <2>1, <2>2
  <2> QED
    BY <2>2, <2>3 DEF Existing
<1>3. /\ Live' = Live \cup {n} /\ Live \subseteq Existing
      /\ n \notin retired /\ retired \subseteq Existing
  BY <1>1, <1>2 DEF Live, TypeOK
<1>4. /\ ExistingPairs \subseteq ExistingPairs'
      /\ \A p \in ExistingPairs' : \/ p \in ExistingPairs
                                   \/ p[1] = n /\ p[2] \in Existing
  BY <1>1, <1>2 DEF ExistingPairs
<1>5. \A i \in Existing' : lead'[i] \in Mono
  BY DEF TypeOK, Existing
<1>6. \A p \in ExistingPairs : p[1] \in Existing /\ p[2] \in Existing
  BY DEF ExistingPairs
<1>7. \A p \in ExistingPairs : Lcm2(p) = LcmOf(p)
  BY <1>1, <1>6 DEF LcmOf
<1>8. Settled \subseteq Settled'
  <2>1. treated \subseteq treated'
    BY <1>1
  <2> QED
    BY <1>1, <1>4, <1>6, <2>1 DEF Settled
<1>9. Pending \subseteq Pending'
  BY <1>1 DEF Pending, IsRetired
<1>10. \A i \in Live : <<n, i>> \in Pending'
  <2>1. ASSUME NEW i \in Live
        PROVE  <<n, i>> \in ExistingPairs' /\ i >= 0 /\ i \notin retired'
    BY <1>1, <1>2, <1>3 DEF ExistingPairs, Live
  <2>2. newGen' = n
    BY <1>1 DEF newGen
  <2> QED
    BY <1>1, <2>1, <2>2 DEF Pending
<1>11. Inserting'
  <2>1. newGen' = n /\ n \notin retired' \cup toRetire'
    BY <1>1, <1>2, <1>3 DEF newGen, Multiples
  <2>2. \A r \in toRetire' : Divides(lead'[n], lead'[r]) /\ <<n, r>> \in treated'
    BY <1>1, <1>3 DEF Multiples
  <2>3. \A i \in Live' : ~(i < 0)
    BY <1>1, <1>2, <1>3
  <2> QED
    BY <1>1, <2>1, <2>2, <2>3 DEF Inserting
<1>12. RetiredDivisible'
  BY <1>1, <1>3 DEF RetiredDivisible
<1>13. ASSUME NEW p \in ExistingPairs, NEW E, NEW F, E \subseteq F, Generated(p, E)
       PROVE  Connected(p[1], p[2], Nodes2(p), F)
  <2>1. Nodes(p) \subseteq Nodes2(p)
    BY <1>1, <1>2, <1>7 DEF Nodes
  <2>2. p[1] \in Nodes(p) /\ Connected(p[1], p[2], Nodes(p), E)
    BY <1>13, PairNodes, GeneratedDef
  <2> HIDE DEF Nodes2
  <2> QED
    BY <1>13, <2>1, <2>2, ConnectedMonotone
<1>14. ASSUME NEW i \in Existing
       PROVE  Connected(n, i, Nodes2(<<n, i>>), E2)
  <2> DEFINE V == Nodes2(<<n, i>>)
  <2>1. /\ lead'[n] \in Mono /\ lead'[i] \in Mono
        /\ lead'[n].comp = lead'[i].comp
    BY <1>2, <1>5 DEF IsIdeal, Mono
  <2>2. /\ Divides(lead'[n], Lcm2(<<n, i>>)) /\ Divides(lead'[i], Lcm2(<<n, i>>))
        /\ Lcm2(<<n, i>>) \in Mono
    BY <2>1, LcmMultiple, LcmMono
  <2>3. n \in V /\ i \in V /\ V \subseteq Nat
    BY <1>1, <1>2, <2>2
  <2>4. \A j \in Existing : Unordered(n, j) = <<n, j>>
    BY <1>1, <1>2 DEF Unordered
  <2>5. CASE i \in Live
    <3> HIDE DEF Nodes2
    <3> QED
      BY <1>10, <2>3, <2>4, <2>5, ConnectedEdge
  <2>6. CASE i \notin Live
    <3>1. PICK j \in Live : Divides(lead[j], lead[i])
      BY <2>6 DEF RetiredDivisible, Live
    <3>2. /\ j \in Existing /\ i # j /\ lead[i] \in Mono /\ lead[j] \in Mono
          /\ lead'[i] = lead[i] /\ lead'[j] = lead[j]
      BY <1>1, <1>3, <2>6, SameComponent
    <3> DEFINE q == Unordered(i, j)
    <3>3. /\ q \in ExistingPairs /\ q \in {<<i, j>>, <<j, i>>}
          /\ LcmOf(q) = Lcm(lead[i], lead[j])
      BY <3>2, UnorderedPair
    <3> HIDE DEF q
    <3>4. Divides(LcmOf(q), lead[i]) /\ LcmOf(q) \in Mono
      BY <3>1, <3>2, <3>3, LcmLeast, DividesReflexive, PairLcm
    <3>5. Divides(LcmOf(q), Lcm2(<<n, i>>))
      BY <2>2, <3>2, <3>4, DividesTransitive
    <3>6. Nodes(q) \subseteq V
      <4> SUFFICES ASSUME NEW k \in Nodes(q)
                   PROVE  k \in V
        OBVIOUS
      <4>1. k \in Existing /\ lead[k] \in Mono /\ Divides(lead[k], LcmOf(q))
        BY DEF Nodes, TypeOK, Existing
      <4>2. Divides(lead[k], Lcm2(<<n, i>>))
        BY <2>2, <3>4, <3>5, <4>1, DividesTransitive
      <4> QED
        BY <1>1, <1>2, <4>1, <4>2
    <3>7. Generated(q, Settled \cup Pending)
      BY <3>3, PairLcm, SameComponent DEF SyzygiesGenerated
    <3>8. q[1] \in Nodes(q) /\ q[2] \in Nodes(q)
      BY <3>3, PairNodes
    <3>9. Settled \cup Pending \subseteq E2
      BY <1>8, <1>9
    <3> HIDE DEF V, E2
    <3>10. Connected(q[1], q[2], V, E2)
      BY <3>6, <3>7, <3>8, <3>9, GeneratedDef, ConnectedMonotone
    <3>11. Connected(q[2], q[1], V, E2) /\ q[1] \in V /\ q[2] \in V
      BY <2>3, <3>6, <3>8, <3>10, ConnectedSymmetric
    <3>12. Connected(j, i, V, E2) /\ j \in V
      BY <3>3, <3>10, <3>11
    <3>13. Connected(n, j, V, E2)
      BY <1>10, <2>3, <2>4, <3>2, <3>12, ConnectedEdge DEF E2
    <3>14. Connected(n, i, V, E2)
      BY <3>12, <3>13, ConnectedTransitive
    <3> QED
      BY <3>14 DEF V
  <2> QED
    BY <2>5, <2>6
<1>15. ASSUME NEW p \in ExistingPairs'
       PROVE  Connected(p[1], p[2], Nodes2(p), E2)
  <2>1. CASE p \in ExistingPairs
    <3>1. Generated(p, Settled \cup Pending)
      BY <2>1, PairLcm, SameComponent DEF SyzygiesGenerated
    <3>2. Settled \cup Pending \subseteq E2
      BY <1>8, <1>9
    <3> HIDE DEF E2, Nodes2
    <3> QED
      BY <1>13, <2>1, <3>1, <3>2
  <2>2. CASE p[1] = n /\ p[2] \in Existing
    <3>1. Connected(n, p[2], Nodes2(<<n, p[2]>>), E2)
      BY <1>14, <2>2
    <3>2. Nodes2(<<n, p[2]>>) = Nodes2(p)
      BY <2>2
    <3> QED
      BY <2>2, <3>1, <3>2
  <2> QED
    BY <1>4, <2>1, <2>2
<1>16. SyzygiesGenerated'
  BY <1>15 DEF SyzygiesGenerated, Generated, LcmOf
<1>17. ASSUME NEW p \in mEliminated', ~IsRetired(p)'
       PROVE  Connected(p[1], p[2], Nodes2(p), EdgesBelow(p)')
  <2>1. CASE p \in mEliminated
    <3>1. p \in ExistingPairs /\ Generated(p, EdgesBelow(p))
      BY <1>1, <1>17, <2>1 DEF EliminatedBelow, TypeOK, IsRetired
    <3>2. \A q \in Pending : q \in ExistingPairs
      BY EdgesArePairs
    <3>3. \A q \in Pending : LcmOf(q)' = LcmOf(q)
      BY <1>7, <3>2 DEF LcmOf
    <3>4. LcmOf(p)' = LcmOf(p)
      BY <1>7, <3>1 DEF LcmOf
    <3>5. EdgesBelow(p) \subseteq EdgesBelow(p)'
      BY <1>8, <1>9, <3>3, <3>4 DEF EdgesBelow
    <3> HIDE DEF Nodes2
    <3> QED
      BY <1>13, <3>1, <3>5
  <2>2. CASE p \in {<<n, i>> : i \in toRetire'}
    <3>1. PICK i \in toRetire' : p = <<n, i>>
      BY <2>2
    <3>2. i \in Existing /\ p \in EdgesBelow(p)'
      BY <1>1, <1>3, <2>2, <3>1 DEF Multiples, EdgesBelow, Settled
    <3>3. Unordered(n, i) = p
      BY <1>1, <1>2, <3>1, <3>2 DEF Unordered
    <3>4. n \in Nodes2(p) /\ i \in Nodes2(p)
      <4>1. lead'[n] \in Mono /\ lead'[i] \in Mono /\ lead'[n].comp = lead'[i].comp
        BY <1>2, <1>5, <3>2 DEF IsIdeal, Mono
      <4> QED
        BY <1>2, <3>1, <3>2, <4>1, LcmMultiple
    <3> HIDE DEF Nodes2
    <3>5. Connected(n, i, Nodes2(p), EdgesBelow(p)')
      BY <3>2, <3>3, <3>4, ConnectedEdge
    <3> QED
      BY <3>1, <3>5
  <2> QED
    BY <1>1, <2>1, <2>2
<1>18. EliminatedBelow'
  BY <1>17 DEF EliminatedBelow, Generated, LcmOf
<1> QED
  BY <1>11, <1>12, <1>16, <1>18

LEMMA InsertPolysStep ==
  ASSUME IsIdeal, IInv, TypeOK', InsertPolys
  PROVE  IInv'
<1>1. ASSUME NEW m \in Mono, Postpone(m) \/ ReducePoly(m)
      PROVE  IInv'
  <2>1. /\ UNCHANGED <<basisVars, mEliminated, mQueue, treated>>
        /\ pc \in {"insert", "reduce"} /\ pc' \in {"insert", "reduce"}
    BY <1>1 DEF Postpone, ReducePoly, sPairVars
  <2> QED
    BY <2>1, IdleStep
<1>2. ASSUME NEW m \in Mono, InsertIrreducible(m)
      PROVE  IInv'
  BY <1>2, InsertElementStep DEF InsertIrreducible
<1>3. ASSUME NEW m \in Mono, ReduceAndInsert(m)
      PROVE  IInv'
  <2>1. pc = "insert"
    BY <1>3 DEF ReduceAndInsert
  <2>2. CASE UNCHANGED <<basisVars, sPairVars, pc, toRetire, oldGen, treated>>
    BY <2>1, <2>2, IdleStep DEF sPairVars
  <2>3. ASSUME NEW r \in Remainders(m), InsertElement(r)
        PROVE  IInv'
    BY <2>1, <2>3, InsertElementStep DEF Remainders
  <2> QED
    BY <1>3, <2>2, <2>3 DEF ReduceAndInsert
<1>4. CASE InsertLoopEnds
  <2>1. /\ UNCHANGED <<basisVars, mEliminated, mQueue, treated>>
        /\ pc = "insert" /\ pc' \in {"reduce", "done", "head"}
    BY <1>4 DEF InsertLoopEnds, sPairVars
  <2> QED
    BY <2>1, IdleStep
<1>5. ASSUME NEW r \in toRetire, Retire(r)
      PROVE  IInv'
  BY <1>5, RetireStep
<1> QED
  BY <1>1, <1>2, <1>3, <1>4, <1>5 DEF InsertPolys

-----------------------------------------------------------------------------
(* The invariant *)

LEMMA InitIInv == Init => IInv
<1> SUFFICES ASSUME Init
             PROVE  IInv
  OBVIOUS
<1>1. TypeOK /\ Existing = {} /\ Inserting
  BY InitType DEF Init, Existing, Gens, Inserting
<1>2. ExistingPairs = {}
  BY <1>1 DEF ExistingPairs
<1> QED
  BY <1>1, <1>2
  DEF Init, IInv, RetiredDivisible, EliminatedBelow, SyzygiesGenerated

LEMMA NextIInv ==
  ASSUME IsIdeal, IInv, [Next]_vars
  PROVE  IInv'
<1>1. TypeOK'
  <2>1. CASE UNCHANGED vars
    BY <2>1, SameBasis DEF vars, basisVars, sPairVars, driverVars, TypeOK, IInv
  <2> QED
    BY <2>1, InsertPolysType, AddPairsType, ComputeType DEF Next, Returned, IInv
<1>2. CASE UNCHANGED vars
  <2>1. /\ UNCHANGED <<size, lead, retired, mEliminated, mQueue, treated>>
        /\ UNCHANGED <<pc, oldGen, toRetire>>
        /\ ExistingPairs' = ExistingPairs /\ newGen' = newGen /\ Live' = Live
    BY <1>2, SameBasis DEF vars, basisVars, sPairVars, driverVars
  <2>2. Inserting' /\ RetiredDivisible'
    BY <2>1 DEF IInv, Inserting, RetiredDivisible
  <2>3. Pending' = Pending /\ Settled \subseteq Settled'
    BY <2>1, SettledGrows DEF Pending, IsRetired
  <2>4. EliminatedBelow' /\ SyzygiesGenerated'
    BY <1>1, <2>1, <2>3, SameLeads DEF IInv
  <2> QED
    BY <1>1, <2>2, <2>4 DEF IInv
<1> QED
  BY <1>1, <1>2, InsertPolysStep, AddPairsStep, ComputeStep DEF Next, Returned

(* Over an ideal, SPairs eliminates no S-pair without cause: in every state
   the settled and the pending S-pairs generate the syzygies of all elements
   ever inserted, for any ring, order, input, group size and options. *)
THEOREM CriteriaSound ==
  ASSUME IsIdeal
  PROVE  Spec => []SyzygiesGenerated
<1>1. IInv /\ [Next]_vars => IInv'
  BY NextIInv
<1>2. IInv => SyzygiesGenerated
  BY DEF IInv
<1> QED
  BY <1>1, <1>2, InitIInv, PTL DEF Spec

(* When computeGrobnerBasis has run to its end over an ideal, the S-polynomials
   that were reduced and the pairs with relatively prime leads generate all
   syzygies: this is Buchberger's criterion for the elements it returns. *)
THEOREM ResultSatisfiesCriterion ==
  ASSUME IsIdeal
  PROVE  Spec => [](pc = "done" /\ mQueue = {} =>
                      \A p \in ExistingPairs : Generated(p, Settled))
<1>1. IInv /\ [Next]_vars => IInv'
  BY NextIInv
<1>2. IInv => (pc = "done" /\ mQueue = {} =>
                 \A p \in ExistingPairs : Generated(p, Settled))
  <2> SUFFICES ASSUME IInv, pc = "done", mQueue = {}, NEW p \in ExistingPairs
               PROVE  Generated(p, Settled)
    OBVIOUS
  <2>1. Pending = {}
    BY DEF Pending
  <2>2. Generated(p, Settled \cup Pending)
    BY PairLcm, SameComponent DEF IInv, SyzygiesGenerated
  <2> QED
    BY <2>1, <2>2
<1> QED
  BY <1>1, <1>2, InitIInv, PTL DEF Spec
-----------------------------------------------------------------------------
(***************************************************************************)
(* What ClassicGBAlg knows about its basis and its queue is accurate: live *)
(* leads are minimal, their flags tell the truth, no S-pair is handed out  *)
(* twice, groups are as the reducer expects them, and the fast forms of    *)
(* the criteria decide what the slow forms of the debug build decide.      *)
(***************************************************************************)

(* Only insertPolys fills toRetire, and it is empty before the next insertion. *)
RetirementsDone ==
  pc \notin {"addPairs", "retire", "overflow"} => toRetire = {}

(* The newest element is irreducible, and makes redundant what it retires. *)
NewestIrreducible ==
  pc \in {"addPairs", "retire"} =>
    /\ newGen \in Live \ toRetire
    /\ newGen \notin notMinimal
    /\ \A r \in toRetire : Divides(lead[newGen], lead[r])

(* The column of the newest element: its pairs with older elements from oldGen
   on have not been looked at, but for those that auto top reduction treats. *)
ColumnInProgress ==
  pc = "addPairs" =>
    /\ \A p \in mQueue : p[1] = newGen => p[2] < oldGen
    /\ \A p \in mEliminated : p[1] = newGen => p[2] < oldGen \/ p[2] \in toRetire

(* addPairs queues pairs of one component. *)
QueuedInComponent ==
  \A p \in mQueue : lead[p[1]].comp = lead[p[2]].comp

BasisInv ==
  /\ TypeOK
  /\ QueuedInComponent
  /\ RetirementsDone
  /\ NewestIrreducible
  /\ ColumnInProgress
  /\ PairsReducedOnce
  /\ LiveLeadsMinimal
  /\ LeadMinimalAccurate
  /\ IsFiniteSet(group)
  /\ GroupIsSound

-----------------------------------------------------------------------------
(* Steps that leave the basis, the queue and the column alone *)
LEMMA BasisUntouched ==
  ASSUME BasisInv, UNCHANGED <<basisVars, mEliminated, mQueue, toRetire, oldGen>>,
         autoTop' => autoTop,
         pc' \in {"addPairs", "retire"} => pc' = pc,
         pc' \notin {"addPairs", "retire", "overflow"} => toRetire = {}
  PROVE  /\ RetirementsDone' /\ NewestIrreducible' /\ ColumnInProgress'
         /\ QueuedInComponent'
         /\ PairsReducedOnce' /\ LiveLeadsMinimal' /\ LeadMinimalAccurate'
<1>1. Live' = Live /\ newGen' = newGen
  BY SameBasis
<1>2. RetirementsDone' /\ NewestIrreducible' /\ ColumnInProgress'
  BY <1>1 DEF BasisInv, RetirementsDone, NewestIrreducible, ColumnInProgress, basisVars
<1>3. PairsReducedOnce' /\ QueuedInComponent'
  BY DEF BasisInv, PairsReducedOnce, QueuedInComponent, IsRetired, basisVars
<1>4. LiveLeadsMinimal' /\ LeadMinimalAccurate'
  BY <1>1 DEF BasisInv, LiveLeadsMinimal, LeadMinimalAccurate, basisVars
<1> QED
  BY <1>2, <1>3, <1>4

(* A group is sound until the reducer has it. *)
LEMMA GroupUntouched ==
  ASSUME BasisInv, group' \subseteq group, w' = w, UNCHANGED <<lead, retired>>,
         pc' \in {"pop", "reduceS"} => pc \in {"pop", "reduceS"}
  PROVE  IsFiniteSet(group') /\ GroupIsSound'
<1>1. IsFiniteSet(group) /\ IsFiniteSet(group') /\ Cardinality(group') <= Cardinality(group)
  BY FS_Subset DEF BasisInv
<1>2. Cardinality(group) \in Nat /\ Cardinality(group') \in Nat
  BY <1>1, FS_CardinalityType
<1>3. \A p : LcmOf(p)' = LcmOf(p) /\ (IsRetired(p)' <=> IsRetired(p))
  BY DEF LcmOf, IsRetired
<1> QED
  BY <1>1, <1>2, <1>3, OptionsAssumption DEF BasisInv, GroupIsSound

-----------------------------------------------------------------------------
(* PolyBasis::insert: the new lead is not divisible by a live one, and every
   live multiple of it loses its flag and, under auto top reduction, is going
   to be retired. *)
LEMMA InsertElementBasis ==
  ASSUME BasisInv, TypeOK', pc = "insert", autoTop' <=> autoTop,
         NEW m \in Mono, ~Reducible(m), InsertElement(m), UNCHANGED <<group, w>>
  PROVE  BasisInv'
<1> DEFINE n == size
<1> USE DEF BasisInv
<1>1. /\ n \in Gens /\ n \in Nat /\ size' = n + 1 /\ newGen' = n
      /\ lead'[n] = m /\ \A i \in Existing : lead'[i] = lead[i]
      /\ UNCHANGED <<retired, mQueue>>
      /\ pc' \in {"addPairs", "overflow"} /\ oldGen' = 0
      /\ toRetire' = IF autoTop THEN Multiples(m) ELSE {}
      /\ notMinimal' = notMinimal \cup Multiples(m)
      /\ mEliminated' = mEliminated \cup {<<n, i>> : i \in toRetire'}
  BY MaxIndexAssumption DEF InsertElement, TypeOK, Gens, Existing, newGen
<1>2. /\ Existing' = Existing \cup {n} /\ n \notin Existing
      /\ \A i \in Existing : i \in Nat /\ i < n
  <2>1. Gens \subseteq Nat
    BY MaxIndexAssumption DEF Gens
  <2>2. \A i \in Nat : i < n + 1 <=> i = n \/ i < n
    BY <1>1
  <2>3. n \in Gens /\ ~(n < n) /\ size = n
        /\ \A i \in Gens : i \in Nat /\ (i < size' <=> i = n \/ i < n)
    BY <1>1, <2>1, <2>2
  <2> QED
    BY <2>3 DEF Existing
<1>3. /\ Live' = Live \cup {n} /\ Live \subseteq Existing /\ n \notin Live
      /\ n \notin retired /\ retired \subseteq Existing /\ notMinimal \subseteq Existing
      /\ Multiples(m) \subseteq Live
  BY <1>1, <1>2 DEF Live, TypeOK, Multiples
<1>4. toRetire = {}
  BY DEF RetirementsDone
<1>5. RetirementsDone'
  BY <1>1 DEF RetirementsDone
<1>6. NewestIrreducible'
  BY <1>1, <1>2, <1>3 DEF NewestIrreducible, Multiples
<1>7. \A p \in ExistingPairs : p[1] \in Existing /\ p[1] # n
  BY <1>2 DEF ExistingPairs
<1>8. ColumnInProgress'
  <2>1. \A p \in mQueue : p[1] # n
    BY <1>7 DEF TypeOK
  <2>2. \A p \in mEliminated' : p[1] = n => p[2] \in toRetire'
    BY <1>1, <1>7 DEF TypeOK
  <2> QED
    BY <1>1, <2>1, <2>2 DEF ColumnInProgress
<1>9. PairsReducedOnce'
  <2>1. \A p \in mQueue' \cap mEliminated' : p \in mQueue \cap mEliminated
    BY <1>1, <1>7 DEF TypeOK
  <2> QED
    BY <1>1, <1>4, <2>1 DEF PairsReducedOnce, IsRetired
<1>10. LiveLeadsMinimal'
  <2> SUFFICES ASSUME autoTop, NEW i \in Live', NEW j \in Live', i # j,
                      Divides(lead'[i], lead'[j])
               PROVE  j \in toRetire'
    BY DEF LiveLeadsMinimal
  <2>1. CASE i = n
    BY <1>1, <1>3, <2>1 DEF Multiples
  <2>2. CASE j = n
    BY <1>1, <1>3, <2>2 DEF Reducible, Divisors
  <2>3. CASE i \in Live /\ j \in Live
    BY <1>1, <1>3, <1>4, <2>3 DEF LiveLeadsMinimal
  <2> QED
    BY <1>3, <2>1, <2>2, <2>3
<1>11. LeadMinimalAccurate'
  <2> SUFFICES ASSUME NEW i \in Live'
               PROVE  i \in notMinimal' <=>
                        \E j \in Live' \ {i} : Divides(lead'[j], lead'[i])
    BY DEF LeadMinimalAccurate
  <2>1. CASE i = n
    <3>1. i \notin notMinimal'
      BY <1>1, <1>2, <1>3, <2>1
    <3>2. ~\E j \in Live : Divides(lead'[j], lead'[i])
      BY <1>1, <1>3, <2>1 DEF Reducible, Divisors
    <3> QED
      BY <1>3, <2>1, <3>1, <3>2
  <2>2. CASE i \in Live
    <3>1. i \in Multiples(m) <=> Divides(lead'[n], lead'[i])
      BY <1>1, <1>3, <2>2 DEF Multiples
    <3>2. i \in notMinimal <=> \E j \in Live \ {i} : Divides(lead'[j], lead'[i])
      BY <1>1, <1>3, <2>2 DEF LeadMinimalAccurate
    <3> QED
      BY <1>1, <1>3, <2>2, <3>1, <3>2
  <2> QED
    BY <1>3, <2>1, <2>2
<1>12. QueuedInComponent'
  <2>1. \A p \in ExistingPairs : p[1] \in Existing /\ p[2] \in Existing
    BY DEF ExistingPairs
  <2> QED
    BY <1>1, <2>1 DEF QueuedInComponent, TypeOK
<1>13. IsFiniteSet(group') /\ GroupIsSound'
  BY <1>1 DEF GroupIsSound
<1> QED
  BY <1>5, <1>6, <1>8, <1>9, <1>10, <1>11, <1>12, <1>13

(* A retired element takes no flag with it: what it divided, the newest
   element divides. *)
LEMMA RetireBasis ==
  ASSUME BasisInv, TypeOK', NEW r \in toRetire, Retire(r)
  PROVE  BasisInv'
<1> USE DEF BasisInv
<1>1. /\ pc = "retire" /\ pc' \in {"insert", "retire"}
      /\ UNCHANGED <<size, lead, notMinimal, mQueue, mEliminated, oldGen, group, w, computing>>
      /\ retired' = retired \cup {r} /\ toRetire' = toRetire \ {r}
      /\ pc' = "insert" => toRetire' = {}
      /\ newGen' = newGen /\ Existing' = Existing /\ (autoTop' <=> autoTop)
  BY DEF Retire, sPairVars, newGen, Existing, autoTop
<1>2. /\ Live' = Live \ {r} /\ newGen \in Live' /\ newGen \notin notMinimal
      /\ newGen # r /\ Divides(lead[newGen], lead[r]) /\ r \in Live
  BY <1>1 DEF Live, NewestIrreducible, TypeOK
<1>3. RetirementsDone' /\ NewestIrreducible' /\ ColumnInProgress' /\ QueuedInComponent'
  BY <1>1, <1>2 DEF RetirementsDone, NewestIrreducible, ColumnInProgress, QueuedInComponent
<1>4. PairsReducedOnce' /\ LiveLeadsMinimal'
  BY <1>1, <1>2 DEF PairsReducedOnce, IsRetired, LiveLeadsMinimal
<1>5. LeadMinimalAccurate'
  <2> SUFFICES ASSUME NEW i \in Live'
               PROVE  i \in notMinimal <=>
                        \E j \in Live' \ {i} : Divides(lead[j], lead[i])
    BY <1>1 DEF LeadMinimalAccurate
  <2>1. i \in notMinimal <=> \E j \in Live \ {i} : Divides(lead[j], lead[i])
    BY <1>2 DEF LeadMinimalAccurate
  <2>2. ASSUME i \in notMinimal, Divides(lead[r], lead[i])
        PROVE  \E j \in Live' \ {i} : Divides(lead[j], lead[i])
    <3>1. lead[newGen] \in Mono /\ lead[r] \in Mono /\ lead[i] \in Mono
      BY <1>2 DEF TypeOK, Live, Existing
    <3>2. Divides(lead[newGen], lead[i])
      BY <1>2, <2>2, <3>1, DividesTransitive
    <3> QED
      BY <1>2, <2>2, <3>2
  <2> QED
    BY <1>2, <2>1, <2>2
<1>6. IsFiniteSet(group') /\ GroupIsSound'
  BY <1>1 DEF GroupIsSound
<1> QED
  BY <1>3, <1>4, <1>5, <1>6

LEMMA InsertPolysBasis ==
  ASSUME BasisInv, TypeOK', InsertPolys
  PROVE  BasisInv'
<1> USE DEF BasisInv
<1>1. ASSUME UNCHANGED <<basisVars, sPairVars, toRetire, oldGen, group, w>>,
             autoTop' => autoTop,
             pc \in {"insert", "reduce"}, pc' \in {"insert", "reduce", "done", "head"}
      PROVE  BasisInv'
  <2>1. toRetire = {}
    BY <1>1 DEF RetirementsDone
  <2> QED
    BY <1>1, <2>1, BasisUntouched, GroupUntouched DEF sPairVars, basisVars
<1>2. ASSUME NEW m \in Mono, Postpone(m) \/ ReducePoly(m)
      PROVE  BasisInv'
  BY <1>1, <1>2 DEF Postpone, ReducePoly, autoTop
<1>3. ASSUME NEW m \in Mono, InsertIrreducible(m)
      PROVE  BasisInv'
  BY <1>3, InsertElementBasis DEF InsertIrreducible, autoTop
<1>4. ASSUME NEW m \in Mono, ReduceAndInsert(m)
      PROVE  BasisInv'
  <2>1. CASE UNCHANGED <<basisVars, sPairVars, pc, toRetire, oldGen, treated>>
    BY <1>1, <1>4, <2>1 DEF ReduceAndInsert, autoTop
  <2>2. ASSUME NEW r \in Remainders(m), InsertElement(r)
        PROVE  BasisInv'
    BY <1>4, <2>2, InsertElementBasis DEF ReduceAndInsert, Remainders, autoTop
  <2> QED
    BY <1>4, <2>1, <2>2 DEF ReduceAndInsert
<1>5. CASE InsertLoopEnds
  BY <1>1, <1>5 DEF InsertLoopEnds, autoTop
<1>6. ASSUME NEW r \in toRetire, Retire(r)
      PROVE  BasisInv'
  BY <1>6, RetireBasis
<1> QED
  BY <1>2, <1>3, <1>4, <1>5, <1>6 DEF InsertPolys

-----------------------------------------------------------------------------
(* addPairs puts a pair into the queue or sets its bit, once. *)
LEMMA AddPairsBasis ==
  ASSUME BasisInv, TypeOK', AddPairs
  PROVE  BasisInv'
<1> USE DEF BasisInv
<1>1. ASSUME AddingPairs, NextOldGen,
             \/ UNCHANGED <<mQueue, mEliminated>>
             \/ mEliminated' = mEliminated \cup {Pair} /\ UNCHANGED mQueue
             \/ /\ mQueue' = mQueue \cup {Pair} /\ UNCHANGED mEliminated
                /\ lead[newGen].comp = lead[oldGen].comp
      PROVE  BasisInv'
  <2>1. /\ pc = "addPairs" /\ pc' = "addPairs" /\ oldGen' = oldGen + 1 /\ oldGen \in Nat
        /\ UNCHANGED <<basisVars, toRetire, group, w>> /\ (autoTop' <=> autoTop)
        /\ newGen' = newGen /\ Live' = Live /\ Pair = <<newGen, oldGen>>
    BY <1>1, SameBasis DEF AddingPairs, NextOldGen, TypeOK, autoTop, Pair
  <2>2. \A p \in mQueue \cup mEliminated : p[2] \in Nat
    <3>1. Existing \subseteq Nat
      BY MaxIndexAssumption DEF Existing, Gens
    <3>2. \A p \in ExistingPairs : p[2] \in Existing
      BY DEF ExistingPairs
    <3> QED
      BY <3>1, <3>2 DEF TypeOK
  <2>3. RetirementsDone' /\ NewestIrreducible'
    BY <2>1 DEF RetirementsDone, NewestIrreducible, basisVars
  <2>4. ColumnInProgress'
    BY <1>1, <2>1, <2>2 DEF ColumnInProgress
  <2>5. Pair \notin mQueue /\ (Pair \in mEliminated => Pair[2] \in toRetire)
    BY <2>1 DEF ColumnInProgress
  <2>6. PairsReducedOnce'
    BY <1>1, <2>1, <2>5 DEF PairsReducedOnce, IsRetired, basisVars
  <2>7. LiveLeadsMinimal' /\ LeadMinimalAccurate'
    BY <2>1 DEF LiveLeadsMinimal, LeadMinimalAccurate, basisVars
  <2>8. IsFiniteSet(group') /\ GroupIsSound'
    BY <2>1 DEF GroupIsSound
  <2>9. QueuedInComponent'
    BY <1>1, <2>1 DEF QueuedInComponent, basisVars
  <2> QED
    BY <2>3, <2>4, <2>6, <2>7, <2>8, <2>9
<1>2. CASE SkipRetired \/ EliminateTrivial \/ EliminateEarly \/ QueuePair
  BY <1>1, <1>2
  DEF SkipRetired, EliminateTrivial, EliminateEarly, QueuePair, Considered, sPairVars
<1>3. CASE AddPairsEnds
  <2>1. /\ UNCHANGED <<basisVars, sPairVars, toRetire, oldGen, group, w, computing>>
        /\ pc = "addPairs" /\ pc' = IF toRetire = {} THEN "insert" ELSE "retire"
    BY <1>3 DEF AddPairsEnds
  <2>2. CASE pc' = "insert"
    BY <2>1, <2>2, BasisUntouched, GroupUntouched DEF sPairVars, basisVars, autoTop
  <2>3. CASE pc' = "retire"
    <3>1. newGen' = newGen /\ Live' = Live /\ (autoTop' <=> autoTop)
      BY <2>1, SameBasis DEF autoTop
    <3>2. RetirementsDone' /\ NewestIrreducible' /\ ColumnInProgress'
      BY <2>1, <2>3, <3>1
      DEF RetirementsDone, NewestIrreducible, ColumnInProgress, basisVars
    <3>3. PairsReducedOnce' /\ LiveLeadsMinimal' /\ LeadMinimalAccurate' /\ QueuedInComponent'
      BY <2>1, <3>1 DEF PairsReducedOnce, IsRetired, LiveLeadsMinimal, QueuedInComponent,
                        LeadMinimalAccurate, basisVars, sPairVars
    <3>4. IsFiniteSet(group') /\ GroupIsSound'
      BY <2>1, <2>3 DEF GroupIsSound
    <3> QED
      BY <3>2, <3>3, <3>4
  <2> QED
    BY <2>1, <2>2, <2>3
<1> QED
  BY <1>2, <1>3 DEF AddPairs

(* SPairs::pop hands out a pair of live elements and of the degree of the
   group, sets its bit and takes it off the queue. *)
LEMMA PopSelectedBasis ==
  ASSUME BasisInv, TypeOK', NEW p \in TopPairs, PopSelected(p)
  PROVE  BasisInv'
<1> USE DEF BasisInv
<1>1. /\ pc = "pop" /\ Cardinality(group) < GroupSize /\ ~IsRetired(p)
      /\ UNCHANGED <<basisVars, toRetire, oldGen, pc, computing>>
      /\ w \in {0, Degree(LcmOf(p))} /\ w' = Degree(LcmOf(p))
      /\ mQueue' = mQueue \ {p} /\ mEliminated' = mEliminated \cup {p}
      /\ group' = group \cup {p}
  BY DEF PopSelected, Popping
<1>2. newGen' = newGen /\ Live' = Live /\ (autoTop' <=> autoTop)
  BY <1>1, SameBasis DEF autoTop
<1>3. RetirementsDone' /\ NewestIrreducible' /\ ColumnInProgress'
  BY <1>1 DEF RetirementsDone, NewestIrreducible, ColumnInProgress
<1>4. PairsReducedOnce' /\ QueuedInComponent'
  BY <1>1 DEF PairsReducedOnce, QueuedInComponent, IsRetired, basisVars
<1>5. LiveLeadsMinimal' /\ LeadMinimalAccurate'
  BY <1>1, <1>2 DEF LiveLeadsMinimal, LeadMinimalAccurate, basisVars
<1>6. IsFiniteSet(group') /\ GroupIsSound'
  <2>1. IsFiniteSet(group') /\ Cardinality(group') <= Cardinality(group) + 1
    <3>1. IsFiniteSet(group) /\ Cardinality(group) \in Nat
      BY FS_CardinalityType
    <3>2. /\ IsFiniteSet(group \cup {p})
          /\ \/ Cardinality(group \cup {p}) = Cardinality(group)
             \/ Cardinality(group \cup {p}) = Cardinality(group) + 1
      BY <3>1, FS_AddElement, Zenon
    <3> QED
      BY <1>1, <3>1, <3>2
  <2>2. Cardinality(group) \in Nat /\ Cardinality(group') \in Nat
    BY <2>1, FS_CardinalityType
  <2>3. Cardinality(group') <= GroupSize
    BY <1>1, <2>1, <2>2, OptionsAssumption
  <2>4. \A q : LcmOf(q)' = LcmOf(q) /\ (IsRetired(q)' <=> IsRetired(q))
    BY <1>1 DEF LcmOf, IsRetired, basisVars
  <2>5. \A q \in group' : ~IsRetired(q) /\ Degree(LcmOf(q)) \in {0, w'}
    BY <1>1 DEF GroupIsSound
  <2> QED
    BY <2>1, <2>3, <2>4, <2>5 DEF GroupIsSound
<1> QED
  BY <1>3, <1>4, <1>5, <1>6

LEMMA ComputeBasis ==
  ASSUME BasisInv, TypeOK', Compute
  PROVE  BasisInv'
<1> USE DEF BasisInv
<1>1. ASSUME UNCHANGED <<basisVars, mEliminated, mQueue, toRetire, oldGen, computing>>,
             pc \in {"head", "pop", "reduceS"},
             pc' \in {"head", "pop", "reduceS", "insert", "done"}
      PROVE  /\ RetirementsDone' /\ NewestIrreducible' /\ ColumnInProgress'
             /\ QueuedInComponent'
             /\ PairsReducedOnce' /\ LiveLeadsMinimal' /\ LeadMinimalAccurate'
  <2>1. toRetire = {}
    BY <1>1 DEF RetirementsDone
  <2> QED
    BY <1>1, <2>1, BasisUntouched DEF autoTop
<1>2. CASE Finish \/ CallbackStops
  BY <1>1, <1>2, GroupUntouched DEF Finish, CallbackStops, sPairVars, basisVars
<1>3. CASE BeginStep
  <2>1. IsFiniteSet(group') /\ GroupIsSound'
    BY <1>3, FS_EmptySet, OptionsAssumption DEF BeginStep, GroupIsSound
  <2> QED
    BY <1>1, <1>3, <2>1 DEF BeginStep, sPairVars
<1>4. CASE GroupEnds
  BY <1>1, <1>4, GroupUntouched DEF GroupEnds, sPairVars, basisVars
<1>5. ASSUME NEW p \in TopPairs, PopRetired(p) \/ PopUseless(p)
      PROVE  BasisInv'
  <2>1. /\ pc = "pop" /\ mQueue' = mQueue \ {p}
        /\ UNCHANGED <<basisVars, mEliminated, driverVars>>
    BY <1>5 DEF PopRetired, PopUseless, Popping
  <2>2. newGen' = newGen /\ Live' = Live /\ (autoTop' <=> autoTop)
    BY <2>1, SameBasis DEF autoTop, driverVars
  <2>3. RetirementsDone' /\ NewestIrreducible' /\ ColumnInProgress'
    BY <2>1 DEF RetirementsDone, NewestIrreducible, ColumnInProgress, driverVars
  <2>4. PairsReducedOnce' /\ LiveLeadsMinimal' /\ LeadMinimalAccurate' /\ QueuedInComponent'
    BY <2>1, <2>2 DEF PairsReducedOnce, IsRetired, LiveLeadsMinimal, QueuedInComponent,
                      LeadMinimalAccurate, basisVars, driverVars
  <2>5. IsFiniteSet(group') /\ GroupIsSound'
    BY <2>1, GroupUntouched DEF driverVars, basisVars
  <2> QED
    BY <2>3, <2>4, <2>5
<1>6. ASSUME NEW p \in TopPairs, PopSelected(p)
      PROVE  BasisInv'
  BY <1>6, PopSelectedBasis
<1>7. ASSUME NEW p \in group, ReduceSPoly(p)
      PROVE  BasisInv'
  BY <1>1, <1>7, GroupUntouched DEF ReduceSPoly, sPairVars, basisVars
<1> QED
  BY <1>2, <1>3, <1>4, <1>5, <1>6, <1>7 DEF Compute

-----------------------------------------------------------------------------
LEMMA InitBasisInv == Init => BasisInv
<1> SUFFICES ASSUME Init
             PROVE  BasisInv
  OBVIOUS
<1>1. TypeOK /\ Live = {} /\ IsFiniteSet(group)
  BY InitType, FS_EmptySet DEF Init, Live, Existing, Gens
<1> QED
  BY <1>1
  DEF Init, BasisInv, QueuedInComponent, RetirementsDone, NewestIrreducible, ColumnInProgress,
      PairsReducedOnce, LiveLeadsMinimal, LeadMinimalAccurate, GroupIsSound

LEMMA NextBasisInv ==
  ASSUME BasisInv, [Next]_vars
  PROVE  BasisInv'
<1>1. TypeOK'
  <2>1. CASE UNCHANGED vars
    BY <2>1, SameBasis DEF vars, basisVars, sPairVars, driverVars, TypeOK, BasisInv
  <2> QED
    BY <2>1, InsertPolysType, AddPairsType, ComputeType DEF Next, Returned, BasisInv
<1>2. CASE UNCHANGED vars
  <2>1. /\ UNCHANGED <<basisVars, mEliminated, mQueue, toRetire, oldGen, group, w, pc>>
        /\ (autoTop' <=> autoTop) /\ newGen' = newGen /\ Live' = Live
    BY <1>2, SameBasis DEF vars, sPairVars, driverVars, autoTop
  <2>2. /\ RetirementsDone' /\ NewestIrreducible' /\ ColumnInProgress'
        /\ QueuedInComponent'
        /\ PairsReducedOnce' /\ LiveLeadsMinimal' /\ LeadMinimalAccurate'
    BY <2>1, BasisUntouched DEF BasisInv, RetirementsDone
  <2>3. IsFiniteSet(group') /\ GroupIsSound'
    BY <2>1, GroupUntouched DEF basisVars
  <2> QED
    BY <1>1, <2>2, <2>3 DEF BasisInv
<1> QED
  BY <1>1, <1>2, InsertPolysBasis, AddPairsBasis, ComputeBasis DEF Next, Returned

LEMMA BasisInvariant == Spec => []BasisInv
<1>1. BasisInv /\ [Next]_vars => BasisInv'
  BY NextBasisInv
<1> QED
  BY <1>1, InitBasisInv, PTL DEF Spec

(* SPairs hands out every S-pair at most once, whatever the order of the queue
   and whichever elements are retired on the way. *)
THEOREM NoPairTwice == Spec => []PairsReducedOnce
<1>1. BasisInv => PairsReducedOnce
  BY DEF BasisInv
<1> QED
  BY <1>1, BasisInvariant, PTL

(* Under auto top reduction no live lead divides another once the insertion of
   the element that made it redundant is over; modules included. *)
THEOREM LeadsStayMinimal == Spec => []LiveLeadsMinimal
<1>1. BasisInv => LiveLeadsMinimal
  BY DEF BasisInv
<1> QED
  BY <1>1, BasisInvariant, PTL

(* The leadMinimal flags that PolyBasis updates at insertions only are those a
   search would give, in spite of the elements retired since. *)
THEOREM FlagsStayAccurate == Spec => []LeadMinimalAccurate
<1>1. BasisInv => LeadMinimalAccurate
  BY DEF BasisInv
<1> QED
  BY <1>1, BasisInvariant, PTL

(* The reducer gets groups of S-pairs of live elements, of one degree and of
   the size asked for. *)
THEOREM GroupsStaySound == Spec => []GroupIsSound
<1>1. BasisInv => GroupIsSound
  BY DEF BasisInv
<1> QED
  BY <1>1, BasisInvariant, PTL

-----------------------------------------------------------------------------
(* The criteria.  A divisor c of the lcm of a and b shows that (a, b) is useless
   if its pairs with a and b are eliminated or have another, smaller lcm. *)
LEMMA SmallerLcm ==
  ASSUME NEW a \in Mono, NEW b \in Mono, a.comp = b.comp,
         NEW c \in Mono, Divides(c, Lcm(a, b))
  PROVE  /\ Lcm(a, c) \in Mono /\ Lcm(c, a) = Lcm(a, c)
         /\ Divides(b, Lcm(a, c)) <=> Lcm(a, c) = Lcm(a, b)
         /\ Divides(b, Lcm(a, c)) <=> Divides(Lcm(a, b), Lcm(a, c))
<1>1. a.comp = c.comp
  BY DEF Divides, Lcm
<1>2. Lcm(a, c) \in Mono /\ Lcm(a, b) \in Mono /\ Lcm(c, a) = Lcm(a, c)
  BY <1>1, LcmMono, LcmCommutes
<1>3. /\ Divides(a, Lcm(a, c)) /\ Divides(c, Lcm(a, c))
      /\ Divides(a, Lcm(a, b)) /\ Divides(b, Lcm(a, b))
  BY <1>1, LcmMultiple
<1>4. Divides(Lcm(a, c), Lcm(a, b))
  BY <1>1, <1>2, <1>3, LcmLeast
<1>5. Divides(b, Lcm(a, c)) => Divides(Lcm(a, b), Lcm(a, c))
  BY <1>2, <1>3, LcmLeast
<1>6. Divides(Lcm(a, b), Lcm(a, c)) => Lcm(a, c) = Lcm(a, b)
  BY <1>2, <1>4, DividesAntisymmetric
<1> QED
  BY <1>2, <1>3, <1>5, <1>6

(* What the criteria are asked about: two live elements of one component *)
Questioned(a, b) ==
  /\ a \in Live /\ b \in Live /\ a > b
  /\ lead[a].comp = lead[b].comp

(* The divisors of the lcm of a and b, themselves included, and what the three
   forms of the criteria ask about a third one *)
LEMMA DivisorOfLcm ==
  ASSUME TypeOK, NEW a, NEW b, Questioned(a, b),
         NEW c \in Divisors(LcmOf(<<a, b>>)), c # a, c # b
  PROVE  LET lcmAB == LcmOf(<<a, b>>)
             E == CriterionEdges(Divisors(lcmAB), lcmAB)
         IN  /\ Lcm(lead[c], lead[a]) = Lcm(lead[a], lead[c])
             /\ Lcm(lead[c], lead[b]) = Lcm(lead[b], lead[c])
             /\ Divides(lead[b], Lcm(lead[c], lead[a])) <=> Lcm(lead[a], lead[c]) = lcmAB
             /\ Divides(lead[a], Lcm(lead[c], lead[b])) <=> Lcm(lead[b], lead[c]) = lcmAB
             /\ Unordered(c, a) \in E <=>
                  Eliminated(c, a) \/ ~Divides(lead[b], Lcm(lead[c], lead[a]))
             /\ Unordered(c, b) \in E <=>
                  Eliminated(c, b) \/ ~Divides(lead[a], Lcm(lead[c], lead[b]))
<1> DEFINE lcmAB == LcmOf(<<a, b>>)
           V == Divisors(lcmAB)
<1>1. /\ a \in Live /\ b \in Live /\ c \in Live /\ Live \subseteq Int
      /\ \A i \in Live : lead[i] \in Mono
      /\ lcmAB = Lcm(lead[a], lead[b]) /\ Divides(lead[c], lcmAB)
      /\ lead[a].comp = lead[b].comp
  BY MaxIndexAssumption DEF Questioned, Divisors, Live, Existing, Gens, TypeOK, LcmOf
<1>2. lcmAB = Lcm(lead[b], lead[a]) /\ lcmAB \in Mono
  BY <1>1, LcmCommutes, LcmMono
<1>3. /\ Lcm(lead[a], lead[c]) \in Mono /\ Lcm(lead[c], lead[a]) = Lcm(lead[a], lead[c])
      /\ Divides(lead[b], Lcm(lead[a], lead[c])) <=> Lcm(lead[a], lead[c]) = lcmAB
      /\ Divides(lead[b], Lcm(lead[a], lead[c])) <=> Divides(lcmAB, Lcm(lead[a], lead[c]))
  BY <1>1, SmallerLcm
<1>4. /\ Lcm(lead[b], lead[c]) \in Mono /\ Lcm(lead[c], lead[b]) = Lcm(lead[b], lead[c])
      /\ Divides(lead[a], Lcm(lead[b], lead[c])) <=> Lcm(lead[b], lead[c]) = lcmAB
      /\ Divides(lead[a], Lcm(lead[b], lead[c])) <=> Divides(lcmAB, Lcm(lead[b], lead[c]))
  BY <1>1, <1>2, SmallerLcm
<1>5. a \in V /\ b \in V
  BY <1>1, LcmMultiple DEF Divisors
<1>6. ASSUME NEW x \in {a, b}
      PROVE  Unordered(c, x) \in CriterionEdges(V, lcmAB) <=>
               Eliminated(c, x) \/ ~Divides(lcmAB, Lcm(lead[c], lead[x]))
  <2>1. x \in V /\ x # c /\ x \in Int /\ c \in Int
    BY <1>1, <1>5
  <2>2. LcmOf(Unordered(c, x)) = Lcm(lead[c], lead[x])
    BY <1>3, <1>4, <1>6 DEF LcmOf, Unordered
  <2>3. Unordered(c, x) \in V \X V /\ Unordered(c, x)[1] > Unordered(c, x)[2]
    BY <2>1 DEF Unordered
  <2> QED
    BY <2>2, <2>3 DEF CriterionEdges, Eliminated
<1> QED
  BY <1>3, <1>4, <1>6

(* The simple criterion: a cached hit is an answer of the lookup. *)
LEMMA SimpleMatchesSlow ==
  ASSUME TypeOK, NEW a, NEW b, Questioned(a, b)
  PROVE  /\ SimpleCriterion(a, b) <=>
               \E c \in Divisors(LcmOf(<<a, b>>)) : Witness(c, a, b)
         /\ SimpleCriterion(a, b) <=> SimpleCriterionSlow(a, b)
<1> DEFINE lcmAB == LcmOf(<<a, b>>)
<1>1. lcmAB = Lcm(lead[a], lead[b])
  BY DEF LcmOf
<1>2. ASSUME NEW x \in {a, b}, CacheWitness(hitCache[x], a, b)
      PROVE  \E c \in Divisors(lcmAB) : Witness(c, a, b)
  <2>1. x \in Existing /\ a \in Existing
    BY <1>2 DEF Questioned, Live
  <2>2. hitCache[x] \in Existing
    <3>1. size \in Nat /\ size > 0 /\ x \in Gens
      BY <2>1, MaxIndexAssumption DEF TypeOK, Existing, Gens
    <3>2. hitCache[x] \in Gens /\ (hitCache[x] = 0 \/ hitCache[x] < size)
      BY <3>1 DEF TypeOK
    <3> QED
      BY <3>1, <3>2 DEF Existing
  <2> QED
    BY <1>1, <1>2, <2>2 DEF CacheWitness, Divisors, Live
<1>3. SimpleCriterion(a, b) <=> \E c \in Divisors(lcmAB) : Witness(c, a, b)
  BY <1>1, <1>2 DEF SimpleCriterion
<1>4. ASSUME NEW c \in Live \ {a, b}, Divides(lead[c], lcmAB)
      PROVE  Witness(c, a, b) <=>
               /\ Eliminated(c, a) \/ Lcm(lead[a], lead[c]) # lcmAB
               /\ Eliminated(c, b) \/ Lcm(lead[b], lead[c]) # lcmAB
  BY <1>4, DivisorOfLcm DEF Divisors, Witness
<1>5. \A c \in Divisors(lcmAB) :
        Witness(c, a, b) => c \in Live \ {a, b} /\ Divides(lead[c], lcmAB)
  BY DEF Divisors, Witness
<1>6. \A c \in Live : Divides(lead[c], lcmAB) => c \in Divisors(lcmAB)
  BY DEF Divisors
<1> QED
  BY <1>1, <1>3, <1>4, <1>5, <1>6 DEF SimpleCriterionSlow

(* The advanced criterion: with at most three nodes a path is one through a
   third node, which the simple criterion finds. *)
LEMMA AdvancedMatchesSlow ==
  ASSUME TypeOK, NEW a, NEW b, Questioned(a, b), <<a, b>> \notin mEliminated
  PROVE  AdvancedCriterion(a, b) <=> AdvancedCriterionSlow(a, b)
<1> DEFINE lcmAB == LcmOf(<<a, b>>)
           V == Divisors(lcmAB)
           E == CriterionEdges(V, lcmAB)
<1>1. /\ lcmAB = Lcm(lead[a], lead[b])
      /\ AdvancedCriterionSlow(a, b) <=> Connected(a, b, V, E)
  BY DEF LcmOf, AdvancedCriterionSlow
<1>2. /\ a \in V /\ b \in V /\ a # b /\ Unordered(a, b) = <<a, b>> /\ Unordered(b, a) = <<a, b>>
      /\ V \subseteq Live /\ Live \subseteq Int
      /\ lcmAB \in Mono
  <2>1. /\ a \in Live /\ b \in Live /\ a > b /\ lead[a].comp = lead[b].comp
        /\ lead[a] \in Mono /\ lead[b] \in Mono /\ Live \subseteq Int
    BY MaxIndexAssumption DEF Questioned, Live, Existing, Gens, TypeOK
  <2>2. a # b /\ ~(b > a)
    BY <2>1
  <2> QED
    BY <1>1, <2>1, <2>2, LcmMultiple, LcmMono DEF Divisors, Unordered
<1>3. \A c \in V \ {a, b} :
        Witness(c, a, b) <=> Unordered(c, a) \in E /\ Unordered(c, b) \in E
  BY DivisorOfLcm DEF Witness
<1>4. \A c, d \in V : Unordered(c, d) = Unordered(d, c)
  <2>1. \A c, d \in Int : Unordered(c, d) = Unordered(d, c)
    BY DEF Unordered
  <2> QED
    BY <1>2, <2>1
<1>5. ASSUME SimpleCriterion(a, b)
      PROVE  Connected(a, b, V, E)
  <2>1. PICK c \in V : Witness(c, a, b)
    BY <1>5, SimpleMatchesSlow
  <2>2. c # a /\ c # b
    BY <2>1 DEF Witness
  <2>3. Unordered(a, c) \in E /\ Unordered(c, b) \in E
    BY <1>2, <1>3, <1>4, <2>1, <2>2
  <2> QED
    BY <1>2, <2>3 DEF Connected
<1>6. ASSUME Connected(a, b, V, E), ~SimpleCriterion(a, b)
      PROVE  Cardinality(V) > 3
  <2> DEFINE S == {a} \cup {c \in V \ {b} : Unordered(c, a) \in E}
  <2>1. a \in S /\ b \notin S /\ S \in SUBSET V
    BY <1>2
  <2>2. PICK c \in S, d \in V : Unordered(c, d) \in E /\ d \notin S
    BY <1>6, <2>1 DEF Connected
  <2>3. c # a
    <3>1. Unordered(a, b) \notin E
      BY <1>2, DividesReflexive DEF CriterionEdges
    <3> QED
      BY <1>2, <1>4, <2>1, <2>2, <3>1
  <2>4. c \in V \ {a, b} /\ Unordered(c, a) \in E
    BY <2>1, <2>2, <2>3
  <2>5. d # b
    BY <1>3, <1>6, <2>2, <2>4, SimpleMatchesSlow
  <2>6. d # a /\ d # c
    BY <2>1, <2>2
  <2>7. {a, b, c, d} \subseteq V /\ IsFiniteSet(V)
    <3>1. V \subseteq 0..MaxIndex
      BY <1>2 DEF Live, Existing, Gens
    <3>2. IsFiniteSet(0..MaxIndex)
      BY MaxIndexAssumption, FS_Interval
    <3> QED
      BY <1>2, <2>2, <2>4, <3>1, <3>2, FS_Subset
  <2>8. IsFiniteSet({a, b, c, d}) /\ Cardinality({a, b, c, d}) = 4
    <3>1. IsFiniteSet({a}) /\ Cardinality({a}) = 1
      BY FS_Singleton
    <3>2. IsFiniteSet({a} \cup {b}) /\ Cardinality({a} \cup {b}) = 2
      <4> DEFINE A == {a}
      <4>1. IsFiniteSet(A) /\ Cardinality(A) = 1 /\ b \notin A
        BY <1>2, <3>1
      <4> HIDE DEF A
      <4>2. IsFiniteSet(A \cup {b}) /\ Cardinality(A \cup {b}) = 2
        BY <4>1, FS_AddElement
      <4> QED
        BY <4>2 DEF A
    <3>3. c \notin {a} \cup {b} /\ d \notin ({a} \cup {b}) \cup {c}
      BY <2>4, <2>5, <2>6
    <3> DEFINE T == {a} \cup {b}
               U == T \cup {c}
    <3>4. IsFiniteSet(U) /\ Cardinality(U) = 3
      <4>1. IsFiniteSet(T) /\ Cardinality(T) = 2 /\ c \notin T
        BY <3>2, <3>3, ZenonT(40)
      <4> HIDE DEF T
      <4> QED
        BY <4>1, FS_AddElement, SMTT(20)
    <3>5. IsFiniteSet(U \cup {d}) /\ Cardinality(U \cup {d}) = 4
      <4>1. IsFiniteSet(U) /\ Cardinality(U) = 3 /\ d \notin U
        BY <3>3, <3>4, ZenonT(40)
      <4> HIDE DEF U
      <4> QED
        BY <4>1, FS_AddElement, SMTT(20)
    <3>6. U \cup {d} = {a, b, c, d}
      OBVIOUS
    <3> QED
      BY <3>5, <3>6
  <2>9. Cardinality({a, b, c, d}) <= Cardinality(V) /\ Cardinality(V) \in Nat
    BY <2>7, FS_Subset, FS_CardinalityType
  <2> QED
    BY <2>8, <2>9
<1> QED
  BY <1>1, <1>5, <1>6 DEF AdvancedCriterion

(* The debug assertions of simpleBuchbergerLcmCriterion and of
   advancedBuchbergerLcmCriterion hold wherever the code evaluates them: the
   cache and the shortcut for small graphs change no answer. *)
THEOREM CriteriaAgree == Spec => []CriteriaMatchSlow
<1>1. BasisInv => CriteriaMatchSlow
  <2> SUFFICES ASSUME BasisInv
               PROVE  CriteriaMatchSlow
    OBVIOUS
  <2>1. TypeOK
    BY DEF BasisInv
  <2>2. Existing \subseteq Nat
    BY MaxIndexAssumption DEF Existing, Gens
  <2>3. ASSUME Considered
        PROVE  Questioned(newGen, oldGen)
    <3>1. /\ size \in Nat /\ oldGen \in Nat /\ oldGen < newGen /\ pc = "addPairs"
          /\ lead[newGen].comp = lead[oldGen].comp /\ oldGen \notin retired
          /\ newGen \in Live
      BY <2>1, <2>3, MaxIndexAssumption
      DEF Considered, AddingPairs, TypeOK, BasisInv, NewestIrreducible
    <3>2. oldGen \in Live
      BY <3>1, MaxIndexAssumption DEF Live, Existing, Gens, newGen
    <3> QED
      BY <3>1, <3>2 DEF Questioned, newGen
  <2>4. ASSUME Popping, NEW p \in TopPairs, ~IsRetired(p)
        PROVE  Questioned(p[1], p[2]) /\ <<p[1], p[2]>> \notin mEliminated
    <3>1. p \in mQueue /\ p \in ExistingPairs /\ pc = "pop" /\ toRetire = {}
      BY <2>1, <2>4 DEF Popping, TopPairs, TypeOK, BasisInv, RetirementsDone
    <3>2. p = <<p[1], p[2]>> /\ p[1] \in Existing /\ p[2] \in Existing /\ p[1] > p[2]
      BY <3>1 DEF ExistingPairs
    <3>3. p \notin mEliminated
      BY <2>4, <3>1 DEF BasisInv, PairsReducedOnce
    <3>4. lead[p[1]].comp = lead[p[2]].comp
      BY <3>1 DEF BasisInv, QueuedInComponent
    <3> QED
      BY <2>4, <3>2, <3>3, <3>4 DEF Questioned, Live, IsRetired
  <2> QED
    BY <2>1, <2>3, <2>4, SimpleMatchesSlow, AdvancedMatchesSlow DEF CriteriaMatchSlow
<1> QED
  BY <1>1, BasisInvariant, PTL

(* What SPairs and PolyBasis keep up to date bit by bit is accurate at every
   moment, for every ring, order, input and option, modules included. *)
THEOREM BookkeepingStaysAccurate == Spec => []BookkeepingAccurate
<1>1. /\ PairsReducedOnce
      /\ GroupIsSound
      /\ LiveLeadsMinimal
      /\ LeadMinimalAccurate
      /\ CriteriaMatchSlow
      => BookkeepingAccurate
  BY DEF BookkeepingAccurate
<1> QED
  BY <1>1, NoPairTwice, GroupsStaySound, LeadsStayMinimal, FlagsStayAccurate,
     CriteriaAgree, PTL
=============================================================================
