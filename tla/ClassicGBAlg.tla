---------------------------- MODULE ClassicGBAlg ----------------------------
(***************************************************************************)
(* ClassicGBAlg: Buchberger's algorithm with S-pair elimination and auto   *)
(* top reduction, over the state of PolyBasis and SPairs.  A loop of the   *)
(* code is a value of pc and one pass through it is one action.            *)
(*                                                                         *)
(* Polynomial arithmetic is abstracted: a reduction returns zero or a      *)
(* polynomial whose lead monomial no live lead divides and which is below  *)
(* the monomial the reduction cancelled, which is all that the reducers    *)
(* (TypicalReducer, F4Reducer) promise this algorithm about leads.         *)
(***************************************************************************)
EXTENDS SPairs

CONSTANTS
  GroupSize,           \* mSPairGroupSize
  UseAutoTopReduction, \* mUseAutoTopReduction, as set before the computation
  BreakAfter,          \* mBreakAfter: stop above that many elements, 0: never
  UseCallback,         \* whether there is a callback, which may stop
  Inputs               \* bound: the leads of the input, functions Mono -> Nat

ASSUME OptionsAssumption ==
  /\ GroupSize \in Nat \ {0}
  /\ UseAutoTopReduction \in BOOLEAN
  /\ BreakAfter \in Nat
  /\ UseCallback \in BOOLEAN
  /\ Inputs \subseteq [Mono -> Nat]

VARIABLES
  pc,        \* the loop the algorithm is in
  computing, \* FALSE in the constructor, TRUE in computeGrobnerBasis
  toInsert,  \* how many polynomials with each lead insertPolys has to insert
  toReduce,  \* how many it has to reduce again
  toRetire,  \* the elements that the newest one makes redundant
  oldGen,    \* the loop index of addPairs
  group,     \* spairGroup
  w,         \* the degree of the group, 0 when it has none yet
  stopped,   \* the callback or the limit on the size ended the computation
  treated    \* history: the pairs whose S-polynomial was reduced

driverVars == <<pc, computing, toInsert, toReduce, toRetire, oldGen, group, w,
                stopped, treated>>
vars == <<basisVars, sPairVars, driverVars>>

PCs == {"insert", "addPairs", "retire", "reduce", "head", "pop", "reduceS",
        "done", "overflow"}

ExistingPairs == {p \in Existing \X Existing : p[1] > p[2]}
NoPolys == [m \in Mono |-> 0]
newGen == size - 1
autoTop == ~computing \/ UseAutoTopReduction

Init ==
  /\ size = 0
  /\ lead = [i \in Gens |-> NoMono]
  /\ retired = {}
  /\ notMinimal = {}
  /\ mEliminated = {}
  /\ mQueue = {}
  /\ hitCache = [i \in Gens |-> 0]
  /\ pc = "insert"
  /\ computing = FALSE
  /\ toInsert \in Inputs
  /\ toReduce = NoPolys
  /\ toRetire = {}
  /\ oldGen = 0
  /\ group = {}
  /\ w = 0
  /\ stopped = FALSE
  /\ treated = {}

-----------------------------------------------------------------------------
(* insertPolys *)

Put(polys, m) == [polys EXCEPT ![m] = @ + 1]
Take(polys, m) == [polys EXCEPT ![m] = @ - 1]

(* A new reducer may have made a polynomial reducible since its reduction. *)
Postpone(m) ==
  /\ pc = "insert"
  /\ toInsert[m] > 0
  /\ autoTop
  /\ Reducible(m)
  /\ toInsert' = Take(toInsert, m)
  /\ toReduce' = Put(toReduce, m)
  /\ UNCHANGED <<basisVars, sPairVars, pc, computing, toRetire, oldGen, group,
                 w, stopped, treated>>

(* PolyBasis::insert, and the part of SPairs::addPairsAssumeAutoReduce or
   addPairs that comes before the loop over the older elements.  The column
   of the new element overflows the queue's index type at MaxIndex. *)
InsertElement(m) ==
  LET new == size
      redundant == IF autoTop THEN Multiples(m) ELSE {}
      reductions == {<<new, i>> : i \in redundant}
  IN  /\ size < MaxIndex + 1
      /\ size' = size + 1
      /\ lead' = [lead EXCEPT ![new] = m]
      /\ notMinimal' = IF Reducible(m) THEN notMinimal \cup {new}
                                       ELSE notMinimal \cup Multiples(m)
      /\ toRetire' = redundant
      /\ mEliminated' = mEliminated \cup reductions
      /\ treated' = treated \cup reductions
      /\ oldGen' = 0
      /\ pc' = IF new = MaxIndex THEN "overflow" ELSE "addPairs"
      /\ UNCHANGED <<retired, mQueue, hitCache>>

InsertIrreducible(m) ==
  /\ pc = "insert"
  /\ toInsert[m] > 0
  /\ ~Reducible(m)
  /\ toInsert' = Take(toInsert, m)
  /\ InsertElement(m)
  /\ UNCHANGED <<computing, toReduce, group, w, stopped>>

(* What a reduction that cancels the monomial m can leave *)
Remainders(bound) ==
  {m \in Mono : ~Reducible(m) /\ OrderRank(m) < OrderRank(bound)}

(* Without auto top reduction the polynomial is reduced on the spot. *)
ReduceAndInsert(m) ==
  /\ pc = "insert"
  /\ toInsert[m] > 0
  /\ ~autoTop
  /\ Reducible(m)
  /\ toInsert' = Take(toInsert, m)
  /\ \/ UNCHANGED <<basisVars, sPairVars, pc, toRetire, oldGen, treated>>
     \/ \E r \in Remainders(m) : InsertElement(r)
  /\ UNCHANGED <<computing, toReduce, group, w, stopped>>

(* The loop over toInsert is done. *)
InsertLoopEnds ==
  /\ pc = "insert"
  /\ toInsert = NoPolys
  /\ IF toReduce # NoPolys
     THEN pc' = "reduce" /\ UNCHANGED <<computing, stopped>>
     ELSE IF computing /\ BreakAfter # 0 /\ size > BreakAfter
     THEN pc' = "done" /\ stopped' = TRUE /\ UNCHANGED computing
     ELSE pc' = "head" /\ computing' = TRUE /\ UNCHANGED stopped
  /\ UNCHANGED <<basisVars, sPairVars, toInsert, toReduce, toRetire, oldGen,
                 group, w, treated>>

(* classicReducePolySet: the basis does not change until all are reduced *)
ReducePoly(m) ==
  /\ pc = "reduce"
  /\ toReduce[m] > 0
  /\ toReduce' = Take(toReduce, m)
  /\ \/ UNCHANGED toInsert
     \/ \E r \in Remainders(m) : toInsert' = Put(toInsert, r)
  /\ pc' = IF toReduce' = NoPolys THEN "insert" ELSE pc
  /\ UNCHANGED <<basisVars, sPairVars, computing, toRetire, oldGen, group, w,
                 stopped, treated>>

-----------------------------------------------------------------------------
(* SPairs::addPairs: one pass through the loop over the older elements *)

Pair == <<newGen, oldGen>>

NextOldGen ==
  /\ oldGen' = oldGen + 1
  /\ UNCHANGED <<basisVars, pc, computing, toInsert, toReduce, toRetire, group,
                 w, stopped, treated>>

AddingPairs == pc = "addPairs" /\ oldGen < newGen

SkipRetired ==
  /\ AddingPairs
  /\ oldGen \in retired
  /\ UNCHANGED sPairVars
  /\ NextOldGen

EliminateTrivial ==
  /\ AddingPairs
  /\ oldGen \notin retired
  /\ \/ lead[newGen].comp # lead[oldGen].comp
     \/ RelativelyPrime(lead[newGen], lead[oldGen])
  /\ mEliminated' = mEliminated \cup {Pair}
  /\ UNCHANGED <<mQueue, hitCache>>
  /\ NextOldGen

Considered ==
  /\ AddingPairs
  /\ oldGen \notin retired
  /\ lead[newGen].comp = lead[oldGen].comp
  /\ ~RelativelyPrime(lead[newGen], lead[oldGen])

EliminateEarly ==
  /\ Considered
  /\ SimpleCriterion(newGen, oldGen)
  /\ UpdateHitCache(newGen, oldGen)
  /\ mEliminated' = mEliminated \cup {Pair}
  /\ UNCHANGED mQueue
  /\ NextOldGen

(* The column goes into the queue as a whole when the loop ends; nothing
   looks at the queue before that. *)
QueuePair ==
  /\ Considered
  /\ ~SimpleCriterion(newGen, oldGen)
  /\ mQueue' = mQueue \cup {Pair}
  /\ UNCHANGED <<mEliminated, hitCache>>
  /\ NextOldGen

AddPairsEnds ==
  /\ pc = "addPairs"
  /\ oldGen = newGen
  /\ pc' = IF toRetire = {} THEN "insert" ELSE "retire"
  /\ UNCHANGED <<basisVars, sPairVars, computing, toInsert, toReduce, toRetire,
                 oldGen, group, w, stopped, treated>>

(* insertPolys retires what the new element made redundant. *)
Retire(r) ==
  /\ pc = "retire"
  /\ retired' = retired \cup {r}
  /\ toReduce' = Put(toReduce, lead[r])
  /\ toRetire' = toRetire \ {r}
  /\ pc' = IF toRetire' = {} THEN "insert" ELSE pc
  /\ UNCHANGED <<size, lead, notMinimal, sPairVars, computing, toInsert,
                 oldGen, group, w, stopped, treated>>

-----------------------------------------------------------------------------
(* computeGrobnerBasis and step *)

Finish ==
  /\ pc = "head"
  /\ mQueue = {}
  /\ pc' = "done"
  /\ UNCHANGED <<basisVars, sPairVars, computing, toInsert, toReduce, toRetire,
                 oldGen, group, w, stopped, treated>>

CallbackStops ==
  /\ pc = "head"
  /\ mQueue # {}
  /\ UseCallback
  /\ pc' = "done"
  /\ stopped' = TRUE
  /\ UNCHANGED <<basisVars, sPairVars, computing, toInsert, toReduce, toRetire,
                 oldGen, group, w, treated>>

BeginStep ==
  /\ pc = "head"
  /\ mQueue # {}
  /\ pc' = "pop"
  /\ group' = {}
  /\ w' = 0
  /\ UNCHANGED <<basisVars, sPairVars, computing, toInsert, toReduce, toRetire,
                 oldGen, stopped, treated>>

(* SPairs::pop(w), one pass through its loop *)
Popping == pc = "pop" /\ Cardinality(group) < GroupSize

(* Mutated form: the loop continues without popping. *)
PopRetiredNot(p) ==
  /\ Popping
  /\ IsRetired(p)
  /\ UNCHANGED vars

PopRetired(p) ==
  /\ Popping
  /\ IsRetired(p)
  /\ mQueue' = mQueue \ {p}
  /\ UNCHANGED <<basisVars, mEliminated, hitCache, driverVars>>

(* The bit of a pair that is dropped here is not set. *)
PopUseless(p) ==
  /\ Popping
  /\ ~IsRetired(p)
  /\ AdvancedCriterion(p[1], p[2])
  /\ UpdateHitCacheLate(p[1], p[2])
  /\ mQueue' = mQueue \ {p}
  /\ UNCHANGED <<basisVars, mEliminated, driverVars>>

PopSelectedKept(p) ==
  /\ Popping
  /\ ~IsRetired(p)
  /\ ~AdvancedCriterion(p[1], p[2])
  /\ w \in {0, Degree(LcmOf(p))}
  /\ w' = Degree(LcmOf(p))
  /\ mEliminated' = mEliminated \cup {p}
  /\ group' = group \cup {p}
  /\ treated' = treated \cup {p}
  /\ UNCHANGED <<basisVars, mQueue, hitCache, pc, computing, toInsert, toReduce,
                 toRetire, oldGen, stopped>>

PopSelected(p) ==
  /\ Popping
  /\ ~IsRetired(p)
  /\ ~AdvancedCriterion(p[1], p[2])
  /\ w \in {0, Degree(LcmOf(p))}
  /\ w' = Degree(LcmOf(p))
  /\ mQueue' = mQueue \ {p}
  /\ mEliminated' = mEliminated \cup {p}
  /\ group' = group \cup {p}
  /\ treated' = treated \cup {p}
  /\ UNCHANGED <<basisVars, hitCache, pc, computing, toInsert, toReduce,
                 toRetire, oldGen, stopped>>

(* The group is full, or no other pair has its degree.  An empty group ends
   the step. *)
GroupEnds ==
  /\ pc = "pop"
  /\ \/ Cardinality(group) = GroupSize
     \/ mQueue = {}
     \/ \E p \in TopPairs : /\ ~IsRetired(p)
                            /\ ~AdvancedCriterion(p[1], p[2])
                            /\ w \notin {0, Degree(LcmOf(p))}
  /\ pc' = IF group = {} THEN "insert" ELSE "reduceS"
  /\ UNCHANGED <<basisVars, sPairVars, computing, toInsert, toReduce, toRetire,
                 oldGen, group, w, stopped, treated>>

(* classicReduceSPolySet *)
ReduceSPoly(p) ==
  /\ pc = "reduceS"
  /\ group' = group \ {p}
  /\ \/ UNCHANGED toInsert
     \/ \E r \in Remainders(LcmOf(p)) : toInsert' = Put(toInsert, r)
  /\ pc' = IF group' = {} THEN "insert" ELSE pc
  /\ UNCHANGED <<basisVars, sPairVars, computing, toReduce, toRetire, oldGen, w,
                 stopped, treated>>

-----------------------------------------------------------------------------
InsertPolys ==
  \/ \E m \in Mono : Postpone(m) \/ InsertIrreducible(m) \/ ReduceAndInsert(m)
                     \/ ReducePoly(m)
  \/ InsertLoopEnds
  \/ \E r \in toRetire : Retire(r)

AddPairs == SkipRetired \/ EliminateTrivial \/ EliminateEarly \/ QueuePair
            \/ AddPairsEnds

Compute ==
  \/ Finish \/ CallbackStops \/ BeginStep \/ GroupEnds
  \/ \E p \in TopPairs : PopRetired(p) \/ PopUseless(p) \/ PopSelected(p)
  \/ \E p \in group : ReduceSPoly(p)

(* The algorithm has returned, or thrown, and does nothing any more. *)
Returned == pc \in {"done", "overflow"} /\ UNCHANGED vars

Next == InsertPolys \/ AddPairs \/ Compute \/ Returned

(* One thread runs the loops; nothing else can hold it up. *)
Spec == Init /\ [][Next]_vars /\ WF_vars(InsertPolys \/ AddPairs \/ Compute)

-----------------------------------------------------------------------------
(* Properties *)

(* Every variable holds a value of its kind; a pair is stored once, larger
   index first, as BitTriangle and PairQueue store it. *)
TypeOK ==
  /\ size \in 0..(MaxIndex + 1)
  /\ lead \in [Gens -> Mono \cup {NoMono}]
  /\ \A i \in Gens : lead[i] \in Mono <=> i < size
  /\ retired \subseteq Existing
  /\ notMinimal \subseteq Existing
  /\ mEliminated \subseteq ExistingPairs
  /\ mQueue \subseteq ExistingPairs
  /\ hitCache \in [Gens -> Gens]
  /\ \A i \in Gens : hitCache[i] = 0 \/ hitCache[i] < size
  /\ pc \in PCs
  /\ computing \in BOOLEAN
  /\ toInsert \in [Mono -> Nat]
  /\ toReduce \in [Mono -> Nat]
  /\ toRetire \subseteq Live
  /\ oldGen \in Nat
  /\ pc \in {"addPairs", "retire"} => size > 0 /\ oldGen <= newGen
  /\ group \subseteq ExistingPairs
  /\ w \in Int
  /\ stopped \in BOOLEAN
  /\ treated \subseteq ExistingPairs

(* The syzygies of the leads.  A pair is settled when the S-polynomial is
   known to have a standard representation: it was reduced, or it was the
   first step of the auto top reduction of a retired element, or the leads of
   two elements of an ideal are relatively prime. *)
IsIdeal == \E c \in Components : Components = {c}

Settled ==
  treated \cup
    {p \in ExistingPairs :
       /\ IsIdeal
       /\ \A v \in Vars : lead[p[1]].exp[v] = 0 \/ lead[p[2]].exp[v] = 0}

(* The pairs the algorithm is still going to consider. *)
Pending ==
  {p \in mQueue : ~IsRetired(p)} \cup
  {p \in ExistingPairs : /\ pc \in {"addPairs", "overflow"}
                         /\ p[1] = newGen
                         /\ p[2] >= oldGen
                         /\ p[2] \notin retired}

(* The syzygy of p is a combination of those of the pairs in E: p is joined
   by pairs of E whose elements' leads divide the lcm of p. *)
Generated(p, E) ==
  Connected(p[1], p[2], {i \in Existing : Divides(lead[i], LcmOf(p))}, E)

(* No S-pair is eliminated without cause.  Whatever SPairs drops (by the lcm
   criteria with their cache and graph, early or late, because an element was
   retired), the settled pairs and the pending ones together generate the
   syzygies of all elements ever inserted.  No pair is dropped because of a
   second one that is dropped because of the first. *)
SyzygiesGenerated ==
  \A p \in ExistingPairs :
    lead[p[1]].comp = lead[p[2]].comp => Generated(p, Settled \cup Pending)

(* The comment of mEliminated: a set bit means that the S-pair "does not have
   to be reduced". *)
EliminatedPairsNeedNoReduction ==
  \A p \in mEliminated :
    lead[p[1]].comp = lead[p[2]].comp => Generated(p, Settled \cup Pending)

(* SPairs never hands out an S-pair twice: a queued pair whose bit is set has
   an element that is retired or about to be. *)
PairsReducedOnce ==
  \A p \in mQueue \cap mEliminated : IsRetired(p) \/ p[2] \in toRetire

(* The reducer gets a group of S-pairs of live elements and of one degree (or
   of degree 0 followed by one other), as large as was asked for at most. *)
GroupIsSound ==
  pc \in {"pop", "reduceS"} =>
    /\ Cardinality(group) <= GroupSize
    /\ \A p \in group : ~IsRetired(p) /\ Degree(LcmOf(p)) \in {0, w}

(* F4MatrixBuilder2.cpp:58-68: "the particular way that S-pair elimination
   works in MathicGB ensures" that the S-pairs of one lcm that are reduced
   together all have an element in common, so that the matrix needs a row for
   one half of each only; F4MatrixBuilder2.cpp:133 and 185 assert what follows
   from it.  It takes the criteria, the bits and the order of the queue. *)
EqualLcmsShareElement ==
  \A p \in group : \E x \in {p[1], p[2]} :
    \A q \in group : LcmOf(q) = LcmOf(p) => x \in {q[1], q[2]}

(* Under auto top reduction no live lead divides another one, except while the
   element that made it redundant is being inserted. *)
LiveLeadsMinimal ==
  autoTop =>
    \A i, j \in Live : i # j /\ Divides(lead[i], lead[j]) => j \in toRetire

(* The leadMinimal flags, kept up to date at insertions only, say whether a
   lead is minimal, in spite of the retirements. *)
LeadMinimalAccurate ==
  \A i \in Live :
    i \in notMinimal <=> \E j \in Live \ {i} : Divides(lead[j], lead[i])

(* The debug assertions of the criteria, where the code evaluates them: the
   cached and the graph forms agree with the slow forms. *)
CriteriaMatchSlow ==
  /\ Considered =>
       (SimpleCriterion(newGen, oldGen) <=> SimpleCriterionSlow(newGen, oldGen))
  /\ Popping =>
       \A p \in TopPairs :
         ~IsRetired(p) =>
           /\ SimpleCriterion(p[1], p[2]) <=> SimpleCriterionSlow(p[1], p[2])
           /\ AdvancedCriterion(p[1], p[2]) <=> AdvancedCriterionSlow(p[1], p[2])

(* What ClassicGBAlg knows of its basis and queue is accurate, through
   insertions, retirements and early ends. *)
BookkeepingAccurate ==
  /\ PairsReducedOnce
  /\ GroupIsSound
  /\ LiveLeadsMinimal
  /\ LeadMinimalAccurate
  /\ CriteriaMatchSlow

(* The algorithm returns, or throws when the index type overflows. *)
Termination == <>(pc \in {"done", "overflow"})
=============================================================================
