---------------------------- MODULE MCAlgorithms ----------------------------
(***************************************************************************)
(* Instances for TLC of what has to come to an end: the signature basis    *)
(* algorithm, the Reducers that it leaves its reductions to, cases of the  *)
(* classic algorithm, and queries and inserts of a MonomialMap.  They      *)
(* share no state and run side by side: part says which one does, and the  *)
(* variables of the others idle.                                           *)
(***************************************************************************)
EXTENDS Reducers, Integers

CONSTANT NoMono

VARIABLES
  part, tick,
  options, GB, spairs, Hsyz, Hsyz2, mKoszuls, known, current, finished, \* SignatureGB
  case, size, leads, retired, notMinimal, mEliminated, mQueue, hitCache,
  pc, computing, toInsert, toReduce, toRetire, oldGen, group, w, stopped,
  treated,                                                      \* MCClassicGBCases
  bucketCounts, published, mCapacityUntilGrowth, mInsertionMutex, keyOf, log,
  growing, seen, loaded, reader, doing, key, rest, node, clears \* MonomialMap

SignatureVars == <<options, GB, spairs, Hsyz, Hsyz2, mKoszuls, known, current, finished>>
CaseVars == <<case, size, leads, retired, notMinimal, mEliminated, mQueue, hitCache,
              pc, computing, toInsert, toReduce, toRetire, oldGen, group, w, stopped,
              treated>>
MapVars == <<bucketCounts, published, mCapacityUntilGrowth, mInsertionMutex, keyOf, log,
             growing, seen, loaded, reader, doing, key, rest, node, clears>>
allVars == <<part, tick, SignatureVars, CaseVars, MapVars, vars>>

----------------------------------------------------------------------------
(* Pairs and triples of polynomials in x and y over the integers modulo 2, *)
(* every choice of parameters and several orders on the signatures         *)
one == <<0, 0>>
x == <<1, 0>>
y == <<0, 1>>
x2 == <<2, 0>>
xy == <<1, 1>>
y2 == <<0, 2>>

MCInputs ==
  {<<{x2, y}, {xy, x}>>,
   <<{x2, xy, one}, {y2, x}>>,
   <<{xy, y2}, {x2}>>,
   <<{<<2, 1>>, one}, {<<1, 2>>, x}>>,
   <<{x}, {x2, y}>>,
   <<{<<2, 1>>, one}, {<<1, 2>>, <<0, 3>>}>>,
   <<{xy, y}, {x2, y2}, {y2, x}>>}

Order(componentFirst, ascending, desired, schreyer) ==
  [componentFirst |-> componentFirst, ascending |-> ascending, desired |-> desired,
   schreyer |-> schreyer]

MCOptions ==
  [postponeKoszul : BOOLEAN, useBaseDivisors : BOOLEAN,
   preferSparseReducers : BOOLEAN, useSingularCriterionEarly : BOOLEAN,
   order : {Order(FALSE, TRUE, TRUE, FALSE), Order(TRUE, FALSE, TRUE, FALSE),
            Order(FALSE, FALSE, FALSE, TRUE), Order(FALSE, TRUE, FALSE, TRUE)}]

Signature == INSTANCE SignatureGB WITH
  queue <- spairs, Inputs <- MCInputs, Options <- MCOptions

----------------------------------------------------------------------------
(* Reducers over the integers modulo 5, of multiples of x^3 - x, whose     *)
(* zeros are 0, 1 and 4                                                    *)
MCBasis ==
  <<[lead |-> 3, sig |-> 0, terms |-> <<Term(3, 1), Term(1, 4)>>],
    [lead |-> 4, sig |-> 3,
     terms |-> <<Term(4, 1), Term(3, 4), Term(2, 4), Term(1, 1)>>],
    [lead |-> 5, sig |-> 4,
     terms |-> <<Term(5, 1), Term(4, 2), Term(2, 3), Term(1, 4)>>]>>

Poly(p) == [op |-> "classicReducePolySet", poly |-> p]
TailOf(p) == [op |-> "classicTailReduce", poly |-> p]
SPoly(i, j) == [op |-> "classicReduceSPolySet", a |-> i, b |-> j]
Regular(u, e) == [op |-> "regularReduce", multiple |-> u, element |-> e]

MCCalls ==
  {<<SPoly(2, 3), Poly(<<Term(5, 2), Term(3, 1), Term(2, 3), Term(0, 1)>>)>>,
   <<TailOf(<<Term(6, 1), Term(5, 3), Term(4, 2), Term(1, 1)>>), Regular(1, 3)>>,
   <<Regular(0, 1), Regular(1, 2), Regular(0, 3)>>}

MCP == 5
MCDegree == 6

(* Where another part runs, nothing is asked of the Reducer. *)
MCAllCalls == MCCalls \cup {<<>>}

----------------------------------------------------------------------------
Cases == INSTANCE MCClassicGBCases WITH lead <- leads

(* One thread queries while another inserts two entries that share their   *)
(* bucket in every table; a third call of insert grows the table to 8      *)
(* buckets, though it finds its key.  It is cleared once.                  *)
Map == INSTANCE MonomialMap WITH
  Threads <- {"t1", "t2"}, Queriers <- {"t1"}, Inserters <- {"t2"},
  Keys <- {"k1", "k2"}, Hash <- [k \in {"k1", "k2"} |-> 1],
  ToInsert <- {"k1", "k2"}, Pairs <- {}, SizeMax <- 15, MaxClears <- 1,
  NoThread <- "none", NoKey <- "none", NoReader <- -1, pc <- doing

----------------------------------------------------------------------------
Idle == "idle"

MCInit ==
  /\ Init
  /\ tick = 0
  /\ part \in IF jobs = <<>> THEN {"signature", "cases", "map"} ELSE {"reducer"}
  /\ part # "reducer" => reducer = "NoDedup"
  /\ IF part = "signature" THEN Signature!Init
     ELSE /\ options = Idle /\ GB = Idle /\ spairs = Idle /\ Hsyz = Idle
          /\ Hsyz2 = Idle /\ mKoszuls = Idle /\ known = Idle /\ current = Idle
          /\ finished = Idle
  /\ IF part = "cases" THEN Cases!Init
     ELSE /\ case = Idle /\ size = Idle /\ leads = Idle /\ retired = Idle
          /\ notMinimal = Idle /\ mEliminated = Idle /\ mQueue = Idle
          /\ hitCache = Idle /\ pc = Idle /\ computing = Idle /\ toInsert = Idle
          /\ toReduce = Idle /\ toRetire = Idle /\ oldGen = Idle /\ group = Idle
          /\ w = Idle /\ stopped = Idle /\ treated = Idle
  /\ IF part = "map" THEN Map!Init
     ELSE /\ bucketCounts = Idle /\ published = Idle /\ mCapacityUntilGrowth = Idle
          /\ mInsertionMutex = Idle /\ keyOf = Idle /\ log = Idle /\ growing = Idle
          /\ seen = Idle /\ loaded = Idle /\ reader = Idle /\ doing = Idle
          /\ key = Idle /\ rest = Idle /\ node = Idle /\ clears = Idle

SequentialStep ==
  CASE part = "signature" -> Signature!Next /\ UNCHANGED <<CaseVars, MapVars, vars>>
    [] part = "reducer" -> Next /\ UNCHANGED <<SignatureVars, CaseVars, MapVars>>
    [] part = "cases" -> Cases!Next /\ UNCHANGED <<SignatureVars, MapVars, vars>>

IsDone ==
  CASE part = "signature" -> finished
    [] part = "reducer" -> jobs = <<>>
    [] part = "cases" -> Cases!Done

(* Tells a step from the one before it, even if that changes nothing else *)
Tick == part # "map" /\ ~IsDone /\ tick' = 1 - tick

(* Of the map, what a thread does by itself *)
MapStep(t) == part = "map" /\ Map!Step(t)
MapLatest(t, n) == part = "map" /\ Map!AdvanceLatest(t, n)

MCNext ==
  /\ UNCHANGED part
  /\ \/ /\ part # "map" /\ SequentialStep
        /\ Tick \/ (IsDone /\ UNCHANGED tick)
     \/ /\ part = "map" /\ Map!Next
        /\ UNCHANGED <<tick, SignatureVars, CaseVars, vars>>

(* The algorithms are loops that go on until they are done: fairness of    *)
(* Tick is that of their steps, as there is no deadlock, and TLC sees at   *)
(* once where it is enabled.  The threads of the map are each fair.        *)
MCSpec ==
  /\ MCInit /\ [][MCNext]_allVars
  /\ WF_tick(Tick)
  /\ \A t \in {"t1", "t2"} : WF_MapVars(MapStep(t))
  /\ \A n \in {1, 2} : SF_MapVars(MapLatest("t1", n))

----------------------------------------------------------------------------
(* What the signatures stand for is true of every element, of the tables   *)
(* of syzygies and of the pairs marked as such; no syzygy is there twice   *)
(* and no element in vain.                                                 *)
SignaturesAreTrue ==
  part = "signature" =>
    /\ Signature!TypeOK /\ Signature!SignaturesAreTrue /\ Signature!KnownSyzygiesHold
    /\ Signature!SyzygiesAreMinimal /\ Signature!NoSingularElement

(* Signatures are dealt with in ascending order, each of them once.        *)
SignaturesAscend ==
  [][\/ part # "signature" \/ current' = current \/ current = <<>>
     \/ Signature!SigKey(current[1]) < Signature!SigKey(current'[1])]_allVars

(* What has been computed at the end is a Groebner basis and a signature   *)
(* basis, whichever criteria, parameters and orders are used.              *)
FinalSignatureBasis ==
  part = "signature" => Signature!FinalIsGroebner /\ Signature!FinalSignatureBasis

(* The loop of steps ends: there are finitely many signatures to come.     *)
ComputationEnds == <>(part = "signature" => finished)

(* In the cases of the classic algorithm no S-pair is eliminated without   *)
(* cause, be it by chains of redundant elements or through the graph of    *)
(* the advanced criterion.                                                 *)
SyzygiesGenerated == part = "cases" => Cases!SyzygiesGenerated

(* Its groups are of one degree while lcms coincide and pairs retire;      *)
(* S-pairs of one lcm that are reduced together share an element; no pair  *)
(* comes twice.                                                            *)
GroupIsSound == part = "cases" => Cases!GroupIsSound

(* Flags and criteria agree with their slow forms, after retirements, in   *)
(* modules and where only the graph can tell.                              *)
FastTestsMatchSlow == part = "cases" => Cases!FastTestsMatchSlow

(* No live lead divides another, though elements are inserted that were    *)
(* reduced before others came.                                             *)
LiveLeadsMinimal == part = "cases" => Cases!LiveLeadsMinimal

(* The classic algorithm returns, or throws when the index type overflows, *)
(* also when insertPolys feeds what it retires back to itself.             *)
Termination == <>(part = "cases" => Cases!Done)

(* FixedSizeMonomialMap.h:68, MonomialMap.hpp:20: a query returns, also    *)
(* when the table it walks is being taken apart meanwhile.                 *)
QueriesReturn ==
  (part = "map" /\ doing["t1"] \in {"bucket", "search"})
    ~> (part = "map" /\ doing["t1"] = "idle")

(* MonomialMap.hpp:157-196: an insert that has the lock gives it back.     *)
InsertsReturn ==
  (part = "map" /\ mInsertionMutex = "t2") ~> (part = "map" /\ mInsertionMutex # "t2")
=============================================================================
