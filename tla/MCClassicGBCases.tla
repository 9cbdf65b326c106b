-------------------------- MODULE MCClassicGBCases --------------------------
(***************************************************************************)
(* Small cases of ClassicGBAlg side by side, each an instance with its own *)
(* monomials, options and input.                                           *)
(***************************************************************************)
EXTENDS Integers, FiniteSetsExt

CONSTANT NoMono

VARIABLES
  case, \* the instance that runs
  size, lead, retired, notMinimal, mEliminated, mQueue, hitCache,
  pc, computing, toInsert, toReduce, toRetire, oldGen, group, w, stopped, treated

Exponent(m, v) == IF v \in DOMAIN m.exp THEN m.exp[v] ELSE 0

TotalDegree(m) == Exponent(m, 1) + Exponent(m, 2) + Exponent(m, 3) + Exponent(m, 4)

(* The degree, then the exponents, then the component *)
MCOrderRank(m) ==
  m.comp + 4 * (Exponent(m, 4) + 4 * (Exponent(m, 3)
    + 4 * (Exponent(m, 2) + 4 * (Exponent(m, 1) + 4 * TotalDegree(m)))))

(* Sparse S-pairs are preferred: index 1 has the fewest terms, then 3. *)
MCTermCount == [i \in 0..4 |-> IF i % 2 = 0 THEN 5 ELSE i]
NotPreferred == [i \in 0..4 |-> 0]

Monos(vars, maxExp, components) == [exp : [vars -> 0..maxExp], comp : components]

(* Inputs of no two equal leads *)
Bags(monos, sets) == {[m \in monos |-> IF m \in S THEN 1 ELSE 0] : S \in sets}

(* Three leads of degree 3 in two variables, whose lcms coincide *)
ChainInputs ==
  LET monos == Monos(1..2, 3, {1})
  IN  Bags(monos, kSubset(3, {m \in monos : TotalDegree(m) = 3}))

Chain == INSTANCE ClassicGBAlg WITH
  Vars <- 1..2, MaxExp <- 3, Components <- {1}, OrderRank <- MCOrderRank,
  Degree <- TotalDegree, MaxIndex <- 4, TermCount <- MCTermCount, GroupSize <- 2,
  UseAutoTopReduction <- TRUE, BreakAfter <- 0, UseCallback <- FALSE,
  Inputs <- ChainInputs

(* Leads a, c, b, d with lcm(a, c) and lcm(b, d) smaller than the lcm of any
   other two: once (c, d) has been reduced, (a, d) and (c, b) fall to the simple
   criterion and only the graph of the advanced one can tell that (a, b) is
   useless. *)
GraphInputs ==
  LET Lead(e) == [exp |-> e, comp |-> 1]
  IN  Bags(Monos(1..4, 2, {1}),
           {{Lead(<<0, 1, 2, 2>>), Lead(<<1, 0, 2, 2>>),
             Lead(<<2, 2, 0, 1>>), Lead(<<2, 2, 1, 0>>)}})

Graph == INSTANCE ClassicGBAlg WITH
  Vars <- 1..4, MaxExp <- 2, Components <- {1}, OrderRank <- MCOrderRank,
  Degree <- TotalDegree, MaxIndex <- 4, TermCount <- NotPreferred, GroupSize <- 1,
  UseAutoTopReduction <- TRUE, BreakAfter <- 0, UseCallback <- FALSE,
  Inputs <- GraphInputs

(* The four square-free leads of degree 3, any two of the same lcm *)
EqualLcmInputs ==
  LET monos == Monos(1..4, 1, {1})
  IN  Bags(monos, {{m \in monos : TotalDegree(m) = 3}})

Groups == INSTANCE ClassicGBAlg WITH
  Vars <- 1..4, MaxExp <- 1, Components <- {1}, OrderRank <- MCOrderRank,
  Degree <- TotalDegree, MaxIndex <- 4, TermCount <- MCTermCount, GroupSize <- 3,
  UseAutoTopReduction <- TRUE, BreakAfter <- 0, UseCallback <- FALSE,
  Inputs <- EqualLcmInputs

(* Two leads in two variables and two components *)
ModuleInputs ==
  LET monos == Monos(1..2, 1, {1, 2})
  IN  {[m \in monos |-> Cardinality({i \in {1, 2} : s[i] = m})] : s \in monos \X monos}

NoAuto == INSTANCE ClassicGBAlg WITH
  Vars <- 1..2, MaxExp <- 1, Components <- {1, 2}, OrderRank <- MCOrderRank,
  Degree <- TotalDegree, MaxIndex <- 4, TermCount <- MCTermCount, GroupSize <- 3,
  UseAutoTopReduction <- FALSE, BreakAfter <- 3, UseCallback <- TRUE,
  Inputs <- ModuleInputs

(* Any three of the square-free leads in three variables, save 1 *)
SquareFreeInputs ==
  LET monos == Monos(1..3, 1, {1})
  IN  Bags(monos, kSubset(3, {m \in monos : TotalDegree(m) > 0}))

SquareFree == INSTANCE ClassicGBAlg WITH
  Vars <- 1..3, MaxExp <- 1, Components <- {1}, OrderRank <- MCOrderRank,
  Degree <- TotalDegree, MaxIndex <- 4, TermCount <- NotPreferred, GroupSize <- 2,
  UseAutoTopReduction <- TRUE, BreakAfter <- 0, UseCallback <- FALSE,
  Inputs <- SquareFreeInputs

vars == <<case, size, lead, retired, notMinimal, mEliminated, mQueue, hitCache,
          pc, computing, toInsert, toReduce, toRetire, oldGen, group, w, stopped,
          treated>>

Init ==
  \/ case = "chain" /\ Chain!Init
  \/ case = "graph" /\ Graph!Init
  \/ case = "groups" /\ Groups!Init
  \/ case = "noAuto" /\ NoAuto!Init
  \/ case = "squareFree" /\ SquareFree!Init

Next ==
  /\ UNCHANGED case
  /\ \/ case = "chain" /\ Chain!Next
     \/ case = "graph" /\ Graph!Next
     \/ case = "groups" /\ Groups!Next
     \/ case = "noAuto" /\ NoAuto!Next
     \/ case = "squareFree" /\ SquareFree!Next

Done == pc \in {"done", "overflow"}

-----------------------------------------------------------------------------
(* No S-pair is eliminated without cause, be it by chains of redundant
   elements or through the graph of the advanced criterion. *)
SyzygiesGenerated ==
  /\ case = "chain" => Chain!SyzygiesGenerated
  /\ case = "graph" => Graph!SyzygiesGenerated
  /\ case = "squareFree" => SquareFree!SyzygiesGenerated

(* Groups are of one degree while lcms coincide and pairs retire; S-pairs of
   one lcm that are reduced together share an element, where any two elements
   have that lcm.  No pair comes twice. *)
GroupIsSound ==
  /\ case = "chain" => Chain!GroupIsSound
  /\ case = "groups" => Groups!EqualLcmsShareElement
  /\ case = "squareFree" => SquareFree!PairsReducedOnce

(* The leadMinimal flags survive retirements, and are kept for each component
   of a module when nothing is retired.  The criteria with their cache and graph
   agree with the slow ones where only the graph can tell. *)
FastTestsMatchSlow ==
  /\ case = "chain" => Chain!LeadMinimalAccurate
  /\ case = "noAuto" => NoAuto!LeadMinimalAccurate
  /\ case = "graph" => Graph!CriteriaMatchSlow

(* No live lead divides another, though an element is inserted after others
   have been that were not there when it was reduced. *)
LiveLeadsMinimal ==
  /\ case = "squareFree" => SquareFree!LiveLeadsMinimal
  /\ case = "chain" => Chain!LiveLeadsMinimal
=============================================================================
