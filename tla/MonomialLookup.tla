--------------------------- MODULE MonomialLookup ---------------------------
(***************************************************************************)
(* The lookups of divisors: StaticMonoLookup, which MonoLookup and         *)
(* ModuleMonoSet are made of.  A list or a tree, which are mathic's, hands *)
(* over the divisors of a monomial one by one, in an order of its own, and *)
(* the lookup keeps the best it has seen.  The lookups of the reducers and *)
(* of signature bases are used elsewhere as if the order did not matter.   *)
(*                                                                         *)
(* A monomial is [component, exponents].  An element is [mono, terms,      *)
(* ratio, sig]: the monomial it is looked up by, its number of terms, and  *)
(* the places of its ratio and of its signature in their orders.           *)
(***************************************************************************)
EXTENDS Integers, Sequences, SequencesExt, FiniteSetsExt, Functions

CONSTANTS
  Bases,        \* the sequences of elements that are inserted
  Queries,      \* [mono, ratio] that are looked up
  MaxDivisors   \* of lowBaseDivisors

VARIABLES
  options,  \* [allowRemovals, preferSparseReducers]
  toCome,   \* the elements still to be inserted
  entries,  \* the elements of the basis
  mLookup,  \* the indices of those in the MonoLookup
  monoSet,  \* the monomials in the ModuleMonoSet, by component
  added,    \* history variable: all that were given to it
  query,    \* [kind, mono, ratio, new] under way, or NoQuery
  todo,     \* the divisors that the list or tree has not handed over yet
  found     \* what the lookup has kept

vars == <<options, toCome, entries, mLookup, monoSet, added, query, todo, found>>

NoQuery == [kind |-> "none"]

Divides(m, n) ==
  /\ m.component = n.component
  /\ \A v \in DOMAIN m.exponents : m.exponents[v] <= n.exponents[v]

Init ==
  /\ options \in [allowRemovals : BOOLEAN, preferSparseReducers : BOOLEAN]
  /\ toCome \in Bases
  /\ entries = <<>>
  /\ mLookup = {}
  /\ monoSet = [c \in {toCome[i].mono.component : i \in DOMAIN toCome} |-> {}]
  /\ added = {}
  /\ query = NoQuery
  /\ todo = {}
  /\ found = <<>>

(* ModuleMonoSet::member *)
Member(m) == \E n \in monoSet[m.component] : Divides(n, m)

(* Mutated form: multiples are removed and the monomial is not inserted    *)
(* for having a multiple.                                                  *)
InsertIntoSetOnce(m) ==
  IF Member(m) THEN UNCHANGED monoSet
  ELSE LET multiples == {n \in monoSet[m.component] : Divides(m, n)}
       IN  monoSet' = [monoSet EXCEPT ![m.component] =
             IF options.allowRemovals /\ multiples # {} THEN @ \ multiples ELSE @ \cup {m}]

(* ModuleMonoSet::insert *)
InsertIntoSet(m) ==
  IF Member(m) THEN UNCHANGED monoSet
  ELSE monoSet' = [monoSet EXCEPT ![m.component] =
         (IF options.allowRemovals THEN {n \in @ : ~Divides(m, n)} ELSE @) \cup {m}]

Insert ==
  /\ query = NoQuery /\ toCome # <<>>
  /\ entries' = Append(entries, Head(toCome))
  /\ mLookup' = mLookup \cup {Len(entries) + 1}
  /\ InsertIntoSet(Head(toCome).mono)
  /\ added' = added \cup {Head(toCome).mono}
  /\ toCome' = Tail(toCome)
  /\ UNCHANGED <<options, query, todo, found>>

RemoveElement(i) ==
  /\ query = NoQuery /\ options.allowRemovals
  /\ mLookup' = mLookup \ {i}
  /\ UNCHANGED <<options, toCome, entries, monoSet, added, query, todo, found>>

----------------------------------------------------------------------------
(* Queries *)

Kinds == {"divisors", "multiples", "classicReducer", "regularReducer", "lowBaseDivisors",
          "highBaseDivisor", "minimalLeadInSig"}

(* findAllDivisors, findAllMultiples *)
Handed(q) ==
  {i \in mLookup : IF q.kind = "multiples" THEN Divides(q.mono, entries[i].mono)
                   ELSE Divides(entries[i].mono, q.mono)}

Begin(kind, q) ==
  /\ query = NoQuery
  /\ query' = [kind |-> kind, mono |-> q.mono, ratio |-> q.ratio, new |-> q.new]
  /\ todo' = Handed([kind |-> kind, mono |-> q.mono])
  /\ found' = <<>>
  /\ UNCHANGED <<options, toCome, entries, mLookup, monoSet, added>>

(* Base divisors are those of an element among the elements before it. *)
BaseKinds == {"lowBaseDivisors", "highBaseDivisor"}

ElementQuery(new) == [mono |-> entries[new].mono, ratio |-> entries[new].ratio, new |-> new]

Older(i) == query.kind \in BaseKinds => i < query.new

Terms(i) == entries[i].terms
Ratio(i) == entries[i].ratio

(* i goes before j *)
Sparser(i, j) ==
  \/ options.preferSparseReducers /\ Terms(i) < Terms(j)
  \/ (options.preferSparseReducers => Terms(i) = Terms(j)) /\ i < j

HigherRatio(i, j) == Ratio(i) > Ratio(j) \/ (Ratio(i) = Ratio(j) /\ i < j)
LowerRatio(i, j) == Ratio(i) < Ratio(j) \/ (Ratio(i) = Ratio(j) /\ i < j)

(* The larger ratio, the more terms, the larger signature.  The comments   *)
(* in the code speak of fewer terms: see SparserIsSelected.                *)
LowerLead(i, j) ==
  \/ Ratio(i) > Ratio(j)
  \/ Ratio(i) = Ratio(j) /\ Terms(i) > Terms(j)
  \/ Ratio(i) = Ratio(j) /\ Terms(i) = Terms(j) /\ entries[i].sig > entries[j].sig

(* Which of two the queries for one element prefer *)
Before(i, j) ==
  CASE query.kind \in {"classicReducer", "regularReducer"} -> Sparser(i, j)
    [] query.kind = "highBaseDivisor" -> LowerRatio(i, j)
    [] query.kind = "minimalLeadInSig" -> LowerLead(i, j)

KeepBest(i) == IF found = <<>> \/ Before(i, found[1]) THEN <<i>> ELSE found

(* Before the first one that it beats, and no more than MaxDivisors *)
InsertLow(i) ==
  LET ahead == SelectSeq(found, LAMBDA j : ~HigherRatio(i, j))
      longer == ahead \o <<i>> \o SubSeq(found, Len(ahead) + 1, Len(found))
  IN  SubSeq(longer, 1, Min({MaxDivisors, Len(longer)}))

(* proceed, of each kind of query *)
Proceed(i) ==
  /\ todo' = todo \ {i}
  /\ found' = CASE query.kind \in {"divisors", "multiples"} -> Append(found, i)
                [] query.kind = "classicReducer" -> KeepBest(i)
                [] query.kind = "regularReducer" ->
                     IF query.ratio > Ratio(i) THEN KeepBest(i) ELSE found
                [] query.kind = "lowBaseDivisors" -> IF Older(i) THEN InsertLow(i) ELSE found
                [] query.kind = "highBaseDivisor" ->
                     IF Older(i) THEN KeepBest(i) ELSE found
                [] query.kind = "minimalLeadInSig" -> KeepBest(i)
  /\ UNCHANGED <<options, toCome, entries, mLookup, monoSet, added, query>>

Answer ==
  /\ query # NoQuery /\ todo = {}
  /\ query' = NoQuery
  /\ found' = <<>>
  /\ UNCHANGED <<options, toCome, entries, mLookup, monoSet, added, todo>>

Next ==
  \/ Insert
  \/ \E i \in mLookup : RemoveElement(i)
  \/ \E kind \in Kinds \ BaseKinds, q \in Queries :
       Begin(kind, [mono |-> q.mono, ratio |-> q.ratio, new |-> 0])
  \/ \E kind \in BaseKinds, new \in DOMAIN entries : Begin(kind, ElementQuery(new))
  \/ \E i \in todo : Proceed(i)
  \/ Answer

Spec == Init /\ [][Next]_vars

----------------------------------------------------------------------------
(* The set remembers all it was given, whether or not it has removed       *)
(* multiples, and after removals holds no two of which one divides the     *)
(* other.                                                                  *)
SetRemembersAll ==
  /\ \A m \in added : Member(m)
  /\ \A c \in DOMAIN monoSet : \A m \in monoSet[c] :
       /\ m \in added
       /\ options.allowRemovals => \A n \in monoSet[c] \ {m} : ~Divides(n, m)

(* The answer, defined with no regard to an order: the best in the order   *)
(* of the query of all that are in the lookup.                             *)
BestOf(S, before(_, _)) == SetToSortSeq(S, before)

Candidates == {i \in Handed(query) : Older(i)}

Wanted ==
  LET S == Candidates
      first(s) == SubSeq(s, 1, Min({1, Len(s)}))
  IN  CASE query.kind = "classicReducer" -> first(BestOf(S, Sparser))
        [] query.kind = "regularReducer" ->
             first(BestOf({i \in S : Ratio(i) < query.ratio}, Sparser))
        [] query.kind = "lowBaseDivisors" ->
             SubSeq(BestOf(S, HigherRatio), 1, Min({MaxDivisors, Cardinality(S)}))
        [] query.kind = "highBaseDivisor" -> first(BestOf(S, LowerRatio))

Tied(i) == {j \in Candidates : Ratio(j) = Ratio(i)}

(* The lead monomial that i has in the signature is the lowest.  Among     *)
(* those that tie, i has the fewest or the most terms, whichever it is     *)
(* that the lookup goes by, and among those the largest signature, so that *)
(* there is no other such i.                                               *)
LowestInSig(i) ==
  LET terms == {Terms(j) : j \in Tied(i)}
  IN  /\ i \in Candidates
      /\ \A j \in Candidates : Ratio(j) <= Ratio(i)
      /\ Terms(i) \in {Min(terms), Max(terms)}
      /\ \A j \in Tied(i) : Terms(j) = Terms(i) => entries[j].sig <= entries[i].sig

Answered == query # NoQuery /\ todo = {}

(* Whatever the order in which divisors are handed over, a query returns   *)
(* the same; minimalLeadInSig, one of two at most.                         *)
AnswersIgnoreOrder ==
  Answered =>
    CASE query.kind \in {"divisors", "multiples"} -> Range(found) = Handed(query)
      [] query.kind = "minimalLeadInSig" ->
           IF Candidates = {} THEN found = <<>>
           ELSE Len(found) = 1 /\ LowestInSig(found[1])
      [] OTHER -> found = Wanted

(* "In case of ties, we select the sparser elements."                      *)
SparserIsSelected ==
  Answered /\ query.kind = "minimalLeadInSig" /\ found # <<>> =>
    \A j \in Tied(found[1]) : Terms(found[1]) <= Terms(j)
=============================================================================
