------------------------------ MODULE Reducers ------------------------------
(***************************************************************************)
(* The reducers that keep the terms of a reduction in a priority queue:    *)
(* TypicalReducer and its subclasses NoDedup, Dedup, Pack, PackDedup, Hash *)
(* and HashPack.  They agree on what a reduction is and differ in what the *)
(* queue holds and in when the sum of like terms is taken:                 *)
(*                                                                         *)
(*   NoDedup     single terms, added up when they are the largest          *)
(*   Dedup       single terms, and also added up when the queue compares   *)
(*   Pack        multiples of polynomials, by their current term           *)
(*   PackDedup   chains of such multiples with the same current monomial   *)
(*   Hash        single monomials; the coefficients are in a hash table    *)
(*   HashPack    multiples of polynomials whose current monomial is the    *)
(*               only one of its kind; the coefficient is in a hash table  *)
(*                                                                         *)
(* The queue itself is mathic's: its top may be any of its largest         *)
(* entries, and it may compare, and so deduplicate, whenever it is used.   *)
(***************************************************************************)
EXTENDS Naturals, Sequences, SequencesExt, FiniteSetsExt, Functions

CONSTANTS
  P,       \* the modulus
  Degree,  \* no monomial is larger
  Basis,   \* the elements [lead, terms, sig], all monic
  Calls    \* the sequences of reductions that clients ask of a Reducer

(* What clients ask: polynomials are in order and without zeros, and fit,  *)
(* also when they are multiplied; P is a prime.                            *)
Descending(terms) ==
  \A i, j \in DOMAIN terms : i < j => terms[i].mono > terms[j].mono

Polynomials ==
  {terms \in Seq([mono : 0 .. Degree, coef : 1 .. P - 1]) : Descending(terms)}

Jobs ==
  [op : {"classicReducePolySet"}, poly : Polynomials]
    \cup [op : {"classicTailReduce"}, poly : Polynomials \ {<<>>}]
    \cup [op : {"classicReduceSPolySet"}, a : DOMAIN Basis, b : DOMAIN Basis]
    \cup {job \in [op : {"regularReduce"}, multiple : 0 .. Degree, element : DOMAIN Basis] :
            Basis[job.element].lead + job.multiple <= Degree}

InputsFit ==
  /\ P \in Nat /\ P > 1 /\ \A a \in 2 .. P - 1 : P % a # 0
  /\ Degree \in Nat
  /\ \A g \in DOMAIN Basis :
       /\ Basis[g].terms \in Polynomials \ {<<>>}
       /\ Head(Basis[g].terms) = [mono |-> Basis[g].lead, coef |-> 1]
  /\ Calls \subseteq Seq(Jobs)

ASSUME InputsAssumption == InputsFit

VARIABLES
  reducer,     \* which of the subclasses it is
  jobs,        \* the reductions still to do
  stage,       \* of the first: "idle", "reducing" or "adding" like terms
  queue,       \* the entries: chains of spans, which are runs of terms
  table,       \* the hash table, from monomials to coefficients
  lead,        \* mLeadTerm and mLeadTermKnown
  result,      \* the terms of the remainder so far
  reducedOut   \* the finished reductions [job, poly]

vars == <<reducer, jobs, stage, queue, table, lead, result, reducedOut>>

Kinds == {"NoDedup", "Dedup", "Pack", "PackDedup", "Hash", "HashPack"}
Hashed == reducer \in {"Hash", "HashPack"}

Monos == 0 .. Degree
Coefs == 0 .. P - 1
NoLead == [known |-> FALSE, mono |-> 0, coef |-> 0]

----------------------------------------------------------------------------
(* Polynomials are sequences of terms in descending order. *)

Term(m, c) == [mono |-> m, coef |-> c]

(* f[1] + ... + f[n] *)
Total(f, n) ==
  LET upTo[k \in 0..n] == IF k = 0 THEN 0 ELSE upTo[k - 1] + f[k]
  IN  upTo[n]

(* What the monomial m has in a polynomial *)
Coefficient(terms, m) ==
  LET at == {k \in DOMAIN terms : terms[k].mono = m}
  IN  IF at = {} THEN 0 ELSE terms[CHOOSE k \in at : TRUE].coef

Multiple(coef, u, terms) ==
  [i \in DOMAIN terms |-> Term(terms[i].mono + u, (terms[i].coef * coef) % P)]

MakeMonic(terms) ==
  IF terms = <<>>
    THEN terms
    ELSE LET c == CHOOSE c \in 1 .. P - 1 : (c * Head(terms).coef) % P = 1
         IN  Multiple(c, 0, terms)

Reduces(g, m, job) ==
  /\ Basis[g].lead <= m
  /\ job.op = "regularReduce" =>
       Basis[g].sig + (m - Basis[g].lead)
         < Basis[job.element].sig + job.multiple

Reducers(m, job) == {g \in DOMAIN Basis : Reduces(g, m, job)}

----------------------------------------------------------------------------
(* What a reducer keeps is a store [queue, table]. *)

Store == [queue |-> queue, table |-> table]

Span(entry) == entry[1]
Current(entry) == Span(entry)[1]
MonosIn(q) == {Current(q[i]).mono : i \in DOMAIN q}
Tops(q) == {i \in DOMAIN q : Current(q[i]).mono = Max(MonosIn(q))}

(* A span that has no term left is destroyed, any other is pushed. *)
PushSpan(q, span) == IF span = <<>> THEN q ELSE Append(q, <<span>>)

(* PolyHashTable::insertProduct *)
AddToTable(tab, t) ==
  IF t.mono \in DOMAIN tab
    THEN [tab EXCEPT ![t.mono] = (@ + t.coef) % P]
    ELSE [m \in DOMAIN tab \cup {t.mono} |-> IF m = t.mono THEN t.coef ELSE tab[m]]

(* Mutated form: a like term goes into the queue a second time. *)
InsertTermTwice(s, t) ==
  [queue |-> Append(s.queue, <<<<t>>>>), table |-> AddToTable(s.table, t)]

(* A term goes into the queue only if it is new to the hash table. *)
InsertTerm(s, t) ==
  [queue |-> IF t.mono \in DOMAIN s.table
               THEN s.queue
               ELSE Append(s.queue, <<<<t>>>>),
   table |-> AddToTable(s.table, t)]

(* HashPack adds the terms of a span to those already in the table, up to  *)
(* the first one that is new.  That one represents the span in the queue.  *)
InsertEntry(s, span) ==
  LET found == Max({n \in 0 .. Len(span) :
                      \A i \in 1 .. n : span[i].mono \in DOMAIN s.table})
      added == [m \in DOMAIN s.table |->
                  (s.table[m] + Coefficient(SubSeq(span, 1, found), m)) % P]
      rest == SubSeq(span, found + 1, Len(span))
  IN  [queue |-> PushSpan(s.queue, rest),
       table |-> IF rest = <<>> THEN added ELSE AddToTable(added, rest[1])]

InsertTerms(s, terms) ==
  LET after[k \in 0 .. Len(terms)] == IF k = 0 THEN s ELSE InsertTerm(after[k - 1], terms[k])
  IN  after[Len(terms)]

(* insert and insertTail *)
Insert(s, terms) ==
  CASE reducer = "HashPack" -> InsertEntry(s, terms)
    [] reducer = "Hash" -> InsertTerms(s, terms)
    [] reducer \in {"Pack", "PackDedup"} ->
         [s EXCEPT !.queue = PushSpan(@, terms)]
    [] OTHER -> [s EXCEPT !.queue = @ \o [i \in DOMAIN terms |-> <<<<terms[i]>>>>]]

InsertTail(s, coef, u, terms) == Insert(s, Tail(Multiple(coef, u, terms)))

(* A top entry of a hashed reducer goes, with its node; HashPack moves on  *)
(* to the next term of the span that is new to the table.                  *)
RemoveTop(s, i) ==
  LET m == Current(s.queue[i]).mono
      removed == [queue |-> RemoveAt(s.queue, i),
                  table |-> Restrict(s.table, DOMAIN s.table \ {m})]
  IN  InsertEntry(removed, Tail(Span(s.queue[i])))

SetStore(s) == queue' = s.queue /\ table' = s.table

----------------------------------------------------------------------------
Init ==
  /\ reducer \in Kinds
  /\ jobs \in Calls
  /\ stage = "idle"
  /\ queue = <<>>
  /\ table = <<>>
  /\ lead = NoLead
  /\ result = <<>>
  /\ reducedOut = <<>>

Begin(s, remainder) ==
  /\ SetStore(s)
  /\ result' = remainder
  /\ stage' = "reducing"
  /\ UNCHANGED <<reducer, jobs, lead, reducedOut>>

StartPoly ==
  /\ stage = "idle" /\ jobs # <<>>
  /\ Head(jobs).op = "classicReducePolySet"
  /\ Begin(Insert(Store, Head(jobs).poly), <<>>)

StartTail ==
  /\ stage = "idle" /\ jobs # <<>>
  /\ Head(jobs).op = "classicTailReduce"
  /\ LET poly == Head(jobs).poly
     IN  Begin(InsertTail(Store, 1, 0, poly), <<Head(poly)>>)

StartSPoly ==
  /\ stage = "idle" /\ jobs # <<>>
  /\ Head(jobs).op = "classicReduceSPolySet"
  /\ LET a == Basis[Head(jobs).a]
         b == Basis[Head(jobs).b]
         lcm == Max({a.lead, b.lead})
         first == InsertTail(Store, 1, lcm - a.lead, a.terms)
     IN  Begin(InsertTail(first, P - 1, lcm - b.lead, b.terms), <<>>)

StartRegular ==
  /\ stage = "idle" /\ jobs # <<>>
  /\ Head(jobs).op = "regularReduce"
  /\ LET job == Head(jobs)
         e == Basis[job.element]
         tproduct == e.lead + job.multiple
         first == InsertTail(Store, 1, job.multiple, e.terms)
     IN  \E g \in Reducers(tproduct, job) :
           Begin(InsertTail(first, P - 1, tproduct - Basis[g].lead,
                            Basis[g].terms), <<>>)

(* The leading term has no regular reducer: regularReduce returns null. *)
RefuseRegular ==
  /\ stage = "idle" /\ jobs # <<>>
  /\ Head(jobs).op = "regularReduce"
  /\ Reducers(Basis[Head(jobs).element].lead + Head(jobs).multiple, Head(jobs)) = {}
  /\ jobs' = Tail(jobs)
  /\ UNCHANGED <<reducer, stage, queue, table, lead, result, reducedOut>>

----------------------------------------------------------------------------
(* The queue compares two like entries and replaces them by one: the sum   *)
(* of the two terms, or the two chains merged.                             *)
Deduplicate ==
  /\ reducer \in {"Dedup", "PackDedup"}
  /\ \E i, j \in DOMAIN queue :
       LET a == Current(queue[i])
           b == Current(queue[j])
           merged == IF reducer = "Dedup"
                       THEN <<<<Term(a.mono, (a.coef + b.coef) % P)>>>>
                       ELSE queue[i] \o queue[j]
       IN  /\ i < j
           /\ a.mono = b.mono
           /\ queue' = RemoveAt([queue EXCEPT ![i] = merged], j)
  /\ UNCHANGED <<reducer, jobs, stage, table, lead, result, reducedOut>>

(* The sum of the current terms of a chain, and the queue once its spans   *)
(* have moved on, each for itself, to their next terms                     *)
ChainSum(entry) ==
  Total([k \in DOMAIN entry |-> entry[k][1].coef], Len(entry)) % P

(* Mutated form: the entry moves on but what is chained to it is dropped. *)
AdvanceHeadOnly(i) == PushSpan(RemoveAt(queue, i), Tail(Span(queue[i])))

Advance(i) ==
  LET after[k \in 0 .. Len(queue[i])] ==
        IF k = 0 THEN RemoveAt(queue, i) ELSE PushSpan(after[k - 1], Tail(queue[i][k]))
  IN  after[Len(queue[i])]

(* leadTerm begins with any of the largest entries. *)
FirstTop ==
  /\ stage = "reducing" /\ ~Hashed /\ ~lead.known
  /\ \E i \in Tops(queue) :
       /\ lead' = [known |-> FALSE, mono |-> Current(queue[i]).mono,
                   coef |-> ChainSum(queue[i])]
       /\ queue' = Advance(i)
  /\ stage' = "adding"
  /\ UNCHANGED <<reducer, jobs, table, result, reducedOut>>

LikeTops == {i \in Tops(queue) : Current(queue[i]).mono = lead.mono}

NextTop ==
  /\ stage = "adding"
  /\ \E i \in LikeTops :
       /\ lead' = [lead EXCEPT !.coef = (@ + ChainSum(queue[i])) % P]
       /\ queue' = Advance(i)
  /\ UNCHANGED <<reducer, jobs, stage, table, result, reducedOut>>

(* Mutated form: after a cancellation the next leading term is not looked  *)
(* for among the smaller entries.                                          *)
EndUnlessCancelled ==
  /\ stage = "adding"
  /\ LikeTops = {}
  /\ lead' = [lead EXCEPT !.known = lead.coef # 0]
  /\ stage' = IF lead.coef # 0 THEN "reducing" ELSE "adding"
  /\ UNCHANGED <<reducer, jobs, queue, table, result, reducedOut>>

(* There are no more like terms.  Unless they have cancelled, the leading  *)
(* term is known.                                                          *)
EndOfLikeTerms ==
  /\ stage = "adding"
  /\ LikeTops = {}
  /\ lead' = [lead EXCEPT !.known = lead.coef # 0]
  /\ stage' = "reducing"
  /\ UNCHANGED <<reducer, jobs, queue, table, result, reducedOut>>

(* A hashed reducer drops the largest term if its coefficient is zero. *)
DropZero ==
  /\ stage = "reducing" /\ Hashed
  /\ \E i \in Tops(queue) :
       /\ table[Current(queue[i]).mono] = 0
       /\ SetStore(RemoveTop(Store, i))
  /\ UNCHANGED <<reducer, jobs, stage, lead, result, reducedOut>>

----------------------------------------------------------------------------
(* The leading term as leadTerm has returned it, and the store after       *)
(* removeLeadTerm; none while leadTerm is still looking for it             *)
LeadTerms ==
  IF Hashed
    THEN {[term |-> Term(Current(queue[i]).mono, table[Current(queue[i]).mono]),
           store |-> RemoveTop(Store, i)] :
            i \in {i \in Tops(queue) : table[Current(queue[i]).mono] # 0}}
    ELSE {[term |-> Term(lead.mono, lead.coef), store |-> Store] :
            known \in {lead.known} \cap {TRUE}}

(* No element reduces the leading term, so it goes to the result. *)
KeepLead ==
  /\ stage = "reducing"
  /\ \E l \in LeadTerms :
       /\ Reducers(l.term.mono, Head(jobs)) = {}
       /\ result' = Append(result, l.term)
       /\ SetStore(l.store)
  /\ lead' = [lead EXCEPT !.known = FALSE]
  /\ UNCHANGED <<reducer, jobs, stage, reducedOut>>

(* The leading term is cancelled by a multiple of a basis element, whose   *)
(* tail goes into the queue.                                               *)
ReduceLead ==
  /\ stage = "reducing"
  /\ \E l \in LeadTerms : \E g \in Reducers(l.term.mono, Head(jobs)) :
       SetStore(InsertTail(l.store, P - l.term.coef,
                           l.term.mono - Basis[g].lead, Basis[g].terms))
  /\ lead' = [lead EXCEPT !.known = FALSE]
  /\ UNCHANGED <<reducer, jobs, stage, result, reducedOut>>

(* Nothing is left.  The set operations leave zero out of their output. *)
Finish ==
  /\ stage = "reducing"
  /\ queue = <<>> /\ ~lead.known
  /\ reducedOut' =
       IF result = <<>>
          /\ Head(jobs).op \in {"classicReducePolySet", "classicReduceSPolySet"}
         THEN reducedOut
         ELSE Append(reducedOut, [job |-> Head(jobs), poly |-> MakeMonic(result)])
  /\ jobs' = Tail(jobs)
  /\ stage' = "idle"
  /\ table' = <<>>
  /\ result' = <<>>
  /\ UNCHANGED <<reducer, queue, lead>>

Done ==
  /\ stage = "idle" /\ jobs = <<>>
  /\ UNCHANGED vars

Next ==
  \/ StartPoly \/ StartTail \/ StartSPoly \/ StartRegular \/ RefuseRegular
  \/ Deduplicate
  \/ FirstTop \/ NextTop \/ EndOfLikeTerms
  \/ DropZero
  \/ KeepLead \/ ReduceLead
  \/ Finish
  \/ Done

Spec == Init /\ [][Next]_vars

----------------------------------------------------------------------------
(* Properties *)

Polys == Seq([mono : Monos, coef : Coefs])

(* The variables have the types that the code gives them. *)
TypeOK ==
  /\ reducer \in Kinds
  /\ stage \in {"idle", "reducing", "adding"}
  /\ \A i \in DOMAIN queue : queue[i] # <<>>
       /\ \A k \in DOMAIN queue[i] : queue[i][k] # <<>> /\ queue[i][k] \in Polys
  /\ DOMAIN table \subseteq Monos
  /\ \A m \in DOMAIN table : table[m] \in Coefs
  /\ lead \in [known : BOOLEAN, mono : Monos, coef : Coefs]
  /\ result \in Polys

(* In a hashed reducer every term has one node in the table and one entry  *)
(* in the queue, however often its monomial is inserted and removed.       *)
OneEntryPerMono ==
  Hashed =>
    /\ MonosIn(queue) = DOMAIN table
    /\ Len(queue) = Cardinality(DOMAIN table)

(* Entries chained by PackDedup share their current monomial, so that all  *)
(* of them move on when it has become the leading one; no entry is left    *)
(* behind at a monomial that is larger than a leading term already taken.  *)
ChainsAreLike ==
  \A i \in DOMAIN queue :
    /\ \A k \in DOMAIN queue[i] : queue[i][k][1].mono = Current(queue[i]).mono
    /\ stage # "idle" /\ result # <<>> => Current(queue[i]).mono < Last(result).mono
    /\ lead.known => Current(queue[i]).mono < lead.mono

(* The value of the polynomial at the point x, and the job's polynomial *)
Power(x, n) ==
  LET power[k \in 0..n] == IF k = 0 THEN 1 ELSE (x * power[k - 1]) % P
  IN  power[n]
Value(terms, x) ==
  Total([k \in DOMAIN terms |-> terms[k].coef * Power(x, terms[k].mono)], Len(terms)) % P

Zeros == {x \in 0 .. P - 1 : \A g \in DOMAIN Basis : Value(Basis[g].terms, x) = 0}

(* A result is congruent, up to a constant, to the polynomial that was to  *)
(* be reduced: they agree wherever the whole basis vanishes.  Nothing in   *)
(* it can be reduced any more, but for the term that a tail reduction      *)
(* leaves alone, and its terms are in descending order without repetition. *)
ResultsAreNormal ==
  \A i \in DOMAIN reducedOut :
    LET job == reducedOut[i].job
        poly == reducedOut[i].poly
    IN  /\ \A k, l \in DOMAIN poly : k < l => poly[k].mono > poly[l].mono
        /\ \A k \in DOMAIN poly :
             \/ Reducers(poly[k].mono, job) = {}
             \/ k = 1 /\ job.op = "classicTailReduce"
        /\ \E c \in 1 .. P - 1 : \A x \in Zeros :
             Value(poly, x) =
               IF "poly" \in DOMAIN job THEN (c * Value(job.poly, x)) % P ELSE 0

(* A hashed reducer has one entry for each of its terms; terms that are    *)
(* chained are alike; a result is reduced and congruent to what was given. *)
EntriesAreSound == TypeOK /\ OneEntryPerMono /\ ChainsAreLike /\ ResultsAreNormal

(* However the queue orders and merges like terms, every kind of reducer   *)
(* divides with remainder: what is in the queue, the table and mLeadTerm   *)
(* is the sum that is left to divide.                                      *)
AsFunction(terms) == [m \in Monos |-> Coefficient(terms, m)]

(* A hashed reducer has the first term of a span in its table. *)
Rest(span, hashed) == IF hashed THEN Tail(span) ELSE span
Chained(entry, hashed, m) ==
  Total([k \in DOMAIN entry |-> Coefficient(Rest(entry[k], hashed), m)], Len(entry))
Queued(q, hashed, m) == Total([i \in DOMAIN q |-> Chained(q[i], hashed, m)], Len(q))
Stored(tab, m) == IF m \in DOMAIN tab THEN tab[m] ELSE 0
Taken(m) == IF (stage = "adding" \/ lead.known) /\ m = lead.mono THEN lead.coef ELSE 0
Waiting == [m \in Monos |-> (Queued(queue, Hashed, m) + Stored(table, m) + Taken(m)) % P]

JobAsFunction(job) ==
  IF "poly" \in DOMAIN job THEN [job EXCEPT !.poly = AsFunction(@)] ELSE job

Division == INSTANCE Reduction WITH
  Basis <- [g \in DOMAIN Basis |-> [lead |-> Basis[g].lead, sig |-> Basis[g].sig,
                                    poly |-> AsFunction(Basis[g].terms)]],
  Calls <- {[i \in DOMAIN c |-> JobAsFunction(c[i])] : c \in Calls},
  jobs <- [i \in DOMAIN jobs |-> JobAsFunction(jobs[i])],
  active <- stage # "idle",
  sum <- Waiting,
  result <- AsFunction(result),
  reducedOut <- [i \in DOMAIN reducedOut |->
                   [job |-> JobAsFunction(reducedOut[i].job),
                    poly |-> AsFunction(reducedOut[i].poly)]]

ImplementsDivision == Division!Spec

(* Every call returns: the terms that a reduction step adds are smaller    *)
(* than the one it removes.                                                *)
ReductionsEnd == <>[](jobs = <<>>)
=============================================================================
