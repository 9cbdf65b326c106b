--------------------------- MODULE F4MatrixBuilder ---------------------------
(***************************************************************************)
(* F4MatrixBuilder, the older of the two builders, with QuadMatrixBuilder  *)
(* and the part of QuadMatrix it ends in: threads append the rows of a     *)
(* matrix, each to matrices of its own, and create the columns they come   *)
(* upon, left ones for monomials that have a reducer.  Then rows are put   *)
(* together and columns put in order.                                      *)
(*                                                                         *)
(* As in F4MatrixBuilder2 a monomial is a number and the product the sum.  *)
(* A term is [mono, coef].  Columns are created under a lock, the body of  *)
(* which is one step here; the map is used as it promises: a thread may    *)
(* miss what another one has inserted since the two synchronised.          *)
(***************************************************************************)
EXTENDS Integers, Sequences, SequencesExt, FiniteSetsExt, Functions

CONSTANTS
  Threads,
  TermsOf,   \* the terms of each polynomial
  Reducers,  \* for each monomial, those that classicReducer may return
  Inputs,    \* [tasks, maxMono], the latter the largest of ample capacity
  Charac,    \* of the field
  NoPoly,    \* null
  NoLead     \* null

VARIABLES
  phase,    \* "build", "merge", "done" or "failed"
  input,    \* history variable: what is built
  mTodo,    \* tasks that no thread has taken
  mMap,     \* from monomial to [left, index]
  known,    \* the columns a thread has synchronised with
  work,     \* the row a thread is appending, or NoWork
  builders, \* the rows of a thread, [top, bottom]
  matrix    \* the matrix, [top, bottom, leftMonos, rightMonos]

vars == <<phase, input, mTodo, mMap, known, work, builders, matrix>>

Columns == DOMAIN mMap

ColCount(left) == Cardinality({m \in Columns : mMap[m].left = left})

MinOf(x, y) == IF x < y THEN x ELSE y

LeadOf(p) == TermsOf[p][1].mono

(* The terms of p times what takes its lead to lead *)
Product(p, lead) ==
  LET multiple == IF lead = NoLead THEN 0 ELSE lead - LeadOf(p)
  IN  [i \in DOMAIN TermsOf[p] |-> [TermsOf[p][i] EXCEPT !.mono = @ + multiple]]

Negated(terms) == [i \in DOMAIN terms |-> [terms[i] EXCEPT !.coef = (-@) % Charac]]

NoWork == [task |-> NoPoly]

(* RowTask.  An S-pair is that of monic polynomials, its lead terms cancel. *)
NewWork(k) ==
  IF k.other = NoPoly
    THEN [task |-> k, a |-> Product(k.poly, k.lead), b |-> <<>>, row |-> <<>>, create |-> <<>>]
  ELSE [task |-> k, a |-> Tail(Product(k.poly, k.lead)),
        b |-> Tail(Product(k.other, k.lead)), row |-> <<>>, create |-> <<>>]

Init ==
  /\ phase = "build"
  /\ input \in Inputs
  /\ mTodo = input.tasks
  /\ mMap = <<>>
  /\ known = [t \in Threads |-> {}]
  /\ work = [t \in Threads |-> NoWork]
  /\ builders = [t \in Threads |-> [top |-> <<>>, bottom |-> <<>>]]
  /\ matrix = <<>>

TakeTask(t) ==
  /\ phase = "build" /\ work[t] = NoWork
  /\ \E k \in mTodo :
       /\ mTodo' = mTodo \ {k}
       /\ work' = [work EXCEPT ![t] = NewWork(k)]
  /\ UNCHANGED <<phase, input, mMap, known, builders, matrix>>

----------------------------------------------------------------------------
(* Columns *)

(* What is looked up next: two terms of a top row, after the first one if  *)
(* their number is odd; one of each half of an S-pair while both have any; *)
(* else one.                                                               *)
Keys(w) ==
  IF w.task.addToTop THEN [i \in 1 .. MinOf(Len(w.a), 2 - (Len(w.a) % 2)) |-> w.a[i].mono]
  ELSE [i \in 1 .. MinOf(Len(w.a), 1) |-> w.a[i].mono] \o
       [i \in 1 .. MinOf(Len(w.b), 1) |-> w.b[i].mono]

Appending(t) == phase = "build" /\ work[t] # NoWork /\ work[t].create = <<>>

(* A lookup misses: a pair is created as a pair, the others one by one.    *)
MissColumns(t) ==
  LET keys == Keys(work[t])
  IN  /\ Appending(t)
      /\ \E i \in DOMAIN keys :
           /\ keys[i] \notin Columns \cap known[t]
           /\ work' = [work EXCEPT ![t].create =
                         IF work[t].task.addToTop THEN keys ELSE <<keys[i]>>]
      /\ UNCHANGED <<phase, input, mTodo, mMap, known, builders, matrix>>

(* createColumn, under the lock: it may be there by now. *)
CreateColumn(t) ==
  LET m == Head(work[t].create)
  IN  IF m \in Columns THEN UNCHANGED <<mMap, mTodo>>
      ELSE /\ m <= input.maxMono
           /\ \E reducer \in IF Reducers[m] = {} THEN {NoPoly} ELSE Reducers[m] :
                LET left == reducer # NoPoly
                    top == [addToTop |-> TRUE, poly |-> reducer, other |-> NoPoly, lead |-> m]
                IN  /\ mMap' = [x \in Columns \cup {m} |->
                                  IF x = m THEN [left |-> left, index |-> ColCount(left)]
                                  ELSE mMap[x]]
                    /\ mTodo' = IF left THEN mTodo \cup {top} ELSE mTodo

CreateMissing(t) ==
  /\ phase = "build" /\ work[t] # NoWork /\ work[t].create # <<>>
  /\ CreateColumn(t)
  /\ work' = [work EXCEPT ![t].create = Tail(@)]
  /\ known' = [known EXCEPT ![t] = DOMAIN mMap']
  /\ UNCHANGED <<phase, input, builders, matrix>>

(* "Monomial exponent overflow in F4MatrixBuilder." *)
CreateFails(t) ==
  /\ phase = "build" /\ work[t] # NoWork /\ work[t].create # <<>>
  /\ Head(work[t].create) \notin Columns
  /\ Head(work[t].create) > input.maxMono
  /\ phase' = "failed"
  /\ UNCHANGED <<input, mTodo, mMap, known, work, builders, matrix>>

----------------------------------------------------------------------------
(* Entries *)

Entry(term) == [col |-> mMap[term.mono], scalar |-> term.coef]

(* The larger of two terms; the difference if they are of one monomial     *)
StepOfPair(w) ==
  LET a == w.a[1]
      b == w.b[1]
      difference == [mono |-> a.mono, coef |-> (a.coef - b.coef) % Charac]
  IN  IF a.mono > b.mono THEN [w EXCEPT !.a = Tail(@), !.row = Append(@, Entry(a))]
      ELSE IF a.mono < b.mono
        THEN [w EXCEPT !.b = Tail(@), !.row = Append(@, Entry(Negated(<<b>>)[1]))]
      ELSE [w EXCEPT !.a = Tail(@), !.b = Tail(@),
                     !.row = IF difference.coef = 0 THEN @ ELSE Append(@, Entry(difference))]

(* One term, or two of a top row, or one step through an S-pair *)
Stepped(w) ==
  LET count == IF w.task.addToTop THEN Len(Keys(w)) ELSE 1
  IN  IF w.a # <<>> /\ w.b # <<>> THEN StepOfPair(w)
      ELSE IF w.a # <<>>
        THEN [w EXCEPT !.a = SubSeq(@, count + 1, Len(@)),
                       !.row = @ \o [i \in 1 .. count |-> Entry(w.a[i])]]
      ELSE [w EXCEPT !.b = Tail(@), !.row = Append(@, Entry(Negated(w.b)[1]))]

(* All that was looked up is found. *)
AppendEntries(t) ==
  LET keys == Keys(work[t])
  IN  /\ Appending(t)
      /\ keys # <<>>
      /\ \A i \in DOMAIN keys : keys[i] \in Columns
      /\ work' = [work EXCEPT ![t] = Stepped(@)]
      /\ UNCHANGED <<phase, input, mTodo, mMap, known, builders, matrix>>

(* rowDoneTopLeftAndRight and rowDoneBottomLeftAndRight *)
RowDone(t) ==
  /\ Appending(t)
  /\ Keys(work[t]) = <<>>
  /\ LET done == [task |-> work[t].task, row |-> work[t].row]
     IN  builders' = IF work[t].task.addToTop
                       THEN [builders EXCEPT ![t].top = Append(@, done)]
                     ELSE [builders EXCEPT ![t].bottom = Append(@, done)]
  /\ work' = [work EXCEPT ![t] = NoWork]
  /\ UNCHANGED <<phase, input, mTodo, mMap, known, matrix>>

----------------------------------------------------------------------------
(* takeRowsFrom, in the order of the threads' data; the column monomials   *)
Monomials(left) ==
  LET of == {m \in Columns : mMap[m].left = left}
  IN  [i \in 1 .. Cardinality(of) |-> CHOOSE m \in of : mMap[m].index = i - 1]

MergeRows ==
  /\ phase = "build" /\ mTodo = {}
  /\ \A t \in Threads : work[t] = NoWork
  /\ phase' = "merge"
  /\ LET order == SetToSeq(Threads)
         all(part(_)) == FlattenSeq([i \in DOMAIN order |-> part(builders[order[i]])])
     IN  matrix' = [top |-> all(LAMBDA b : b.top), bottom |-> all(LAMBDA b : b.bottom),
                    leftMonos |-> Monomials(TRUE), rightMonos |-> Monomials(FALSE)]
  /\ builders' = [t \in Threads |-> [top |-> <<>>, bottom |-> <<>>]]
  /\ UNCHANGED <<input, mTodo, mMap, known, work>>

(* Mutated form: from new index to old instead of from old to new. *)
PermutationInverse(monos) ==
  LET sorted == SetToSortSeq(Range(monos), LAMBDA x, y : x > y)
  IN  [col \in 0 .. Len(monos) - 1 |->
         (CHOOSE i \in DOMAIN monos : monos[i] = sorted[col + 1]) - 1]

(* sortColumnMonomialsAndMakePermutation: decreasing *)
Sorted(monos) == SetToSortSeq(Range(monos), LAMBDA x, y : x > y)

Permutation(monos) ==
  [col \in 0 .. Len(monos) - 1 |->
     (CHOOSE i \in DOMAIN monos : Sorted(monos)[i] = monos[col + 1]) - 1]

(* sortColumnsLeftRightParallel *)
SortColumns ==
  /\ phase = "merge"
  /\ phase' = "done"
  /\ LET left == Permutation(matrix.leftMonos)
         right == Permutation(matrix.rightMonos)
         to(col) == [col EXCEPT !.index = IF col.left THEN left[@] ELSE right[@]]
         mapped(rows) ==
           [r \in DOMAIN rows |->
              [rows[r] EXCEPT !.row =
                 [i \in DOMAIN @ |-> [col |-> to(@[i].col), scalar |-> @[i].scalar]]]]
     IN  matrix' = [top |-> mapped(matrix.top), bottom |-> mapped(matrix.bottom),
                    leftMonos |-> Sorted(matrix.leftMonos),
                    rightMonos |-> Sorted(matrix.rightMonos)]
  /\ mMap' = <<>>
  /\ known' = [t \in Threads |-> {}]
  /\ UNCHANGED <<input, mTodo, work, builders>>

Next ==
  \/ \E t \in Threads :
       \/ TakeTask(t)
       \/ MissColumns(t)
       \/ CreateMissing(t)
       \/ CreateFails(t)
       \/ AppendEntries(t)
       \/ RowDone(t)
  \/ MergeRows
  \/ SortColumns

Spec == Init /\ [][Next]_vars

----------------------------------------------------------------------------
(* The terms of a row of the matrix *)
TermsOfRow(r) ==
  {[mono |-> matrix[IF e.col.left THEN "leftMonos" ELSE "rightMonos"][e.col.index + 1],
    coef |-> e.scalar] : e \in Range(r.row)}

(* What the row of a task has to be, term by term *)
Coefficient(terms, m) ==
  IF \E i \in DOMAIN terms : terms[i].mono = m
    THEN terms[CHOOSE i \in DOMAIN terms : terms[i].mono = m].coef ELSE 0

TermsOfTask(k) ==
  LET a == Product(k.poly, k.lead)
      b == IF k.other = NoPoly THEN <<>> ELSE Product(k.other, k.lead)
      monos == {a[i].mono : i \in DOMAIN a} \cup {b[i].mono : i \in DOMAIN b}
      value(m) == (Coefficient(a, m) - Coefficient(b, m)) % Charac
  IN  {[mono |-> m, coef |-> value(m)] : m \in {x \in monos : value(x) # 0}}

(* "The matrix contains a reducer/pivot for every monomial that can be     *)
(* reduced by the basis and that is present": the left columns are those   *)
(* monomials, decreasing; there is one top row for each, which leads with  *)
(* it; the bottom rows are those asked for.                                *)
MatrixIsAsAsked ==
  phase = "done" =>
    /\ \A side \in {"leftMonos", "rightMonos"} : \A i, j \in DOMAIN matrix[side] :
         i < j => matrix[side][i] > matrix[side][j]
    /\ \A m \in Range(matrix.leftMonos) : Reducers[m] # {}
    /\ \A m \in Range(matrix.rightMonos) : Reducers[m] = {}
    /\ \A r \in Range(matrix.top) \cup Range(matrix.bottom) :
         TermsOfRow(r) = TermsOfTask(r.task)
    /\ Len(matrix.top) = Len(matrix.leftMonos)
    /\ {r.task.lead : r \in Range(matrix.top)} = Range(matrix.leftMonos)
    /\ Len(matrix.bottom) = Cardinality(input.tasks)
    /\ {r.task : r \in Range(matrix.bottom)} = input.tasks
=============================================================================
