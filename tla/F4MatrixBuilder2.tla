-------------------------- MODULE F4MatrixBuilder2 --------------------------
(***************************************************************************)
(* F4MatrixBuilder2 and F4MatrixProjection: how the threads of F4 build    *)
(* one matrix out of S-pairs or polynomials.  The columns are shared       *)
(* through a MonomialMap, used here as MonomialMapSpec promises it.        *)
(*                                                                         *)
(* A monomial is a number, its weight under some weight vector that orders *)
(* the monomials at hand the way the monoid does: the product is the sum,  *)
(* and less than is less than.  A polynomial is the sequence of its        *)
(* monomials, in decreasing order; coefficients matter only where two      *)
(* terms of an S-pair may cancel, and either happens.                      *)
(***************************************************************************)
EXTENDS Integers, SequencesExt

CONSTANTS
  Threads,
  Polys,      \* the polynomials of the basis and of the input
  Terms,      \* the monomials of each
  Monos,      \* the monomials that occur
  Reducers,   \* the polynomials that classicReducer may return for a monomial
  InitialBucketCount, \* of the map
  Inputs,     \* bound: what matrices are built from, and the largest ColIndex
  NoThread, NoPoly, NoLead, NoKey

LeadMono(p) == Terms[p][1]

ASSUME TermsAssumption ==
  /\ Monos \subseteq Nat
  /\ Terms \in [Polys -> Seq(Monos) \ {<<>>}]
  /\ \A p \in Polys : \A i, j \in DOMAIN Terms[p] :
       i < j => Terms[p][i] > Terms[p][j]

ASSUME ReducersAssumption ==
  /\ Reducers \in [Monos -> SUBSET Polys]
  /\ \A m \in Monos : \A p \in Reducers[m] : LeadMono(p) <= m

ASSUME OtherAssumption ==
  /\ InitialBucketCount \in Nat \ {0}
  /\ NoThread \notin Threads /\ NoPoly \notin Polys
  /\ {NoLead, NoKey} \cap Monos = {}

(* RowTask: lead is *desiredLead, other is *sPairPoly. *)
RowTask == [lead : Monos \cup {NoLead}, poly : Polys, other : Polys \cup {NoPoly}]
IsSPair(k) == k.other # NoPoly

(* What F4Reducer asks for: S-pairs, of which those of one lead form no cycle
   (pop has eliminated those that would close one), or polynomials. *)
ASSUME InputsAssumption ==
  \A input \in Inputs :
    /\ input.tasks \subseteq RowTask
    /\ input.maxColumns \in Nat
    /\ \/ \A k \in input.tasks :
            IsSPair(k) /\ k.lead # NoLead /\ Reducers[k.lead] # {}
       \/ \A k \in input.tasks : ~IsSPair(k) /\ k.lead = NoLead

VARIABLES
  phase,             \* "split", "build", "project", "done" or "failed"
  input,             \* history: what the matrix is built from
  tasks,             \* the tasks that no thread has taken yet
  mMap,              \* the index of each column, by monomial
  bucketCount,       \* of the current table of the map
  growing,           \* the table is being replaced
  stale,             \* whether a thread's Reader is of an old table
  known,             \* the columns a thread has synchronised with
  mIsColumnToLeft,   \* by index, from 1 here and from 0 in the code
  mCreateColumnLock, \* the thread that holds it, or NoThread
  pc,
  row,               \* the row a thread is appending
  rows,              \* the rows of all proto-matrices, not yet projected
  top,               \* of the projection: the row of each left column
  bottom             \* the other rows

mapVars == <<mMap, bucketCount, growing, stale, known>>
projection == <<top, bottom>>
vars == <<phase, input, tasks, mapVars, mIsColumnToLeft, mCreateColumnLock, pc,
          row, rows, projection>>

Columns == DOMAIN mMap

Map == INSTANCE MonomialMapSpec WITH
  Keys <- Monos,
  entries <- Columns,
  asked <- [t \in Threads |-> NoKey],
  outcome <- [t \in Threads |-> "none"]

NoRow == [task |-> NoPoly, cols |-> <<>>]

Init ==
  /\ phase = "split"
  /\ input \in Inputs
  /\ tasks = input.tasks
  /\ mMap = <<>>
  /\ bucketCount = InitialBucketCount
  /\ growing = FALSE
  /\ stale = [t \in Threads |-> TRUE]
  /\ known = [t \in Threads |-> {}]
  /\ mIsColumnToLeft = <<>>
  /\ mCreateColumnLock = NoThread
  /\ pc = [t \in Threads |-> "idle"]
  /\ row = [t \in Threads |-> NoRow]
  /\ rows = {}
  /\ top = <<>>
  /\ bottom = {}

-----------------------------------------------------------------------------
(* Columns *)

(* The map's maxEntries; a full table is replaced by one twice its size. *)
Full == Cardinality(Columns) = (bucketCount + 2) \div 3

(* Insertion of a monomial that is there leaves the map alone. *)
AddColumn(m, isLeft) ==
  /\ mMap' = [x \in Columns \cup {m} |->
                IF x \in Columns THEN mMap[x] ELSE Len(mIsColumnToLeft)]
  /\ mIsColumnToLeft' = Append(mIsColumnToLeft, isLeft)

IndexesUsedUp == Len(mIsColumnToLeft) >= input.maxColumns

IsLeft(col) == mIsColumnToLeft[col + 1]
MonoOf(col) == CHOOSE m \in Columns : mMap[m] = col

-----------------------------------------------------------------------------
(* initializeRowsToReduce *)

Unsplit == {k \in tasks : IsSPair(k) /\ k.lead \notin Columns}

Half(k, p) == [k EXCEPT !.poly = p, !.other = NoPoly]

(* Mutated form: the half that is left is the one that has a row already. *)
StripWrongHalf(k, a, b) ==
  IF {k.poly, k.other} \cap {a, b} = {} THEN k
  ELSE Half(k, IF k.poly \in {a, b} THEN k.poly ELSE k.other)

(* What becomes of the S-pair k when a and b have rows of their own *)
Strip(k, a, b) ==
  IF {k.poly, k.other} \cap {a, b} = {} THEN k
  ELSE Half(k, IF k.poly \in {a, b} THEN k.other ELSE k.poly)

(* The S-pairs of the least lead are next; any of them may be the first one,
   since the sort is not stable. *)
SplitLead(first) ==
  LET group == {k \in Unsplit : k.lead = first.lead}
      halves == {Half(first, first.poly), Half(first, first.other)}
  IN  /\ phase = "split"
      /\ \A k \in Unsplit : first.lead <= k.lead
      /\ ~IndexesUsedUp
      /\ tasks' = (tasks \ group) \cup halves
                    \cup {Strip(k, first.poly, first.other) :
                            k \in group \ {first}}
      /\ AddColumn(first.lead, TRUE)
      /\ bucketCount' = IF Full THEN 2 * bucketCount ELSE bucketCount
      /\ UNCHANGED <<phase, input, growing, stale, known, mCreateColumnLock,
                     pc, row, rows, projection>>

Fail ==
  /\ phase' = "failed"
  /\ UNCHANGED <<input, tasks, mapVars, mIsColumnToLeft, mCreateColumnLock, pc,
                 row, rows, projection>>

(* overflow_error: too many columns *)
SplitFails ==
  /\ phase = "split"
  /\ Unsplit # {}
  /\ IndexesUsedUp
  /\ Fail

(* parallel_for_each starts its threads, which know what the caller did. *)
StartBuild ==
  /\ phase = "split"
  /\ Unsplit = {}
  /\ phase' = "build"
  /\ known' = [t \in Threads |-> Columns]
  /\ UNCHANGED <<input, tasks, mMap, bucketCount, growing, stale,
                 mIsColumnToLeft, mCreateColumnLock, pc, row, rows, projection>>

-----------------------------------------------------------------------------
(* appendRow and appendRowSPair: a and b are the terms to come of poly and of
   sPairPoly, found the columns of the monomials that are looked up now. *)

Products(p, lead) ==
  LET multiple == IF lead = NoLead THEN 0 ELSE lead - LeadMono(p)
  IN  [i \in DOMAIN Terms[p] |-> Terms[p][i] + multiple]

(* Monos has the products. *)
ASSUME ProductsAssumption ==
  /\ \A m \in Monos : \A p \in Reducers[m] : Range(Products(p, m)) \subseteq Monos
  /\ \A wanted \in Inputs : \A k \in wanted.tasks :
       /\ Range(Products(k.poly, k.lead)) \subseteq Monos
       /\ IsSPair(k) => Range(Products(k.other, k.lead)) \subseteq Monos

NewRow(k) ==
  IF IsSPair(k)
  THEN [task |-> k, a |-> Tail(Products(k.poly, k.lead)),
        b |-> Tail(Products(k.other, k.lead)), cols |-> <<>>, found |-> <<>>]
  ELSE [task |-> k, a |-> Products(k.poly, k.lead),
        b |-> <<>>, cols |-> <<>>, found |-> <<>>]

(* findTwoProducts looks up the terms of appendRow in pairs, after the first
   one if their number is odd; appendRowSPair takes one of each half. *)
Keys(r) ==
  IF IsSPair(r.task)
  THEN IF r.a # <<>> /\ r.b # <<>> THEN <<Head(r.a), Head(r.b)>>
                                   ELSE <<Head(r.a \o r.b)>>
  ELSE SubSeq(r.a, 1, IF Len(r.a) % 2 = 1 THEN 1 ELSE 2)

Together(r) == ~IsSPair(r.task) /\ Len(r.a) % 2 = 0
Key(r) == Keys(r)[Len(r.found) + 1]
Ended(r) == r.a = <<>> /\ r.b = <<>>

(* Which half of an S-pair has the greater term; both if they are equal *)
TakesA(r) == r.b = <<>> \/ (r.a # <<>> /\ Head(r.a) >= Head(r.b))
TakesB(r) == r.a = <<>> \/ (r.b # <<>> /\ Head(r.b) >= Head(r.a))

(* The rows that r can become when all it looks up is found: equal terms of
   an S-pair may cancel. *)
Appended(r) ==
  LET all == [r EXCEPT !.a = SubSeq(@, Len(r.found) + 1, Len(@)),
                       !.cols = @ \o r.found, !.found = <<>>]
      skipped == [r EXCEPT !.a = IF TakesA(r) THEN Tail(@) ELSE @,
                           !.b = IF TakesB(r) THEN Tail(@) ELSE @,
                           !.found = <<>>]
      greater == [skipped EXCEPT
                    !.cols = Append(@, IF TakesA(r) THEN Head(r.found)
                                                    ELSE Last(r.found))]
  IN  IF ~IsSPair(r.task) THEN {all}
      ELSE {greater} \cup (IF TakesA(r) /\ TakesB(r) THEN {skipped} ELSE {})

(* The rows that r can become when one more column is found *)
WithColumn(r, col) ==
  LET s == [r EXCEPT !.found = Append(@, col)]
  IN  IF Len(s.found) = Len(Keys(r)) THEN Appended(s) ELSE {s}

(* appendRow makes a Reader at updateReader, after the first odd term. *)
AfterColumn(t) ==
  IF ~IsSPair(row[t].task) /\ ~Together(row[t]) THEN "reader" ELSE "find"

Building == phase = "build"

TakeTask(t, k) ==
  /\ Building
  /\ pc[t] = "idle"
  /\ tasks' = tasks \ {k}
  /\ row' = [row EXCEPT ![t] = NewRow(k)]
  /\ pc' = [pc EXCEPT ![t] = "reader"]
  /\ UNCHANGED <<phase, input, mapVars, mIsColumnToLeft, mCreateColumnLock, rows,
                 projection>>

(* Mutated form: a row that has entries keeps the Reader it has. *)
MakeReaderOnce(t) ==
  /\ Building
  /\ pc[t] = "reader"
  /\ stale' = [stale EXCEPT ![t] = growing \/ (@ /\ row[t].cols # <<>>)]
  /\ pc' = [pc EXCEPT ![t] = "find"]
  /\ UNCHANGED <<phase, input, tasks, mMap, bucketCount, growing, known,
                 mIsColumnToLeft, mCreateColumnLock, row, rows, projection>>

(* ColReader colMap(mMap), at the start of a row and at updateReader *)
MakeReader(t) ==
  /\ Building
  /\ pc[t] = "reader"
  /\ stale' = [stale EXCEPT ![t] = growing]
  /\ pc' = [pc EXCEPT ![t] = "find"]
  /\ UNCHANGED <<phase, input, tasks, mMap, bucketCount, growing, known,
                 mIsColumnToLeft, mCreateColumnLock, row, rows, projection>>

Finding(t) == Building /\ pc[t] = "find" /\ ~Ended(row[t])

FindOne(t) ==
  /\ Finding(t)
  /\ ~Together(row[t])
  /\ Key(row[t]) \in Columns
  /\ \E r \in WithColumn(row[t], mMap[Key(row[t])]) : row' = [row EXCEPT ![t] = r]
  /\ pc' = [pc EXCEPT ![t] = AfterColumn(t)]
  /\ UNCHANGED <<phase, input, tasks, mapVars, mIsColumnToLeft,
                 mCreateColumnLock, rows, projection>>

FindTwo(t) ==
  LET keys == Keys(row[t])
  IN  /\ Finding(t)
      /\ Together(row[t])
      /\ Range(keys) \subseteq Columns
      /\ \E r \in Appended([row[t] EXCEPT !.found = <<mMap[keys[1]], mMap[keys[2]]>>]) :
           row' = [row EXCEPT ![t] = r]
      /\ UNCHANGED <<phase, input, tasks, mapVars, mIsColumnToLeft,
                     mCreateColumnLock, pc, rows, projection>>

(* findOrCreateColumn asks a second Reader, made there and then, before it
   gives up; findTwoProducts does not. *)
FindMiss(t) ==
  /\ Finding(t)
  /\ IF Together(row[t]) THEN \E m \in Range(Keys(row[t])) : Map!MayMiss(t, m)
                         ELSE growing \/ Key(row[t]) \notin known[t]
  /\ pc' = [pc EXCEPT ![t] = "lock"]
  /\ UNCHANGED <<phase, input, tasks, mapVars, mIsColumnToLeft,
                 mCreateColumnLock, row, rows, projection>>

RowDone(t) ==
  /\ Building
  /\ pc[t] = "find"
  /\ Ended(row[t])
  /\ rows' = rows \cup {[task |-> row[t].task, cols |-> row[t].cols]}
  /\ row' = [row EXCEPT ![t] = NoRow]
  /\ pc' = [pc EXCEPT ![t] = "idle"]
  /\ UNCHANGED <<phase, input, tasks, mapVars, mIsColumnToLeft,
                 mCreateColumnLock, projection>>

-----------------------------------------------------------------------------
(* createColumn *)

(* It returns the column col to a row, which forgets it and looks again if
   it looks terms up together. *)
CreatedColumn(t, col) ==
  LET found == Append(row[t].found, col)
  IN  IF Together(row[t])
      THEN IF Len(found) = 2
           THEN /\ row' = [row EXCEPT ![t].found = <<>>]
                /\ pc' = [pc EXCEPT ![t] = "reader"]
           ELSE /\ row' = [row EXCEPT ![t].found = found]
                /\ UNCHANGED pc
      ELSE /\ \E r \in WithColumn(row[t], col) : row' = [row EXCEPT ![t] = r]
           /\ pc' = [pc EXCEPT ![t] = AfterColumn(t)]

Creating(t) == Building /\ pc[t] = "lock" /\ mCreateColumnLock = NoThread

(* The column exists now that the thread has synchronised. *)
FindLocked(t) ==
  /\ Creating(t)
  /\ Key(row[t]) \in Columns
  /\ known' = [known EXCEPT ![t] = Columns]
  /\ CreatedColumn(t, mMap[Key(row[t])])
  /\ UNCHANGED <<phase, input, tasks, mMap, bucketCount, growing, stale,
                 mIsColumnToLeft, mCreateColumnLock, rows, projection>>

(* Mutated form: what the lookup without the lock said is believed. *)
LockUnchecked(t) ==
  /\ Creating(t)
  /\ mCreateColumnLock' = t
  /\ known' = [known EXCEPT ![t] = Columns]
  /\ UNCHANGED <<phase, input, tasks, mMap, bucketCount, growing, stale,
                 mIsColumnToLeft, pc, row, rows, projection>>

Lock(t) ==
  /\ Creating(t)
  /\ Key(row[t]) \notin Columns
  /\ mCreateColumnLock' = t
  /\ known' = [known EXCEPT ![t] = Columns]
  /\ UNCHANGED <<phase, input, tasks, mMap, bucketCount, growing, stale,
                 mIsColumnToLeft, pc, row, rows, projection>>

Holding(t) == Building /\ mCreateColumnLock = t

(* overflow_error: too many columns *)
CreateFails(t) ==
  /\ Holding(t)
  /\ IndexesUsedUp
  /\ Fail

Grow(t) ==
  /\ Holding(t)
  /\ ~IndexesUsedUp
  /\ Full
  /\ UNCHANGED <<phase, input, tasks, mMap, bucketCount, mIsColumnToLeft,
                 mCreateColumnLock, pc, row, rows, projection>>
  /\ Map!StartGrowth

EndGrowth(t) ==
  /\ Holding(t)
  /\ UNCHANGED <<phase, input, tasks, mMap, mIsColumnToLeft, mCreateColumnLock,
                 pc, row, rows, projection>>
  /\ Map!EndGrowth
  /\ bucketCount' = 2 * bucketCount

(* classicReducer and feeder.add *)
FeedReducer(m) ==
  IF Reducers[m] = {} THEN UNCHANGED tasks
  ELSE \E p \in Reducers[m] :
         tasks' = tasks \cup {[lead |-> m, poly |-> p, other |-> NoPoly]}

(* A column that can be reduced goes to the left, and its reducer's row is a
   task to come. *)
Insert(t) ==
  LET m == Key(row[t])
  IN  /\ Holding(t)
      /\ ~IndexesUsedUp
      /\ ~Full
      /\ AddColumn(m, Reducers[m] # {})
      /\ FeedReducer(m)
      /\ known' = [known EXCEPT ![t] = Columns']
      /\ CreatedColumn(t, mMap'[m])
      /\ mCreateColumnLock' = NoThread
      /\ UNCHANGED <<phase, input, bucketCount, growing, stale, rows,
                     projection>>

-----------------------------------------------------------------------------
(* F4MatrixProjection *)

LeftColumns == {m \in Columns : IsLeft(mMap[m])}

EndBuild ==
  /\ Building
  /\ tasks = {}
  /\ \A t \in Threads : pc[t] = "idle"
  /\ phase' = "project"
  /\ top' = [m \in LeftColumns |-> NoRow]
  /\ UNCHANGED <<input, tasks, mapVars, mIsColumnToLeft, mCreateColumnLock, pc,
                 row, rows, bottom>>

(* Where the row's left entries are, the first of which leads it *)
LeftEntries(r) == {i \in DOMAIN r.cols : IsLeft(r.cols[i])}
LeadingLeft(r) == MonoOf(r.cols[Min(LeftEntries(r))])

(* Mutated form: the denser row is the top row. *)
AddRowDenser(r) ==
  LET lead == LeadingLeft(r)
      isBottom == \/ LeftEntries(r) = {}
                  \/ Len(top[lead].cols) > Len(r.cols)
  IN  IF isBottom
      THEN bottom' = bottom \cup {r} /\ UNCHANGED top
      ELSE /\ bottom' = bottom \cup ({top[lead]} \ {NoRow})
           /\ top' = [top EXCEPT ![lead] = r]

(* TopBottom::addRow: a sparser row, or an equally sparse one that comes
   later, is the better top row. *)
AddRow(r) ==
  LET lead == LeadingLeft(r)
      isBottom == \/ LeftEntries(r) = {}
                  \/ 0 < Len(top[lead].cols) /\ Len(top[lead].cols) < Len(r.cols)
  IN  IF isBottom
      THEN bottom' = bottom \cup {r} /\ UNCHANGED top
      ELSE /\ bottom' = bottom \cup ({top[lead]} \ {NoRow})
           /\ top' = [top EXCEPT ![lead] = r]

(* The blocks of the threads come in any order, and so do rows here. *)
ProjectRow(r) ==
  /\ phase = "project"
  /\ rows' = rows \ {r}
  /\ IF r.cols = <<>> THEN UNCHANGED projection ELSE AddRow(r)
  /\ UNCHANGED <<phase, input, tasks, mapVars, mIsColumnToLeft,
                 mCreateColumnLock, pc, row>>

EndProjection ==
  /\ phase = "project"
  /\ rows = {}
  /\ phase' = "done"
  /\ UNCHANGED <<input, tasks, mapVars, mIsColumnToLeft, mCreateColumnLock, pc,
                 row, rows, projection>>

-----------------------------------------------------------------------------
ThreadStep(t) ==
  \/ \E k \in tasks : TakeTask(t, k)
  \/ MakeReader(t)
  \/ FindOne(t)
  \/ FindTwo(t)
  \/ FindMiss(t)
  \/ RowDone(t)
  \/ FindLocked(t)
  \/ Lock(t)
  \/ CreateFails(t)
  \/ Grow(t)
  \/ EndGrowth(t)
  \/ Insert(t)

CallerStep ==
  \/ \E k \in Unsplit : SplitLead(k)
  \/ SplitFails
  \/ StartBuild
  \/ EndBuild
  \/ \E r \in rows : ProjectRow(r)
  \/ EndProjection

Next ==
  \/ CallerStep
  \/ \E t \in Threads : ThreadStep(t)
  \/ phase \in {"done", "failed"} /\ UNCHANGED vars

(* No thread is put off for ever: the scheduler of TBB gives a thread that
   runs a task its share, and a free thread a task that waits. *)
Fairness ==
  /\ WF_vars(CallerStep)
  /\ \A t \in Threads : WF_vars(ThreadStep(t))

Spec == Init /\ [][Next]_vars /\ Fairness

-----------------------------------------------------------------------------
(* Properties *)

MatrixRow == [task : RowTask, cols : Seq(Nat)]

(* Every variable has a value of its kind.  Column indexes are below the
   number of columns, so that mColProjectTo has a place for each. *)
TypeOK ==
  /\ phase \in {"split", "build", "project", "done", "failed"}
  /\ input \in Inputs
  /\ tasks \subseteq RowTask
  /\ Columns \subseteq Monos
  /\ \A m \in Columns : mMap[m] \in 0..Cardinality(Columns) - 1
  /\ bucketCount \in Nat
  /\ growing \in BOOLEAN
  /\ stale \in [Threads -> BOOLEAN]
  /\ known \in [Threads -> SUBSET Columns]
  /\ mIsColumnToLeft \in Seq(BOOLEAN)
  /\ mCreateColumnLock \in Threads \cup {NoThread}
  /\ pc \in [Threads -> {"idle", "reader", "find", "lock"}]
  /\ DOMAIN row = Threads
  /\ rows \subseteq MatrixRow
  /\ bottom \subseteq MatrixRow
  /\ DOMAIN top \subseteq Columns

(* The columns and their flags stay in step whatever threads create them: no
   two monomials share an index, no monomial gets two, and the flag at each
   index says whether its monomial can be reduced.  createColumn looks again
   under its lock for this, and buildMatrixAndClear sizes the projection by
   the number of entries of the map. *)
ColumnsInStep ==
  /\ Len(mIsColumnToLeft) = Cardinality(Columns)
  /\ \A m, n \in Columns : mMap[m] = mMap[n] => m = n
  /\ \A m \in Columns : IsLeft(mMap[m]) <=> Reducers[m] # {}

MatrixRows == rows \cup bottom \cup ({top[m] : m \in DOMAIN top} \ {NoRow})

InProgress == {row[t] : t \in Threads} \ {NoRow}

TaskLead(k) == IF k.lead = NoLead THEN LeadMono(k.poly) ELSE k.lead

(* The matrix is closed under reduction: for every left column there is, or
   is to come, a row that has its lead there.  Tasks feed tasks for this. *)
LeftColumnsGetRows ==
  \A m \in LeftColumns :
    \E k \in tasks \cup {r.task : r \in InProgress \cup MatrixRows} :
      ~IsSPair(k) /\ TaskLead(k) = m

(* A finished row is the row that was asked for, though it was looked up in
   pieces, again and again, through Readers of different tables: the columns
   of exactly its products, in decreasing order, less terms of an S-pair that
   are equal and cancel. *)
RowsFaithful ==
  \A r \in MatrixRows :
    LET monos == [i \in DOMAIN r.cols |-> MonoOf(r.cols[i])]
        A == Products(r.task.poly, r.task.lead)
        B == Products(r.task.other, r.task.lead)
    IN  IF ~IsSPair(r.task) THEN monos = A
        ELSE /\ \A i \in 2..Len(monos) : monos[i] < monos[i - 1]
             /\ Range(monos) \subseteq Range(A) \cup Range(B)
             /\ (Range(A) \ Range(B)) \cup (Range(B) \ Range(A)) \subseteq Range(monos)

(* The matrix has its promised form: every left column has a top row, which
   leads there, has nothing to the left of it, and is as sparse as any row
   that was dealt to the bottom with the same lead (F4MatrixBuilder2.hpp:65
   and the assertions at the end of buildMatrixAndClear). *)
TopIsTriangular ==
  phase = "done" =>
    /\ \A m \in LeftColumns :
         /\ top[m] # NoRow
         /\ LeftEntries(top[m]) # {}
         /\ LeadingLeft(top[m]) = m
    /\ \A r \in bottom :
         LeftEntries(r) # {} => Len(top[LeadingLeft(r)].cols) <= Len(r.cols)

(* What the rows and columns of the matrix are, while it is built and after *)
MatrixIsSound == TypeOK /\ LeftColumnsGetRows /\ RowsFaithful /\ TopIsTriangular

(* The polynomials that are connected to p by rows of the lead m: a row of an
   S-pair joins its two, and a row of one polynomial joins it to NoPoly.  A
   row of an S-pair may have cancelled altogether. *)
Linked(p, m) ==
  LET edges == {{r.task.poly, r.task.other} :
                  r \in {s \in MatrixRows : s.task.lead = m}}
               \cup {{k.poly, k.other} :
                  k \in {s \in input.tasks :
                           s.lead = m /\ Tail(Products(s.poly, m)) = Tail(Products(s.other, m))}}
      closed(S) == \A e \in edges : e \cap S = {} \/ e \subseteq S
  IN  {q \in Polys \cup {NoPoly} :
         \A S \in SUBSET (Polys \cup {NoPoly}) : p \in S /\ closed(S) => q \in S}

(* The row space is the one asked for: every S-polynomial is a combination of
   the rows of its lead, though its halves were made rows of their own and
   other S-pairs stripped; of polynomials each has its row. *)
RowSpaceKept ==
  phase = "done" =>
    \A k \in input.tasks :
      IF IsSPair(k) THEN k.other \in Linked(k.poly, k.lead)
                    ELSE \E r \in MatrixRows : r.task = k

(* The tasks that feed tasks, and the retries of lookups through Readers that
   go stale, come to an end: the matrix is built, or the indexes run out. *)
BuildEnds == <>(phase \in {"done", "failed"})
=============================================================================
