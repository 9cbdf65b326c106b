----------------------- MODULE F4MatrixBuilder2Proofs -----------------------
(***************************************************************************)
(* The matrix builder for any number of threads, any polynomials and any   *)
(* tasks that F4Reducer asks for: columns, indexes and flags stay in step  *)
(* (ColumnsInStep), the matrix has its promised form (MatrixIsSound), and  *)
(* its rows span what they are asked to (RowSpaceKept).                    *)
(***************************************************************************)
EXTENDS F4MatrixBuilder2, FiniteSetTheorems, TLAPS

(* The S-pairs that are left are S-pairs that were asked for, so that their
   leads can be reduced. *)
SPairsAsked ==
  /\ input \in Inputs
  /\ \A k \in tasks : IsSPair(k) => k \in input.tasks

(* The holder of the lock has found out that its column is not there, and
   nobody else can have created it since. *)
HolderNeedsColumn ==
  /\ DOMAIN row = Threads
  /\ DOMAIN pc = Threads
  /\ \A t \in Threads :
       mCreateColumnLock = t => pc[t] = "lock" /\ Key(row[t]) \notin Columns
  /\ mCreateColumnLock # NoThread => mCreateColumnLock \in Threads
  /\ phase = "split" => mCreateColumnLock = NoThread

(* Indexes are handed out one by one, and no column is lost. *)
IndexesExact ==
  /\ IsFiniteSet(Columns)
  /\ mIsColumnToLeft \in Seq(BOOLEAN)
  /\ Len(mIsColumnToLeft) = Cardinality(Columns)
  /\ \A m \in Columns : mMap[m] \in 0..Len(mIsColumnToLeft) - 1

IInv == SPairsAsked /\ HolderNeedsColumn /\ IndexesExact /\ ColumnsInStep

(* Adding a column that is not there keeps columns, indexes and flags in step,
   if the flag says whether the column can be reduced. *)
LEMMA AddColumnInStep ==
  ASSUME IndexesExact, ColumnsInStep, NEW m, m \notin Columns,
         NEW isLeft \in BOOLEAN, isLeft <=> Reducers[m] # {},
         AddColumn(m, isLeft)
  PROVE  IndexesExact' /\ ColumnsInStep'
<1> DEFINE n == Len(mIsColumnToLeft)
<1>1. Columns' = Columns \cup {m}
  BY DEF AddColumn, Columns
<1>2. /\ IsFiniteSet(Columns')
      /\ Cardinality(Columns') = Cardinality(Columns) + 1
  BY <1>1, FS_AddElement DEF IndexesExact
<1>3. /\ mIsColumnToLeft' \in Seq(BOOLEAN)
      /\ n \in Nat
      /\ Len(mIsColumnToLeft') = n + 1
      /\ mIsColumnToLeft'[n + 1] = isLeft
      /\ \A i \in 1..n : mIsColumnToLeft'[i] = mIsColumnToLeft[i]
  BY DEF IndexesExact, AddColumn
<1>4. /\ mMap'[m] = n
      /\ \A x \in Columns : mMap'[x] = mMap[x]
  BY DEF AddColumn, Columns
<1>5. IndexesExact'
  <2>1. \A x \in Columns' : mMap'[x] \in 0..Len(mIsColumnToLeft') - 1
    BY <1>1, <1>3, <1>4 DEF IndexesExact
  <2>2. QED
    BY <2>1, <1>2, <1>3 DEF IndexesExact
<1>6. ColumnsInStep'
  <2>1. Len(mIsColumnToLeft') = Cardinality(Columns')
    BY <1>2, <1>3 DEF IndexesExact
  <2>2. ASSUME NEW x \in Columns', NEW y \in Columns', mMap'[x] = mMap'[y]
        PROVE  x = y
    BY <2>2, <1>1, <1>3, <1>4 DEF IndexesExact, ColumnsInStep
  <2>3. ASSUME NEW x \in Columns'
        PROVE  mIsColumnToLeft'[mMap'[x] + 1] <=> Reducers[x] # {}
    <3>1. CASE x = m
      BY <3>1, <1>3, <1>4
    <3>2. CASE x \in Columns
      <4>1. mMap[x] + 1 \in 1..n
        BY <3>2, <1>3 DEF IndexesExact
      <4>2. QED
        BY <4>1, <3>2, <1>3, <1>4 DEF ColumnsInStep, IsLeft
    <3>3. QED
      BY <3>1, <3>2, <1>1
  <2>4. QED
    BY <2>1, <2>2, <2>3 DEF ColumnsInStep, IsLeft
<1>7. QED
  BY <1>5, <1>6

(* What leaves the columns alone keeps them in step. *)
LEMMA ColumnsUntouched ==
  ASSUME IndexesExact, ColumnsInStep, UNCHANGED <<mMap, mIsColumnToLeft>>
  PROVE  IndexesExact' /\ ColumnsInStep'
BY DEF IndexesExact, ColumnsInStep, Columns, IsLeft

(* A step of a thread that does not hold the lock leaves alone what the holder
   has found out. *)
LEMMA HolderUndisturbed ==
  ASSUME HolderNeedsColumn, NEW t \in Threads, mCreateColumnLock # t,
         UNCHANGED <<phase, mMap, mCreateColumnLock>>,
         DOMAIN row' = Threads, DOMAIN pc' = Threads,
         \A s \in Threads \ {t} : row'[s] = row[s] /\ pc'[s] = pc[s]
  PROVE  HolderNeedsColumn'
BY DEF HolderNeedsColumn, Columns

(* createColumn moves only the row of the thread that called it. *)
LEMMA CreatedColumnMoves ==
  ASSUME HolderNeedsColumn, NEW t \in Threads, NEW col, CreatedColumn(t, col)
  PROVE  /\ DOMAIN row' = Threads /\ DOMAIN pc' = Threads
         /\ \A s \in Threads \ {t} : row'[s] = row[s] /\ pc'[s] = pc[s]
BY DEF CreatedColumn, HolderNeedsColumn

LEMMA InitIInv == Init => IInv
<1> SUFFICES ASSUME Init
             PROVE  IInv
  OBVIOUS
<1>1. Columns = {}
  BY DEF Init, Columns
<1>2. SPairsAsked
  BY DEF Init, SPairsAsked
<1>3. HolderNeedsColumn
  BY OtherAssumption DEF Init, HolderNeedsColumn
<1>4. IndexesExact /\ ColumnsInStep
  BY <1>1, FS_EmptySet DEF Init, IndexesExact, ColumnsInStep
<1>5. QED
  BY <1>2, <1>3, <1>4 DEF IInv

(* A half is no S-pair, and what is not stripped was asked for. *)
LEMMA SplitKeepsAsked ==
  ASSUME SPairsAsked, NEW first \in Unsplit, SplitLead(first)
  PROVE  SPairsAsked'
<1>1. /\ input' = input
      /\ \A k \in tasks' : \/ k \in tasks
                           \/ \E g \in Unsplit : \E p : k = Half(g, p)
  BY DEF SplitLead, Strip, Unsplit
<1>2. \A g \in Unsplit : g \in RowTask
  BY InputsAssumption DEF SPairsAsked, Unsplit
<1>3. \A g \in Unsplit : \A p : ~IsSPair(Half(g, p))
  BY <1>2 DEF Half, IsSPair, RowTask
<1>4. QED
  BY <1>1, <1>3 DEF SPairsAsked
(* The caller's steps.  No thread holds the lock while it splits. *)
LEMMA CallerInductive ==
  ASSUME IInv, CallerStep
  PROVE  IInv'
<1> USE DEF IInv
<1>1. ASSUME NEW k \in Unsplit, SplitLead(k)
      PROVE  IInv'
  <2>1. SPairsAsked'
    BY <1>1, SplitKeepsAsked
  <2>2. k.lead \notin Columns /\ Reducers[k.lead] # {}
    BY InputsAssumption DEF Unsplit, SPairsAsked
  <2>3. AddColumn(k.lead, TRUE)
    BY <1>1 DEF SplitLead
  <2>4. IndexesExact' /\ ColumnsInStep'
    BY <2>2, <2>3, AddColumnInStep
  <2>5. HolderNeedsColumn'
    BY <1>1, OtherAssumption DEF SplitLead, HolderNeedsColumn
  <2>6. QED
    BY <2>1, <2>4, <2>5
<1>2. CASE SplitFails
  BY <1>2, ColumnsUntouched
     DEF SplitFails, Fail, mapVars, Columns, SPairsAsked, HolderNeedsColumn
<1>3. CASE StartBuild
  BY <1>3, ColumnsUntouched DEF StartBuild, Columns, SPairsAsked, HolderNeedsColumn
<1>4. CASE EndBuild
  BY <1>4, ColumnsUntouched
     DEF EndBuild, mapVars, Columns, SPairsAsked, HolderNeedsColumn
<1>5. ASSUME NEW r \in rows, ProjectRow(r)
      PROVE  IInv'
  BY <1>5, ColumnsUntouched
     DEF ProjectRow, mapVars, Columns, SPairsAsked, HolderNeedsColumn
<1>6. CASE EndProjection
  BY <1>6, ColumnsUntouched
     DEF EndProjection, mapVars, Columns, SPairsAsked, HolderNeedsColumn
<1>7. QED
  BY <1>1, <1>2, <1>3, <1>4, <1>5, <1>6 DEF CallerStep

(* The steps of a thread that is not in createColumn, or finds its column
   there. *)
LEMMA LookupInductive ==
  ASSUME IInv, NEW t \in Threads,
         \/ \E k \in tasks : TakeTask(t, k)
         \/ MakeReader(t) \/ FindOne(t) \/ FindTwo(t) \/ FindMiss(t)
         \/ RowDone(t) \/ FindLocked(t)
  PROVE  IInv'
<1> USE DEF IInv
<1>1. /\ UNCHANGED <<phase, input, mMap, mIsColumnToLeft, mCreateColumnLock>>
      /\ tasks' \subseteq tasks
  BY DEF TakeTask, MakeReader, FindOne, FindTwo, FindMiss, RowDone, FindLocked,
         mapVars
<1>2. mCreateColumnLock # t
  BY OtherAssumption DEF TakeTask, MakeReader, FindOne, FindTwo, FindMiss, RowDone,
     FindLocked, Finding, Creating, HolderNeedsColumn
<1>3. /\ DOMAIN row' = Threads /\ DOMAIN pc' = Threads
      /\ \A s \in Threads \ {t} : row'[s] = row[s] /\ pc'[s] = pc[s]
  <2>1. CASE FindLocked(t)
    BY <2>1, CreatedColumnMoves DEF FindLocked
  <2>2. CASE FindTwo(t)
    BY <2>2 DEF FindTwo, HolderNeedsColumn
  <2>3. CASE \/ \E k \in tasks : TakeTask(t, k)
             \/ MakeReader(t) \/ FindOne(t) \/ FindMiss(t) \/ RowDone(t)
    BY <2>3
       DEF TakeTask, MakeReader, FindOne, FindMiss, RowDone, HolderNeedsColumn
  <2>4. QED
    BY <2>1, <2>2, <2>3
<1>4. HolderNeedsColumn'
  BY <1>1, <1>2, <1>3, HolderUndisturbed
<1>5. SPairsAsked'
  BY <1>1 DEF SPairsAsked
<1>6. QED
  BY <1>1, <1>4, <1>5, ColumnsUntouched
(* The steps of a thread that takes the lock or holds it *)
LEMMA HolderInductive ==
  ASSUME IInv, NEW t \in Threads,
         Lock(t) \/ CreateFails(t) \/ Grow(t) \/ EndGrowth(t) \/ Insert(t)
  PROVE  IInv'
<1> USE DEF IInv
<1>1. CASE Lock(t)
  <2>1. HolderNeedsColumn'
    BY <1>1, OtherAssumption DEF Lock, Creating, Building, HolderNeedsColumn, Columns
  <2>2. QED
    BY <1>1, <2>1, ColumnsUntouched DEF Lock, SPairsAsked
<1>2. CASE CreateFails(t)
  BY <1>2, ColumnsUntouched
     DEF CreateFails, Fail, mapVars, Columns, SPairsAsked, HolderNeedsColumn
<1>3. CASE Grow(t)
  BY <1>3, ColumnsUntouched DEF Grow, Columns, SPairsAsked, HolderNeedsColumn
<1>4. CASE EndGrowth(t)
  BY <1>4, ColumnsUntouched DEF EndGrowth, Columns, SPairsAsked, HolderNeedsColumn
<1>5. CASE Insert(t)
  <2> DEFINE m == Key(row[t])
  <2>1. m \notin Columns
    BY <1>5 DEF Insert, Holding, HolderNeedsColumn
  <2>2. IndexesExact' /\ ColumnsInStep'
    <3>1. AddColumn(m, Reducers[m] # {})
      BY <1>5 DEF Insert
    <3>2. (Reducers[m] # {}) \in BOOLEAN
      OBVIOUS
    <3>3. QED
      BY <2>1, <3>1, <3>2, AddColumnInStep
  <2>3. SPairsAsked'
    BY <1>5 DEF Insert, FeedReducer, SPairsAsked, IsSPair
  <2>4. HolderNeedsColumn'
    <3>1. CreatedColumn(t, mMap'[m])
      BY <1>5 DEF Insert
    <3>2. DOMAIN row' = Threads /\ DOMAIN pc' = Threads
      BY <3>1, CreatedColumnMoves
    <3>3. mCreateColumnLock' = NoThread
      BY <1>5 DEF Insert
    <3>4. QED
      BY <3>2, <3>3, OtherAssumption DEF HolderNeedsColumn
  <2>5. QED
    BY <2>2, <2>3, <2>4
<1>6. QED
  BY <1>1, <1>2, <1>3, <1>4, <1>5

LEMMA StutterInductive ==
  ASSUME IInv, UNCHANGED vars
  PROVE  IInv'
BY ColumnsUntouched
   DEF IInv, vars, mapVars, Columns, SPairsAsked, HolderNeedsColumn

LEMMA NextInductive ==
  ASSUME IInv, [Next]_vars
  PROVE  IInv'
<1>1. CASE CallerStep
  BY <1>1, CallerInductive
<1>2. ASSUME NEW t \in Threads, ThreadStep(t)
      PROVE  IInv'
  BY <1>2, LookupInductive, HolderInductive DEF ThreadStep
<1>3. CASE UNCHANGED vars
  BY <1>3, StutterInductive
<1>4. QED
  BY <1>1, <1>2, <1>3 DEF Next

(* However the threads interleave, no two columns share an index, no column
   gets two, and the flag at each index is that of its column: the lookup that
   createColumn repeats under its lock suffices. *)
THEOREM ColumnsStayInStep == Spec => []ColumnsInStep
<1>1. IInv => ColumnsInStep
  BY DEF IInv
<1>2. IInv /\ [Next]_vars => IInv'
  BY NextInductive
<1>3. QED
  BY <1>1, <1>2, InitIInv, PTL DEF Spec

-----------------------------------------------------------------------------
(* What the rows in progress are *)

Indexes == {mMap[m] : m \in Columns}

(* A task asks for products that occur, and an S-pair was asked for. *)
TaskOK(k) ==
  /\ k \in RowTask
  /\ Range(Products(k.poly, k.lead)) \subseteq Monos
  /\ IsSPair(k) => k \in input.tasks

PartialRow ==
  [task : RowTask, a : Seq(Monos), b : Seq(Monos), cols : Seq(Nat), found : Seq(Nat)]

(* A row of one polynomial has the columns of the first of its products, and
   the others are to come. *)
PolyProgress(k, a, cols) ==
  LET P == Products(k.poly, k.lead)
  IN  /\ Len(cols) + Len(a) = Len(P)
      /\ \A i \in 1..Len(cols) : MonoOf(cols[i]) = P[i]
      /\ \A i \in 1..Len(a) : a[i] = P[Len(cols) + i]

Descending(s) == \A i, j \in 1..Len(s) : i < j => s[i] > s[j]

Done(cols) == {MonoOf(cols[i]) : i \in 1..Len(cols)}

(* A row of an S-pair has the columns of its greatest terms, less those of both
   halves that have cancelled. *)
PairProgress(k, a, b, cols) ==
  LET A == Range(Products(k.poly, k.lead))
      B == Range(Products(k.other, k.lead))
  IN  /\ Descending(a) /\ Descending(b)
      /\ \A i, j \in 1..Len(cols) : i < j => MonoOf(cols[i]) > MonoOf(cols[j])
      /\ \A x \in Done(cols) : \A y \in Range(a) \cup Range(b) : x > y
      /\ Done(cols) \subseteq A \cup B /\ Range(a) \subseteq A /\ Range(b) \subseteq B
      /\ A \ B \subseteq Range(a) \cup Done(cols)
      /\ B \ A \subseteq Range(b) \cup Done(cols)

Progress(k, a, b, cols) ==
  /\ TaskOK(k)
  /\ \A i \in 1..Len(cols) : cols[i] \in Indexes
  /\ IF IsSPair(k) THEN PairProgress(k, a, b, cols)
                   ELSE PolyProgress(k, a, cols) /\ b = <<>>

(* What has been found of the keys that are looked up now *)
FoundSome(r) ==
  /\ ~Ended(r) => Len(r.found) < Len(Keys(r))
  /\ \A i \in 1..Len(r.found) : r.found[i] \in Indexes /\ MonoOf(r.found[i]) = Keys(r)[i]

RowOK(r) ==
  /\ r \in PartialRow
  /\ Progress(r.task, r.a, r.b, r.cols)
  /\ FoundSome(r)

(* Columns found stay what they are. *)
LEMMA IndexOf ==
  ASSUME ColumnsInStep, NEW m \in Columns
  PROVE  mMap[m] \in Indexes /\ MonoOf(mMap[m]) = m
BY DEF ColumnsInStep, Indexes, MonoOf

LEMMA MonoOfIndex ==
  ASSUME ColumnsInStep, NEW col \in Indexes
  PROVE  MonoOf(col) \in Columns /\ mMap[MonoOf(col)] = col
BY DEF ColumnsInStep, Indexes, MonoOf

LEMMA IndexesKept ==
  ASSUME ColumnsInStep, ColumnsInStep',
         \/ UNCHANGED mMap
         \/ \E m : m \notin Columns /\ \E isLeft : AddColumn(m, isLeft)
  PROVE  /\ \A x \in Columns : x \in Columns' /\ mMap'[x] = mMap[x]
         /\ \A col \in Indexes : col \in Indexes' /\ MonoOf(col)' = MonoOf(col)
<1>1. \A x \in Columns : x \in Columns' /\ mMap'[x] = mMap[x]
  BY DEF AddColumn, Columns
<1>2. ASSUME NEW col \in Indexes
      PROVE  col \in Indexes' /\ MonoOf(col)' = MonoOf(col)
  <2>1. PICK x \in Columns : mMap[x] = col
    BY DEF Indexes
  <2>2. MonoOf(col) = x
    BY <2>1, IndexOf
  <2>3. x \in Columns' /\ mMap'[x] = col
    BY <1>1, <2>1
  <2>4. MonoOf(col)' = x
    BY <2>3 DEF ColumnsInStep, MonoOf
  <2> QED
    BY <2>2, <2>3, <2>4 DEF Indexes
<1> QED
  BY <1>1, <1>2

LEMMA RowsKept ==
  ASSUME input' = input,
         \A col \in Indexes : col \in Indexes' /\ MonoOf(col)' = MonoOf(col)
  PROVE  /\ \A k : TaskOK(k) => TaskOK(k)'
         /\ \A r : RowOK(r) => RowOK(r)'
         /\ \A k, a, b, cols : Progress(k, a, b, cols) => Progress(k, a, b, cols)'
<1>1. \A k : TaskOK(k) => TaskOK(k)'
  BY DEF TaskOK
<1>2. ASSUME NEW k, NEW a, NEW b, NEW cols, Progress(k, a, b, cols)
      PROVE  Progress(k, a, b, cols)'
  <2>1. \A i \in 1..Len(cols) : cols[i] \in Indexes' /\ MonoOf(cols[i])' = MonoOf(cols[i])
    BY <1>2 DEF Progress
  <2>2. Done(cols)' = Done(cols)
    BY <2>1 DEF Done
  <2>3. PairProgress(k, a, b, cols) => PairProgress(k, a, b, cols)'
    BY <2>1, <2>2 DEF PairProgress
  <2>4. PolyProgress(k, a, cols) => PolyProgress(k, a, cols)'
    BY <2>1 DEF PolyProgress
  <2> QED
    BY <1>1, <1>2, <2>1, <2>3, <2>4 DEF Progress
<1>3. ASSUME NEW r, RowOK(r)
      PROVE  RowOK(r)'
  BY <1>2, <1>3 DEF RowOK, FoundSome
<1> QED
  BY <1>1, <1>2, <1>3

LEMMA ProductsAre ==
  ASSUME NEW p \in Polys, NEW lead \in Monos \cup {NoLead},
         Range(Products(p, lead)) \subseteq Monos
  PROVE  /\ Products(p, lead) \in Seq(Monos)
         /\ Len(Products(p, lead)) = Len(Terms[p]) /\ Len(Terms[p]) \in Nat \ {0}
         /\ Descending(Products(p, lead))
         /\ Products(p, lead)[1] = IF lead = NoLead THEN LeadMono(p) ELSE lead
<1> DEFINE P == Products(p, lead)
<1>1. /\ Terms[p] \in Seq(Monos) /\ Len(Terms[p]) \in Nat \ {0}
      /\ DOMAIN Terms[p] = 1..Len(Terms[p])
  <2>1. Terms[p] \in Seq(Monos) /\ Terms[p] # <<>>
    BY TermsAssumption
  <2> QED
    BY <2>1
<1>0. \A i \in 1..Len(Terms[p]) : Terms[p][i] \in Nat
  <2>1. \A i \in 1..Len(Terms[p]) : Terms[p][i] \in Monos
    BY <1>1
  <2> QED
    BY <2>1, TermsAssumption
<1>2. PICK multiple \in Int : /\ lead = NoLead => multiple = 0
                              /\ lead # NoLead => multiple = lead - LeadMono(p)
                              /\ P = [i \in 1..Len(Terms[p]) |-> Terms[p][i] + multiple]
  <2>1. Terms[p][1] \in Nat
    BY <1>0, <1>1
  <2> DEFINE mult == IF lead = NoLead THEN 0 ELSE lead - LeadMono(p)
  <2>2. mult \in Int
    BY <2>1, TermsAssumption DEF LeadMono
  <2>3. P = [i \in 1..Len(Terms[p]) |-> Terms[p][i] + mult]
    BY <1>1 DEF Products
  <2> QED
    BY <2>2, <2>3
<1>3. \A i \in 1..Len(Terms[p]) : P[i] \in Monos
  BY <1>2 DEF Range
<1>4. P \in Seq(Monos) /\ Len(P) = Len(Terms[p])
  <2>1. P \in [1..Len(Terms[p]) -> Monos]
    BY <1>2, <1>3
  <2> QED
    BY <1>1, <2>1
<1>5. Descending(P)
  <2>2. \A i, j \in 1..Len(Terms[p]) : i < j => Terms[p][i] > Terms[p][j]
    BY <1>1, TermsAssumption
  <2>3. \A i \in 1..Len(Terms[p]) : P[i] = Terms[p][i] + multiple
    BY <1>2
  <2> QED
    BY <1>0, <1>4, <2>2, <2>3 DEF Descending
<1>6. P[1] = IF lead = NoLead THEN LeadMono(p) ELSE lead
  <2>1. Terms[p][1] \in Nat /\ P[1] = Terms[p][1] + multiple
    BY <1>0, <1>1, <1>2
  <2>2. lead # NoLead => lead \in Nat
    BY TermsAssumption
  <2> QED
    BY <1>2, <2>1, <2>2 DEF LeadMono
<1> QED
  BY <1>1, <1>4, <1>5, <1>6

(* The products a task asks for *)
LEMMA TaskProducts ==
  ASSUME input \in Inputs, NEW k, TaskOK(k)
  PROVE  /\ k.poly \in Polys /\ k.lead \in Monos \cup {NoLead}
         /\ Range(Products(k.poly, k.lead)) \subseteq Monos
         /\ IsSPair(k) => /\ k.other \in Polys /\ k.lead # NoLead
                          /\ Range(Products(k.other, k.lead)) \subseteq Monos
<1>1. k \in RowTask
  BY DEF TaskOK
<1>2. k.poly \in Polys /\ k.lead \in Monos \cup {NoLead} /\ k.other \in Polys \cup {NoPoly}
  BY <1>1 DEF RowTask
<1>3. IsSPair(k) => k.lead # NoLead /\ Range(Products(k.other, k.lead)) \subseteq Monos
  BY InputsAssumption, ProductsAssumption DEF TaskOK
<1> QED
  BY <1>2, <1>3 DEF TaskOK, IsSPair

(* The keys that are looked up next *)
LEMMA KeysAre ==
  ASSUME NEW r \in PartialRow, ~Ended(r), ~IsSPair(r.task) => r.b = <<>>
  PROVE  /\ Len(Keys(r)) \in {1, 2}
         /\ \A i \in 1..Len(Keys(r)) : Keys(r)[i] \in Monos
         /\ ~IsSPair(r.task) => /\ Len(Keys(r)) <= Len(r.a)
                                /\ \A i \in 1..Len(Keys(r)) : Keys(r)[i] = r.a[i]
         /\ Together(r) <=> ~IsSPair(r.task) /\ Len(Keys(r)) = 2
         /\ IsSPair(r.task) =>
              /\ r.a # <<>> /\ r.b # <<>> => Keys(r) = <<Head(r.a), Head(r.b)>>
              /\ r.a # <<>> /\ r.b = <<>> => Keys(r) = <<Head(r.a)>>
              /\ r.a = <<>> /\ r.b # <<>> => Keys(r) = <<Head(r.b)>>
<1> DEFINE a == r.a
           b == r.b
<1>1. a \in Seq(Monos) /\ b \in Seq(Monos) /\ (a # <<>> \/ b # <<>>)
  BY DEF PartialRow, Ended
<1>2. CASE ~IsSPair(r.task)
  <2>1. Len(a) \in Nat \ {0}
    BY <1>1, <1>2
  <2>2. CASE Len(a) % 2 = 1
    <3>1. Keys(r) = SubSeq(a, 1, 1)
      BY <1>2, <2>2 DEF Keys
    <3>2. Len(Keys(r)) = 1 /\ Keys(r)[1] = a[1] /\ a[1] \in Monos
      BY <1>1, <2>1, <3>1
    <3>3. ~Together(r)
      <4>1. \A n \in Nat : n % 2 = 1 => n % 2 # 0
        OBVIOUS
      <4>2. Len(r.a) % 2 # 0
        BY <2>1, <2>2, <4>1
      <4> QED
        BY <4>2 DEF Together
    <3>4. Len(Keys(r)) <= Len(a)
      BY <2>1, <3>2
    <3> QED
      BY <1>2, <3>2, <3>3, <3>4
  <2>3. CASE Len(a) % 2 # 1
    <3>0. Len(a) >= 2 /\ Len(a) % 2 = 0
      <4>1. \A n \in Nat \ {0} : n % 2 # 1 => n >= 2 /\ n % 2 = 0
        OBVIOUS
      <4> QED
        BY <2>1, <2>3, <4>1
    <3>1. Keys(r) = SubSeq(a, 1, 2)
      BY <1>2, <2>3 DEF Keys
    <3>2. Len(Keys(r)) = 2 /\ \A i \in 1..2 : Keys(r)[i] = a[i] /\ a[i] \in Monos
      BY <1>1, <2>1, <3>0, <3>1
    <3>3. Together(r)
      BY <1>2, <3>0 DEF Together
    <3> QED
      BY <1>2, <3>0, <3>2, <3>3
  <2> QED
    BY <2>2, <2>3
<1>3. CASE IsSPair(r.task)
  <2>1. CASE a # <<>> /\ b # <<>>
    <3>1. Keys(r) = <<Head(a), Head(b)>> /\ Head(a) \in Monos /\ Head(b) \in Monos
      BY <1>1, <1>3, <2>1 DEF Keys
    <3> QED
      BY <1>3, <2>1, <3>1 DEF Together
  <2>2. CASE a # <<>> /\ b = <<>>
    <3>1. Head(a \o b) = Head(a) /\ Head(a) \in Monos
      BY <1>1, <2>2
    <3>2. Keys(r) = <<Head(a)>>
      BY <1>3, <2>2, <3>1 DEF Keys
    <3> QED
      BY <1>3, <2>2, <3>1, <3>2 DEF Together
  <2>3. CASE a = <<>> /\ b # <<>>
    <3>1. Head(a \o b) = Head(b) /\ Head(b) \in Monos
      BY <1>1, <2>3
    <3>2. Keys(r) = <<Head(b)>>
      BY <1>3, <2>3, <3>1 DEF Keys
    <3> QED
      BY <1>3, <2>3, <3>1, <3>2 DEF Together
  <2> QED
    BY <1>1, <2>1, <2>2, <2>3
<1> QED
  BY <1>2, <1>3

(* What a row is when all that it looks up is found *)
FoundAll(r) ==
  /\ r \in PartialRow /\ Progress(r.task, r.a, r.b, r.cols) /\ ~Ended(r)
  /\ Len(r.found) = Len(Keys(r))
  /\ \A i \in 1..Len(r.found) : r.found[i] \in Indexes /\ MonoOf(r.found[i]) = Keys(r)[i]

LEMMA NoneFound ==
  ASSUME NEW r \in PartialRow, Progress(r.task, r.a, r.b, r.cols), r.found = <<>>
  PROVE  RowOK(r)
<1>1. ~Ended(r) => Len(Keys(r)) \in {1, 2}
  BY KeysAre DEF Progress
<1>2. Len(r.found) = 0
  OBVIOUS
<1>3. ~Ended(r) => Len(r.found) < Len(Keys(r))
  <2>1. ASSUME ~Ended(r)
        PROVE  \E n \in {1, 2} : Len(Keys(r)) = n
    BY <1>1, <2>1
  <2>2. \A n \in {1, 2} : 0 < n
    OBVIOUS
  <2> QED
    BY <1>2, <2>1, <2>2
<1>4. \A i \in 1..Len(r.found) : FALSE
  BY <1>2
<1> QED
  BY <1>3, <1>4 DEF RowOK, FoundSome

LEMMA PolyAppended ==
  ASSUME input \in Inputs, NEW r, FoundAll(r), ~IsSPair(r.task), NEW s \in Appended(r)
  PROVE  RowOK(s) /\ s.task = r.task
<1>1. PICK a, n, cols, found :
        /\ a = r.a /\ n = Len(r.found) /\ cols = r.cols /\ found = r.found
  OBVIOUS
<1>2. /\ a \in Seq(Monos) /\ cols \in Seq(Nat) /\ found \in Seq(Nat)
      /\ n \in {1, 2} /\ n <= Len(a) /\ Len(a) \in Nat /\ Len(cols) \in Nat /\ n = Len(found)
      /\ \A i \in 1..n : found[i] \in Indexes /\ MonoOf(found[i]) = a[i]
      /\ r.b = <<>>
  <2>1. r \in PartialRow /\ ~Ended(r) /\ r.b = <<>>
    BY DEF FoundAll, Progress
  <2>2. a \in Seq(Monos) /\ cols \in Seq(Nat) /\ found \in Seq(Nat)
    BY <1>1, <2>1 DEF PartialRow
  <2>3. /\ n = Len(Keys(r)) /\ n \in {1, 2} /\ n <= Len(a)
        /\ \A i \in 1..n : Keys(r)[i] = a[i]
    BY <1>1, <2>1, KeysAre DEF FoundAll
  <2>4. \A i \in 1..n : found[i] \in Indexes /\ MonoOf(found[i]) = a[i]
    BY <1>1, <2>3 DEF FoundAll
  <2> QED
    BY <1>1, <2>1, <2>2, <2>3, <2>4
<1>3. s = [r EXCEPT !.a = SubSeq(a, n + 1, Len(a)), !.cols = cols \o found, !.found = <<>>]
  BY <1>1 DEF Appended
<1>4. /\ SubSeq(a, n + 1, Len(a)) \in Seq(Monos)
      /\ Len(SubSeq(a, n + 1, Len(a))) = Len(a) - n
      /\ \A i \in 1..Len(a) - n : SubSeq(a, n + 1, Len(a))[i] = a[n + i]
      /\ cols \o found \in Seq(Nat) /\ Len(cols \o found) = Len(cols) + n
      /\ \A i \in 1..Len(cols) : (cols \o found)[i] = cols[i]
      /\ \A i \in 1..n : (cols \o found)[Len(cols) + i] = found[i]
  BY <1>2
<1>5. PICK b, c : b = SubSeq(a, n + 1, Len(a)) /\ c = cols \o found
  OBVIOUS
<1>6. /\ s \in PartialRow /\ s.task = r.task /\ s.a = b /\ s.b = <<>> /\ s.cols = c
      /\ s.found = <<>>
  <2>1. r \in PartialRow
    BY DEF FoundAll
  <2>2. b \in Seq(Monos) /\ c \in Seq(Nat) /\ <<>> \in Seq(Nat)
    BY <1>4, <1>5
  <2>3. s = [r EXCEPT !.a = b, !.cols = c, !.found = <<>>]
    BY <1>3, <1>5
  <2> QED
    BY <1>2, <2>1, <2>2, <2>3 DEF PartialRow
<1>7. PICK P : P = Products(r.task.poly, r.task.lead)
  OBVIOUS
<1>8. /\ TaskOK(r.task)
      /\ \A i \in 1..Len(cols) : cols[i] \in Indexes
      /\ Len(cols) + Len(a) = Len(P)
      /\ \A i \in 1..Len(cols) : MonoOf(cols[i]) = P[i]
      /\ \A i \in 1..Len(a) : a[i] = P[Len(cols) + i]
  BY <1>1, <1>7 DEF FoundAll, Progress, PolyProgress
<1>9. /\ Len(c) = Len(cols) + n /\ Len(b) = Len(a) - n
      /\ \A i \in 1..Len(cols) : c[i] = cols[i]
      /\ \A i \in 1..n : c[Len(cols) + i] = found[i]
      /\ \A i \in 1..Len(b) : b[i] = a[n + i]
  BY <1>4, <1>5
<1>10. \A i \in 1..Len(c) : c[i] \in Indexes /\ MonoOf(c[i]) = P[i]
  <2> SUFFICES ASSUME NEW i \in 1..Len(c)
               PROVE  c[i] \in Indexes /\ MonoOf(c[i]) = P[i]
    OBVIOUS
  <2>1. CASE i \in 1..Len(cols)
    BY <1>8, <1>9, <2>1
  <2>2. CASE i \notin 1..Len(cols)
    <3>1. PICK j \in 1..n : i = Len(cols) + j
      <4>1. i - Len(cols) \in 1..n
        BY <1>2, <1>9, <2>2
      <4>2. i = Len(cols) + (i - Len(cols))
        BY <1>2, <1>9
      <4> QED
        BY <4>1, <4>2
    <3>2. j \in 1..Len(a)
      BY <1>2
    <3> QED
      BY <1>2, <1>8, <1>9, <3>1, <3>2
  <2> QED
    BY <2>1, <2>2
<1>11. \A i \in 1..Len(b) : b[i] = P[Len(c) + i]
  <2> SUFFICES ASSUME NEW i \in 1..Len(b)
               PROVE  b[i] = P[Len(c) + i]
    OBVIOUS
  <2>1. n + i \in 1..Len(a) /\ Len(cols) + (n + i) = Len(c) + i
    <3>1. i \in Int /\ 1 <= i /\ i <= Len(a) - n /\ Len(c) = Len(cols) + n
      BY <1>2, <1>9
    <3> QED
      BY <1>2, <3>1
  <2> QED
    BY <1>8, <1>9, <2>1
<1>12. Progress(r.task, b, <<>>, c)
  <2>1. Len(c) + Len(b) = Len(P)
    <3>1. /\ Len(c) = Len(cols) + n /\ Len(b) = Len(a) - n
          /\ Len(cols) \in Nat /\ Len(a) \in Nat /\ n \in Nat
      BY <1>2, <1>9
    <3>2. Len(c) + Len(b) = Len(cols) + Len(a)
      BY <3>1
    <3> QED
      BY <1>8, <3>2
  <2> QED
    BY <1>7, <1>8, <1>10, <1>11, <2>1 DEF Progress, PolyProgress
<1> QED
  BY <1>6, <1>12, NoneFound

(* Taking the head off a descending sequence *)
LEMMA HeadOff ==
  ASSUME NEW s \in Seq(Monos), s # <<>>, Descending(s)
  PROVE  /\ Tail(s) \in Seq(Monos) /\ Descending(Tail(s))
         /\ Head(s) \in Monos
         /\ Range(s) = {Head(s)} \cup Range(Tail(s))
         /\ \A x \in Range(Tail(s)) : x < Head(s)
<1>1. PICK n \in Nat \ {0} : Len(s) = n
  BY DEF Descending
<1>2. /\ Tail(s) \in Seq(Monos) /\ Len(Tail(s)) = n - 1 /\ Head(s) = s[1]
      /\ \A i \in 1..n - 1 : Tail(s)[i] = s[i + 1]
      /\ DOMAIN s = 1..n /\ DOMAIN Tail(s) = 1..n - 1
  BY <1>1
<1>3. \A i \in 1..n : s[i] \in Monos
  BY <1>2
<1>4. Descending(Tail(s))
  BY <1>1, <1>2 DEF Descending
<1>5. Range(s) = {Head(s)} \cup Range(Tail(s))
  <2>1. ASSUME NEW i \in 1..n
        PROVE  s[i] \in {Head(s)} \cup Range(Tail(s))
    <3>1. CASE i = 1
      BY <1>2, <3>1
    <3>2. CASE i # 1
      <4>1. i - 1 \in 1..n - 1 /\ Tail(s)[i - 1] = s[i]
        BY <1>1, <1>2, <3>2
      <4> QED
        BY <1>2, <4>1 DEF Range
    <3> QED
      BY <3>1, <3>2
  <2>2. ASSUME NEW i \in 1..n - 1
        PROVE  Tail(s)[i] \in Range(s)
    <3>1. i + 1 \in 1..n /\ Tail(s)[i] = s[i + 1]
      BY <1>1, <1>2
    <3> QED
      BY <1>2, <3>1 DEF Range
  <2>3. s[1] \in Range(s)
    BY <1>1, <1>2 DEF Range
  <2> QED
    BY <1>2, <2>1, <2>2, <2>3 DEF Range
<1>6. ASSUME NEW x \in Range(Tail(s))
      PROVE  x < Head(s)
  <2>1. PICK i \in 1..n - 1 : x = s[i + 1]
    BY <1>2 DEF Range
  <2>2. i + 1 \in 1..n /\ 1 < i + 1 /\ 1 \in 1..n
    BY <1>1
  <2>3. s[1] > s[i + 1]
    BY <1>1, <2>2 DEF Descending
  <2>4. s[1] \in Nat /\ s[i + 1] \in Nat
    BY <1>3, <2>2, TermsAssumption
  <2> QED
    BY <1>2, <2>1, <2>3, <2>4
<1> QED
  BY <1>1, <1>2, <1>3, <1>4, <1>5, <1>6

(* The greatest term x of an S-pair leaves its halves: it joins the row, or two
   equal terms cancel. *)
LEMMA PairStep ==
  ASSUME NEW k, NEW a, NEW b, NEW cols \in Seq(Nat), PairProgress(k, a, b, cols),
         NEW a2, NEW b2, NEW x,
         Descending(a2), Descending(b2),
         Range(a2) \subseteq Range(a), Range(a) \subseteq {x} \cup Range(a2),
         Range(b2) \subseteq Range(b), Range(b) \subseteq {x} \cup Range(b2),
         x \in Range(a) \cup Range(b),
         \A y \in Range(a2) \cup Range(b2) : x > y
  PROVE  /\ x \in Range(a) \cap Range(b) => PairProgress(k, a2, b2, cols)
         /\ \A col \in Nat : MonoOf(col) = x => PairProgress(k, a2, b2, Append(cols, col))
<1>1. PICK A, B, D : /\ A = Range(Products(k.poly, k.lead))
                     /\ B = Range(Products(k.other, k.lead))
                     /\ D = Done(cols)
  OBVIOUS
<1>2. /\ \A i, j \in 1..Len(cols) : i < j => MonoOf(cols[i]) > MonoOf(cols[j])
      /\ \A z \in D : \A y \in Range(a) \cup Range(b) : z > y
      /\ D \subseteq A \cup B /\ Range(a) \subseteq A /\ Range(b) \subseteq B
      /\ A \ B \subseteq Range(a) \cup D
      /\ B \ A \subseteq Range(b) \cup D
  BY <1>1 DEF PairProgress
<1>3. ASSUME x \in Range(a) \cap Range(b)
      PROVE  PairProgress(k, a2, b2, cols)
  <2>1. A \ B \subseteq Range(a2) \cup D /\ B \ A \subseteq Range(b2) \cup D
    BY <1>2, <1>3
  <2>2. \A z \in D : \A y \in Range(a2) \cup Range(b2) : z > y
    BY <1>2
  <2>3. Range(a2) \subseteq A /\ Range(b2) \subseteq B
    BY <1>2
  <2> QED
    BY <1>1, <1>2, <2>1, <2>2, <2>3 DEF PairProgress
<1>4. ASSUME NEW col \in Nat, MonoOf(col) = x
      PROVE  PairProgress(k, a2, b2, Append(cols, col))
  <2>1. PICK n \in Nat : n = Len(cols)
    OBVIOUS
  <2>2. PICK c : c = Append(cols, col)
    OBVIOUS
  <2>3. /\ Len(c) = n + 1 /\ c[n + 1] = col
        /\ \A i \in 1..n : c[i] = cols[i]
    BY <2>1, <2>2
  <2>4. \A i \in 1..n + 1 : i \in 1..n \/ i = n + 1
    BY <2>1
  <2>5. Done(c) = D \cup {x}
    <3>1. ASSUME NEW i \in 1..n
          PROVE  MonoOf(c[i]) = MonoOf(cols[i]) /\ i \in 1..n + 1
      BY <2>3
    <3>2. n + 1 \in 1..n + 1
      OBVIOUS
    <3> QED
      BY <1>1, <1>4, <2>1, <2>3, <2>4, <3>1, <3>2 DEF Done
  <2>6. \A i, j \in 1..Len(c) : i < j => MonoOf(c[i]) > MonoOf(c[j])
    <3> SUFFICES ASSUME NEW i \in 1..n + 1, NEW j \in 1..n + 1, i < j
                 PROVE  MonoOf(c[i]) > MonoOf(c[j])
      BY <2>3
    <3>1. i \in 1..n
      OBVIOUS
    <3>2. CASE j \in 1..n
      BY <1>2, <2>1, <2>3, <3>1, <3>2
    <3>3. CASE j = n + 1
      <4>1. MonoOf(cols[i]) \in D
        BY <1>1, <2>1, <3>1 DEF Done
      <4>2. MonoOf(cols[i]) > x
        BY <1>2, <4>1
      <4> QED
        BY <1>4, <2>3, <3>1, <3>3, <4>2
    <3> QED
      BY <2>4, <3>2, <3>3
  <2>7. \A z \in Done(c) : \A y \in Range(a2) \cup Range(b2) : z > y
    BY <1>2, <2>5
  <2>8. Done(c) \subseteq A \cup B /\ Range(a2) \subseteq A /\ Range(b2) \subseteq B
    BY <1>2, <2>5
  <2>9. A \ B \subseteq Range(a2) \cup Done(c) /\ B \ A \subseteq Range(b2) \cup Done(c)
    BY <1>2, <2>5
  <2> QED
    BY <1>1, <2>2, <2>6, <2>7, <2>8, <2>9 DEF PairProgress
<1> QED
  BY <1>3, <1>4

(* The term of an S-pair's row that is taken next, and what it leaves *)
Taken(r) == IF TakesA(r) THEN Head(r.a) ELSE Head(r.b)
LeftOfA(r) == IF TakesA(r) THEN Tail(r.a) ELSE r.a
LeftOfB(r) == IF TakesB(r) THEN Tail(r.b) ELSE r.b

(* It is the greatest, and it is taken from both halves if both have it. *)
LEMMA TakenTerm ==
  ASSUME NEW r \in PartialRow, ~Ended(r), Descending(r.a), Descending(r.b)
  PROVE  /\ LeftOfA(r) \in Seq(Monos) /\ LeftOfB(r) \in Seq(Monos)
         /\ Descending(LeftOfA(r)) /\ Descending(LeftOfB(r))
         /\ TakesA(r) => r.a # <<>>
         /\ ~TakesA(r) => TakesB(r) /\ r.b # <<>>
         /\ Range(LeftOfA(r)) \subseteq Range(r.a)
         /\ Range(r.a) \subseteq {Taken(r)} \cup Range(LeftOfA(r))
         /\ Range(LeftOfB(r)) \subseteq Range(r.b)
         /\ Range(r.b) \subseteq {Taken(r)} \cup Range(LeftOfB(r))
         /\ Taken(r) \in Range(r.a) \cup Range(r.b)
         /\ TakesA(r) /\ TakesB(r) => Taken(r) \in Range(r.a) \cap Range(r.b)
         /\ \A y \in Range(LeftOfA(r)) \cup Range(LeftOfB(r)) : Taken(r) > y
<1>1. PICK a \in Seq(Monos), b \in Seq(Monos) : a = r.a /\ b = r.b
  BY DEF PartialRow
<1>2. a # <<>> \/ b # <<>>
  BY <1>1 DEF Ended
<1>3. a # <<>> => Head(a) \in Monos
  BY HeadOff, <1>1
<1>4. b # <<>> => Head(b) \in Monos
  BY HeadOff, <1>1
<1>5. \A x \in Monos : x \in Nat
  BY TermsAssumption
<1>6. /\ a # <<>> => /\ Tail(a) \in Seq(Monos) /\ Descending(Tail(a))
                     /\ Range(a) = {Head(a)} \cup Range(Tail(a))
                     /\ \A y \in Range(Tail(a)) : y < Head(a) /\ y \in Monos
      /\ b # <<>> => /\ Tail(b) \in Seq(Monos) /\ Descending(Tail(b))
                     /\ Range(b) = {Head(b)} \cup Range(Tail(b))
                     /\ \A y \in Range(Tail(b)) : y < Head(b) /\ y \in Monos
  <2>1. ASSUME NEW s \in Seq(Monos)
        PROVE  \A y \in Range(s) : y \in Monos
    BY DEF Range
  <2>2. ASSUME NEW s \in Seq(Monos), s # <<>>, Descending(s)
        PROVE  /\ Tail(s) \in Seq(Monos) /\ Descending(Tail(s))
               /\ Range(s) = {Head(s)} \cup Range(Tail(s))
               /\ \A y \in Range(Tail(s)) : y < Head(s) /\ y \in Monos
    BY <2>1, <2>2, HeadOff
  <2> QED
    BY <1>1, <2>2
<1>7. /\ a = <<>> => Range(a) = {}
      /\ b = <<>> => Range(b) = {}
  BY DEF Range
<1>8. CASE a # <<>> /\ (b = <<>> \/ Head(a) > Head(b))
  <2>1. TakesA(r) /\ ~TakesB(r)
    BY <1>1, <1>3, <1>4, <1>5, <1>8 DEF TakesA, TakesB
  <2>2. LeftOfA(r) = Tail(a) /\ LeftOfB(r) = b /\ Taken(r) = Head(a)
    BY <1>1, <2>1 DEF LeftOfA, LeftOfB, Taken
  <2>3. \A y \in Range(b) : Head(a) > y
    <3> SUFFICES ASSUME NEW y \in Range(b)
                 PROVE  Head(a) > y
      OBVIOUS
    <3>1. b # <<>> /\ Head(a) > Head(b)
      BY <1>7, <1>8
    <3>2. y \in Nat /\ y <= Head(b)
      BY <1>5, <1>6, <3>1
    <3>3. Head(a) \in Nat /\ Head(b) \in Nat
      BY <1>3, <1>4, <1>5, <1>8, <3>1
    <3> QED
      BY <3>1, <3>2, <3>3
  <2>4. \A y \in Range(Tail(a)) : Head(a) > y
    BY <1>3, <1>5, <1>6, <1>8
  <2> QED
    BY <1>1, <1>6, <1>8, <2>1, <2>2, <2>3, <2>4
<1>9. CASE b # <<>> /\ (a = <<>> \/ Head(b) > Head(a))
  <2>1. TakesB(r) /\ ~TakesA(r)
    BY <1>1, <1>3, <1>4, <1>5, <1>9 DEF TakesA, TakesB
  <2>2. LeftOfA(r) = a /\ LeftOfB(r) = Tail(b) /\ Taken(r) = Head(b)
    BY <1>1, <2>1 DEF LeftOfA, LeftOfB, Taken
  <2>3. \A y \in Range(a) : Head(b) > y
    <3> SUFFICES ASSUME NEW y \in Range(a)
                 PROVE  Head(b) > y
      OBVIOUS
    <3>1. a # <<>> /\ Head(b) > Head(a)
      BY <1>7, <1>9
    <3>2. y \in Nat /\ y <= Head(a)
      BY <1>5, <1>6, <3>1
    <3>3. Head(a) \in Nat /\ Head(b) \in Nat
      BY <1>3, <1>4, <1>5, <1>9, <3>1
    <3> QED
      BY <3>1, <3>2, <3>3
  <2>4. \A y \in Range(Tail(b)) : Head(b) > y
    BY <1>4, <1>5, <1>6, <1>9
  <2> QED
    BY <1>1, <1>6, <1>9, <2>1, <2>2, <2>3, <2>4
<1>10. CASE a # <<>> /\ b # <<>> /\ Head(a) = Head(b)
  <2>1. TakesA(r) /\ TakesB(r)
    BY <1>1, <1>3, <1>4, <1>5, <1>10 DEF TakesA, TakesB
  <2>2. LeftOfA(r) = Tail(a) /\ LeftOfB(r) = Tail(b) /\ Taken(r) = Head(a)
    BY <1>1, <2>1 DEF LeftOfA, LeftOfB, Taken
  <2>3. \A y \in Range(Tail(a)) \cup Range(Tail(b)) : Head(a) > y
    BY <1>3, <1>5, <1>6, <1>10
  <2> QED
    BY <1>1, <1>6, <1>10, <2>1, <2>2, <2>3
<1>11. a # <<>> /\ b # <<>> => Head(a) > Head(b) \/ Head(b) > Head(a) \/ Head(a) = Head(b)
  BY <1>3, <1>4, <1>5
<1> QED
  BY <1>2, <1>8, <1>9, <1>10, <1>11

(* Which of the columns found is the one of the term that is taken *)
LEMMA TakenColumn ==
  ASSUME NEW r, FoundAll(r), IsSPair(r.task),
         NEW col, col = IF TakesA(r) THEN Head(r.found) ELSE Last(r.found),
         TakesA(r) => r.a # <<>>,
         ~TakesA(r) => TakesB(r) /\ r.b # <<>>
  PROVE  /\ col \in Indexes /\ col \in Nat
         /\ MonoOf(col) = Taken(r)
<1>1. PICK found \in Seq(Nat) : found = r.found
  BY DEF FoundAll, PartialRow
<1>2. PICK n \in {1, 2} : n = Len(Keys(r))
  BY KeysAre DEF FoundAll, Progress
<1>3. /\ Len(found) = n
      /\ \A i \in 1..n : found[i] \in Nat /\ found[i] \in Indexes /\ MonoOf(found[i]) = Keys(r)[i]
  <2>1. Len(found) = n
    BY <1>1, <1>2 DEF FoundAll
  <2>2. \A i \in 1..n : found[i] \in Nat
    BY <2>1
  <2> QED
    BY <1>1, <2>1, <2>2 DEF FoundAll
<1>4. Head(found) = found[1] /\ Last(found) = found[n] /\ 1 \in 1..n /\ n \in 1..n
  BY <1>3 DEF Last
<1>5. r \in PartialRow /\ ~Ended(r)
  BY DEF FoundAll
<1>6. CASE TakesA(r)
  <2>1. Keys(r)[1] = Head(r.a)
    <3>1. CASE r.b # <<>>
      <4>1. Keys(r) = <<Head(r.a), Head(r.b)>>
        BY <1>5, <1>6, <3>1, KeysAre
      <4> QED
        BY <4>1
    <3>2. CASE r.b = <<>>
      <4>1. Keys(r) = <<Head(r.a)>>
        BY <1>5, <1>6, <3>2, KeysAre
      <4> QED
        BY <4>1
    <3> QED
      BY <3>1, <3>2
  <2> QED
    BY <1>1, <1>3, <1>4, <1>6, <2>1 DEF Taken
<1>7. CASE ~TakesA(r)
  <2>1. Keys(r)[n] = Head(r.b)
    <3>1. CASE r.a # <<>>
      <4>1. Keys(r) = <<Head(r.a), Head(r.b)>>
        BY <1>5, <1>7, <3>1, KeysAre
      <4>2. n = 2
        BY <1>2, <4>1
      <4> QED
        BY <4>1, <4>2
    <3>2. CASE r.a = <<>>
      <4>1. Keys(r) = <<Head(r.b)>>
        BY <1>5, <1>7, <3>2, KeysAre
      <4>2. n = 1
        BY <1>2, <4>1
      <4> QED
        BY <4>1, <4>2
    <3> QED
      BY <3>1, <3>2
  <2> QED
    BY <1>1, <1>3, <1>4, <1>7, <2>1 DEF Taken
<1> QED
  BY <1>6, <1>7

LEMMA PairAppended ==
  ASSUME input \in Inputs, NEW r, FoundAll(r), IsSPair(r.task), NEW s \in Appended(r)
  PROVE  RowOK(s) /\ s.task = r.task
<1>0. s \in Appended(r)
  OBVIOUS
<1>1. PICK k, a, b, cols : k = r.task /\ a = r.a /\ b = r.b /\ cols = r.cols
  OBVIOUS
<1>2. PICK a2, b2, x : a2 = LeftOfA(r) /\ b2 = LeftOfB(r) /\ x = Taken(r)
  OBVIOUS
<1>3. PICK col : col = IF TakesA(r) THEN Head(r.found) ELSE Last(r.found)
  OBVIOUS
<1>4. /\ r \in PartialRow /\ ~Ended(r) /\ cols \in Seq(Nat) /\ IsSPair(k) /\ TaskOK(k)
      /\ PairProgress(k, a, b, cols) /\ Descending(a) /\ Descending(b)
      /\ \A i \in 1..Len(cols) : cols[i] \in Indexes
  BY <1>1 DEF FoundAll, Progress, PairProgress, PartialRow
<1>5. /\ a2 \in Seq(Monos) /\ b2 \in Seq(Monos)
      /\ Descending(a2) /\ Descending(b2)
      /\ TakesA(r) => a # <<>>
      /\ ~TakesA(r) => TakesB(r) /\ b # <<>>
      /\ Range(a2) \subseteq Range(a) /\ Range(a) \subseteq {x} \cup Range(a2)
      /\ Range(b2) \subseteq Range(b) /\ Range(b) \subseteq {x} \cup Range(b2)
      /\ x \in Range(a) \cup Range(b)
      /\ TakesA(r) /\ TakesB(r) => x \in Range(a) \cap Range(b)
      /\ \A y \in Range(a2) \cup Range(b2) : x > y
  BY <1>1, <1>2, <1>4, TakenTerm
<1>6. col \in Indexes /\ col \in Nat /\ MonoOf(col) = x
  BY <1>1, <1>2, <1>3, <1>4, <1>5, TakenColumn
<1>7. /\ TakesA(r) /\ TakesB(r) => PairProgress(k, a2, b2, cols)
      /\ PairProgress(k, a2, b2, Append(cols, col))
  BY <1>4, <1>5, <1>6, PairStep
<1>8. PICK c : c = Append(cols, col)
  OBVIOUS
<1>9. c \in Seq(Nat) /\ \A i \in 1..Len(c) : c[i] \in Indexes
  <2>1. /\ c \in Seq(Nat) /\ Len(c) = Len(cols) + 1 /\ Len(cols) \in Nat
        /\ c[Len(cols) + 1] = col /\ \A i \in 1..Len(cols) : c[i] = cols[i]
    BY <1>4, <1>6, <1>8
  <2>2. \A i \in 1..Len(c) : i \in 1..Len(cols) \/ i = Len(cols) + 1
    BY <2>1
  <2> QED
    BY <1>4, <1>6, <2>1, <2>2
<1>10. PICK skipped : skipped = [r EXCEPT !.a = a2, !.b = b2, !.found = <<>>]
  OBVIOUS
<1>11. /\ skipped \in PartialRow /\ skipped.task = k /\ skipped.a = a2 /\ skipped.b = b2
       /\ skipped.cols = cols /\ skipped.found = <<>>
  <2>1. <<>> \in Seq(Nat)
    OBVIOUS
  <2> QED
    BY <1>1, <1>4, <1>5, <1>10, <2>1 DEF PartialRow
<1>12. PICK greater : greater = [skipped EXCEPT !.cols = c]
  OBVIOUS
<1>13. /\ greater \in PartialRow /\ greater.task = k /\ greater.a = a2 /\ greater.b = b2
       /\ greater.cols = c /\ greater.found = <<>>
  BY <1>9, <1>11, <1>12 DEF PartialRow
<1>14. s = greater \/ (TakesA(r) /\ TakesB(r) /\ s = skipped)
  <2>1. skipped = [r EXCEPT !.a = IF TakesA(r) THEN Tail(@) ELSE @,
                            !.b = IF TakesB(r) THEN Tail(@) ELSE @,
                            !.found = <<>>]
    BY <1>1, <1>2, <1>10 DEF LeftOfA, LeftOfB
  <2>2. greater = [skipped EXCEPT !.cols = Append(@, IF TakesA(r) THEN Head(r.found)
                                                                  ELSE Last(r.found))]
    BY <1>3, <1>8, <1>11, <1>12
  <2>3. Appended(r) = {greater} \cup (IF TakesA(r) /\ TakesB(r) THEN {skipped} ELSE {})
    BY <1>4, <1>1, <2>1, <2>2 DEF Appended
  <2>4. CASE TakesA(r) /\ TakesB(r)
    <3>1. Appended(r) = {greater, skipped}
      BY <2>3, <2>4
    <3> QED
      BY <1>0, <2>4, <3>1
  <2>5. CASE ~(TakesA(r) /\ TakesB(r))
    <3>1. Appended(r) = {greater}
      BY <2>3, <2>5
    <3> QED
      BY <1>0, <3>1
  <2> QED
    BY <2>4, <2>5
<1>15. RowOK(greater)
  <2>1. Progress(k, a2, b2, c)
    BY <1>4, <1>7, <1>8, <1>9 DEF Progress
  <2> QED
    BY <1>13, <2>1, NoneFound
<1>16. TakesA(r) /\ TakesB(r) => RowOK(skipped)
  <2>1. TakesA(r) /\ TakesB(r) => Progress(k, a2, b2, cols)
    BY <1>4, <1>7 DEF Progress
  <2> QED
    BY <1>11, <2>1, NoneFound
<1> QED
  BY <1>1, <1>11, <1>13, <1>14, <1>15, <1>16

LEMMA AppendedOK ==
  ASSUME input \in Inputs, NEW r, FoundAll(r), NEW s \in Appended(r)
  PROVE  RowOK(s) /\ s.task = r.task
BY PolyAppended, PairAppended

WithFound(r, f) == [r EXCEPT !.found = f]

LEMMA WithFoundIs ==
  ASSUME NEW r \in PartialRow, NEW f \in Seq(Nat)
  PROVE  /\ WithFound(r, f) \in PartialRow
         /\ WithFound(r, f).task = r.task
         /\ WithFound(r, f).a = r.a /\ WithFound(r, f).b = r.b
         /\ WithFound(r, f).cols = r.cols /\ WithFound(r, f).found = f
         /\ Keys(WithFound(r, f)) = Keys(r)
         /\ Ended(WithFound(r, f)) <=> Ended(r)
<1>1. PICK s : s = WithFound(r, f)
  OBVIOUS
<1>2. /\ s \in PartialRow /\ s.task = r.task /\ s.a = r.a /\ s.b = r.b
      /\ s.cols = r.cols /\ s.found = f
  BY <1>1 DEF WithFound, PartialRow
<1>3. Keys(s) = Keys(r) /\ (Ended(s) <=> Ended(r))
  BY <1>2 DEF Keys, Ended
<1> QED
  BY <1>1, <1>2, <1>3

(* A row that knows some or all of the columns that it looks up *)
LEMMA SomeFound ==
  ASSUME NEW r \in PartialRow, Progress(r.task, r.a, r.b, r.cols), ~Ended(r),
         NEW f \in Seq(Nat),
         \A i \in 1..Len(f) : f[i] \in Indexes /\ MonoOf(f[i]) = Keys(r)[i]
  PROVE  /\ Len(f) < Len(Keys(r)) => RowOK(WithFound(r, f))
         /\ Len(f) = Len(Keys(r)) => FoundAll(WithFound(r, f))
<1>1. PICK s : s = WithFound(r, f)
  OBVIOUS
<1>2. /\ s \in PartialRow /\ s.task = r.task /\ s.a = r.a /\ s.b = r.b
      /\ s.cols = r.cols /\ s.found = f /\ Keys(s) = Keys(r) /\ ~Ended(s)
  BY <1>1, WithFoundIs
<1> QED
  BY <1>1, <1>2 DEF RowOK, FoundAll, FoundSome

(* One more column is found. *)
LEMMA OneMoreFound ==
  ASSUME NEW r, RowOK(r), ~Ended(r), NEW col \in Indexes, col \in Nat, MonoOf(col) = Key(r)
  PROVE  /\ Append(r.found, col) \in Seq(Nat)
         /\ Len(Append(r.found, col)) <= Len(Keys(r))
         /\ \A i \in 1..Len(Append(r.found, col)) :
              Append(r.found, col)[i] \in Indexes /\ MonoOf(Append(r.found, col)[i]) = Keys(r)[i]
<1>1. PICK found \in Seq(Nat), n \in Nat : found = r.found /\ n = Len(found)
  BY DEF RowOK, PartialRow
<1>2. /\ n < Len(Keys(r))
      /\ \A i \in 1..n : found[i] \in Indexes /\ MonoOf(found[i]) = Keys(r)[i]
  BY <1>1 DEF RowOK, FoundSome
<1>3. PICK f : f = Append(found, col)
  OBVIOUS
<1>4. /\ f \in Seq(Nat) /\ Len(f) = n + 1 /\ f[n + 1] = col
      /\ \A i \in 1..n : f[i] = found[i]
  BY <1>1, <1>3
<1>5. \A i \in 1..n + 1 : i \in 1..n \/ i = n + 1
  OBVIOUS
<1>6. Len(Keys(r)) \in {1, 2}
  BY KeysAre DEF RowOK, Progress
<1>7. \A i \in 1..n + 1 : f[i] \in Indexes /\ MonoOf(f[i]) = Keys(r)[i]
  BY <1>1, <1>2, <1>4, <1>5 DEF Key
<1>8. n + 1 <= Len(Keys(r))
  <2>1. \A k \in {1, 2} : n < k => n + 1 <= k
    OBVIOUS
  <2> QED
    BY <1>2, <1>6, <2>1
<1> QED
  BY <1>1, <1>3, <1>4, <1>7, <1>8

LEMMA WithColumnOK ==
  ASSUME input \in Inputs, NEW r, RowOK(r), ~Ended(r),
         NEW col \in Indexes, col \in Nat, MonoOf(col) = Key(r),
         NEW s \in WithColumn(r, col)
  PROVE  RowOK(s) /\ s.task = r.task
<1>1. PICK f : f = Append(r.found, col)
  OBVIOUS
<1>2. /\ f \in Seq(Nat) /\ Len(f) <= Len(Keys(r))
      /\ \A i \in 1..Len(f) : f[i] \in Indexes /\ MonoOf(f[i]) = Keys(r)[i]
  BY <1>1, OneMoreFound
<1>3. r \in PartialRow /\ Progress(r.task, r.a, r.b, r.cols)
  BY DEF RowOK
<1>4. /\ Len(f) < Len(Keys(r)) => RowOK(WithFound(r, f))
      /\ Len(f) = Len(Keys(r)) => FoundAll(WithFound(r, f))
  BY <1>2, <1>3, SomeFound
<1>5. WithFound(r, f).task = r.task /\ WithFound(r, f).found = f
  BY <1>2, <1>3, WithFoundIs
<1>6. s \in IF Len(f) = Len(Keys(r)) THEN Appended(WithFound(r, f)) ELSE {WithFound(r, f)}
  <2>1. WithFound(r, f) = [r EXCEPT !.found = Append(@, col)]
    BY <1>1, <1>3 DEF WithFound, PartialRow
  <2> QED
    BY <1>5, <2>1 DEF WithColumn
<1>7. CASE Len(f) = Len(Keys(r))
  BY <1>4, <1>5, <1>6, <1>7, AppendedOK
<1>8. CASE Len(f) # Len(Keys(r))
  <2>1. Len(f) < Len(Keys(r))
    <3>1. Len(f) \in Nat /\ Len(Keys(r)) \in {1, 2}
      BY <1>2, <1>3, KeysAre DEF Progress
    <3> QED
      BY <1>2, <1>8, <3>1
  <2> QED
    BY <1>4, <1>5, <1>6, <1>8, <2>1
<1> QED
  BY <1>7, <1>8

(* The row that a task starts with *)
LEMMA NewRowOK ==
  ASSUME input \in Inputs, NEW k, TaskOK(k)
  PROVE  RowOK(NewRow(k)) /\ NewRow(k).task = k
<1>1. PICK A, B : A = Products(k.poly, k.lead) /\ B = Products(k.other, k.lead)
  OBVIOUS
<1>2. /\ k \in RowTask /\ k.poly \in Polys /\ k.lead \in Monos \cup {NoLead}
      /\ A \in Seq(Monos) /\ Len(A) \in Nat \ {0} /\ Descending(A)
  BY <1>1, TaskProducts, ProductsAre DEF TaskOK
<1>3. <<>> \in Seq(Monos) /\ <<>> \in Seq(Nat) /\ Len(<<>>) = 0
  OBVIOUS
<1>4. PICK r : r = NewRow(k)
  OBVIOUS
<1>5. \A i \in 1..0 : FALSE
  OBVIOUS
<1>6. CASE ~IsSPair(k)
  <2>1. r = [task |-> k, a |-> A, b |-> <<>>, cols |-> <<>>, found |-> <<>>]
    BY <1>1, <1>4, <1>6 DEF NewRow
  <2>2. r \in PartialRow /\ r.task = k /\ r.a = A /\ r.b = <<>> /\ r.cols = <<>> /\ r.found = <<>>
    BY <1>2, <1>3, <2>1 DEF PartialRow
  <2>3. PolyProgress(k, A, <<>>)
    <3>1. Len(<<>>) + Len(A) = Len(A) /\ \A i \in 1..Len(A) : Len(<<>>) + i = i
      BY <1>2, <1>3
    <3> QED
      BY <1>1, <1>3, <1>5, <3>1 DEF PolyProgress
  <2>4. Progress(k, A, <<>>, <<>>)
    BY <1>3, <1>5, <1>6, <2>3 DEF Progress
  <2> QED
    BY <1>4, <2>2, <2>4, NoneFound
<1>7. CASE IsSPair(k)
  <2>0. /\ B \in Seq(Monos) /\ Len(B) \in Nat \ {0} /\ Descending(B)
        /\ A[1] = k.lead /\ B[1] = k.lead
    BY <1>1, <1>7, TaskProducts, ProductsAre
  <2>1. r = [task |-> k, a |-> Tail(A), b |-> Tail(B), cols |-> <<>>, found |-> <<>>]
    BY <1>1, <1>4, <1>7 DEF NewRow
  <2>2. /\ Tail(A) \in Seq(Monos) /\ Descending(Tail(A)) /\ Range(A) = {k.lead} \cup Range(Tail(A))
        /\ Tail(B) \in Seq(Monos) /\ Descending(Tail(B)) /\ Range(B) = {k.lead} \cup Range(Tail(B))
    <3>1. A # <<>> /\ B # <<>> /\ Head(A) = k.lead /\ Head(B) = k.lead
      BY <1>2, <2>0
    <3> QED
      BY <1>2, <2>0, <3>1, HeadOff
  <2>3. /\ r \in PartialRow /\ r.task = k /\ r.a = Tail(A) /\ r.b = Tail(B) /\ r.cols = <<>>
        /\ r.found = <<>>
    BY <1>2, <1>3, <2>1, <2>2 DEF PartialRow
  <2>4. PairProgress(k, Tail(A), Tail(B), <<>>)
    <3>1. Done(<<>>) = {}
      BY <1>3, <1>5 DEF Done
    <3>2. \A i, j \in 1..Len(<<>>) : FALSE
      BY <1>3, <1>5
    <3> QED
      BY <1>1, <2>2, <3>1, <3>2 DEF PairProgress
  <2>5. Progress(k, Tail(A), Tail(B), <<>>)
    BY <1>3, <1>5, <1>7, <2>4 DEF Progress
  <2> QED
    BY <1>4, <2>3, <2>5, NoneFound
<1> QED
  BY <1>6, <1>7

-----------------------------------------------------------------------------
(* The inductive invariant of the rows *)

KindsOK ==
  /\ phase \in {"split", "build", "project", "done", "failed"}
  /\ Columns \subseteq Monos
  /\ bucketCount \in Nat
  /\ growing \in BOOLEAN
  /\ stale \in [Threads -> BOOLEAN]
  /\ known \in [Threads -> SUBSET Columns]
  /\ pc \in [Threads -> {"idle", "reader", "find", "lock"}]

TasksOK == \A k \in tasks : TaskOK(k)

(* A thread has a row exactly when it is not idle, and a row that waits for the
   lock has a term to look up. *)
InProgressOK ==
  /\ \A r \in InProgress : RowOK(r)
  /\ \A t \in Threads : pc[t] = "idle" <=> row[t] = NoRow
  /\ \A t \in Threads : pc[t] = "lock" => ~Ended(row[t])

FinishedRow(r) == r \in MatrixRow /\ Progress(r.task, <<>>, <<>>, r.cols)

FinishedOK == \A r \in MatrixRows : FinishedRow(r)

(* The rows that are dealt are those of all tasks, and a bottom row with a left
   column has a top row to be reduced by. *)
ProjectionOK ==
  /\ phase \in {"split", "build"} => top = <<>> /\ bottom = {}
  /\ DOMAIN top \subseteq LeftColumns
  /\ phase \in {"project", "done"} =>
       /\ tasks = {}
       /\ \A t \in Threads : pc[t] = "idle"
       /\ DOMAIN top = LeftColumns
       /\ \A m \in LeftColumns :
            top[m] # NoRow => LeftEntries(top[m]) # {} /\ LeadingLeft(top[m]) = m
       /\ \A r \in bottom : LeftEntries(r) # {} =>
            /\ top[LeadingLeft(r)] # NoRow
            /\ Len(top[LeadingLeft(r)].cols) <= Len(r.cols)
  /\ phase = "done" => rows = {}

RowsInv ==
  KindsOK /\ TasksOK /\ InProgressOK /\ FinishedOK /\ ProjectionOK /\ LeftColumnsGetRows

LEMMA MinIsLeast ==
  ASSUME NEW S, S \subseteq Nat, S # {}
  PROVE  Min(S) \in S /\ \A n \in S : Min(S) <= n
<1>1. PICK m \in S : \A n \in S : <<n, m>> \notin OpToRel(<, Nat)
  BY NatLessThanWellFounded, WFMin
<1>2. \A n \in S : m <= n
  <2> SUFFICES ASSUME NEW n \in S
               PROVE  m <= n
    OBVIOUS
  <2>1. m \in Nat /\ n \in Nat
    OBVIOUS
  <2>2. ~(n < m)
    BY <1>1, <2>1 DEF OpToRel
  <2> QED
    BY <2>1, <2>2
<1> QED
  BY <1>1, <1>2 DEF Min

(* The left columns are the columns that can be reduced. *)
LEMMA LeftAreReducible ==
  ASSUME ColumnsInStep
  PROVE  LeftColumns = {m \in Columns : Reducers[m] # {}}
BY DEF LeftColumns, ColumnsInStep

(* Where a finished row leads *)
LEMMA LeadingIsLeft ==
  ASSUME ColumnsInStep, NEW r, FinishedRow(r), LeftEntries(r) # {}
  PROVE  LeadingLeft(r) \in LeftColumns
<1>1. r.cols \in Seq(Nat)
  BY DEF FinishedRow, MatrixRow
<1>2. LeftEntries(r) \subseteq Nat
  BY <1>1 DEF LeftEntries
<1>3. PICK i \in 1..Len(r.cols) : i = Min(LeftEntries(r)) /\ IsLeft(r.cols[i])
  <2>1. Min(LeftEntries(r)) \in LeftEntries(r)
    BY <1>2, MinIsLeast
  <2>2. \A i \in LeftEntries(r) : i \in 1..Len(r.cols) /\ IsLeft(r.cols[i])
    BY <1>1 DEF LeftEntries
  <2> QED
    BY <2>1, <2>2
<1>4. r.cols[i] \in Indexes
  BY DEF FinishedRow, Progress
<1> QED
  BY <1>3, <1>4, MonoOfIndex DEF LeadingLeft, LeftColumns

LEMMA RowOfTaskLeads ==
  ASSUME input \in Inputs, ColumnsInStep, NEW r, FinishedRow(r), ~IsSPair(r.task),
         TaskLead(r.task) \in LeftColumns
  PROVE  LeftEntries(r) # {} /\ LeadingLeft(r) = TaskLead(r.task)
<1>0. r.cols \in Seq(Nat)
  BY DEF FinishedRow, MatrixRow
<1>1. PICK k, cols, P : /\ k = r.task /\ cols = r.cols /\ cols \in Seq(Nat)
                        /\ P = Products(k.poly, k.lead)
  BY <1>0
<1>2. /\ TaskOK(k) /\ Len(cols) + Len(<<>>) = Len(P)
      /\ \A i \in 1..Len(cols) : cols[i] \in Indexes /\ MonoOf(cols[i]) = P[i]
  BY <1>1 DEF FinishedRow, Progress, PolyProgress
<1>3. Len(P) \in Nat \ {0} /\ P[1] = TaskLead(k)
  <2>1. /\ k.poly \in Polys /\ k.lead \in Monos \cup {NoLead}
        /\ Range(Products(k.poly, k.lead)) \subseteq Monos
    BY <1>2, TaskProducts
  <2>2. Len(P) \in Nat \ {0} /\ P[1] = IF k.lead = NoLead THEN LeadMono(k.poly) ELSE k.lead
    BY <1>1, <2>1, ProductsAre
  <2> QED
    BY <2>2 DEF TaskLead
<1>4. 1 \in 1..Len(cols)
  <2>1. Len(<<>>) = 0 /\ Len(cols) \in Nat
    OBVIOUS
  <2> QED
    BY <1>2, <1>3, <2>1
<1>5. cols[1] \in Indexes /\ MonoOf(cols[1]) = TaskLead(k)
  BY <1>2, <1>3, <1>4
<1>6. IsLeft(cols[1])
  BY <1>1, <1>5, MonoOfIndex DEF LeftColumns
<1>7. 1 \in LeftEntries(r) /\ LeftEntries(r) \subseteq Nat
  BY <1>1, <1>4, <1>6 DEF LeftEntries
<1>8. Min(LeftEntries(r)) = 1
  <2>1. \A i \in LeftEntries(r) : i >= 1
    BY <1>1 DEF LeftEntries
  <2>2. Min(LeftEntries(r)) \in LeftEntries(r) /\ Min(LeftEntries(r)) <= 1
    BY <1>7, MinIsLeast
  <2> QED
    BY <1>7, <2>1, <2>2
<1> QED
  BY <1>1, <1>5, <1>7, <1>8 DEF LeadingLeft

(* The invariant has the type invariant and the faithfulness of the rows, and
   the matrix of a finished projection is triangular. *)
LEMMA InvHasTypes ==
  ASSUME IInv, RowsInv
  PROVE  TypeOK
<1>1. \A m \in Columns : mMap[m] \in 0..Cardinality(Columns) - 1
  BY DEF IInv, IndexesExact
<1>2. tasks \subseteq RowTask
  BY DEF RowsInv, TasksOK, TaskOK
<1>3. rows \subseteq MatrixRow /\ bottom \subseteq MatrixRow
  BY DEF RowsInv, FinishedOK, FinishedRow, MatrixRows
<1>4. DOMAIN top \subseteq Columns
  BY DEF RowsInv, ProjectionOK, LeftColumns
<1> QED
  BY <1>1, <1>2, <1>3, <1>4
     DEF TypeOK, IInv, IndexesExact, SPairsAsked, HolderNeedsColumn, RowsInv, KindsOK

LEMMA InvHasFaithfulRows ==
  ASSUME IInv, RowsInv
  PROVE  RowsFaithful
<1> SUFFICES ASSUME NEW r \in MatrixRows
             PROVE  LET monos == [i \in DOMAIN r.cols |-> MonoOf(r.cols[i])]
                        A == Products(r.task.poly, r.task.lead)
                        B == Products(r.task.other, r.task.lead)
                    IN  IF ~IsSPair(r.task) THEN monos = A
                        ELSE /\ \A i \in 2..Len(monos) : monos[i] < monos[i - 1]
                             /\ Range(monos) \subseteq Range(A) \cup Range(B)
                             /\ (Range(A) \ Range(B)) \cup (Range(B) \ Range(A))
                                  \subseteq Range(monos)
  BY DEF RowsFaithful
<1>1. input \in Inputs /\ FinishedRow(r)
  BY DEF IInv, SPairsAsked, RowsInv, FinishedOK
<1>2. PICK k, cols, n : /\ k = r.task /\ cols = r.cols /\ n = Len(cols)
                       /\ cols \in Seq(Nat) /\ n \in Nat
  <2>1. r.cols \in Seq(Nat)
    BY <1>1 DEF FinishedRow, MatrixRow
  <2> QED
    BY <2>1
<1>3. Progress(k, <<>>, <<>>, cols) /\ TaskOK(k)
  BY <1>1, <1>2 DEF FinishedRow, Progress
<1>4. PICK monos : monos = [i \in 1..n |-> MonoOf(cols[i])]
  OBVIOUS
<1>5. PICK A, B : A = Products(k.poly, k.lead) /\ B = Products(k.other, k.lead)
  OBVIOUS
<1>6. monos = [i \in DOMAIN r.cols |-> MonoOf(r.cols[i])]
  BY <1>2, <1>4
<1>7. A \in Seq(Monos)
  BY <1>1, <1>3, <1>5, TaskProducts, ProductsAre
<1>8. ASSUME ~IsSPair(k)
      PROVE  monos = A
  <2>1. /\ n + Len(<<>>) = Len(A)
        /\ \A i \in 1..n : MonoOf(cols[i]) = A[i]
    BY <1>2, <1>3, <1>5, <1>8 DEF Progress, PolyProgress
  <2>2. Len(A) = n
    <3>1. Len(<<>>) = 0
      OBVIOUS
    <3> QED
      BY <1>2, <1>7, <2>1, <3>1
  <2>3. A = [i \in 1..n |-> A[i]]
    BY <1>7, <2>2
  <2> QED
    BY <1>4, <2>1, <2>3
<1>9. ASSUME IsSPair(k)
      PROVE  /\ \A i \in 2..Len(monos) : monos[i] < monos[i - 1]
             /\ Range(monos) \subseteq Range(A) \cup Range(B)
             /\ (Range(A) \ Range(B)) \cup (Range(B) \ Range(A)) \subseteq Range(monos)
  <2>1. /\ \A i, j \in 1..n : i < j => MonoOf(cols[i]) > MonoOf(cols[j])
        /\ Done(cols) \subseteq Range(A) \cup Range(B)
        /\ Range(A) \ Range(B) \subseteq Range(<<>>) \cup Done(cols)
        /\ Range(B) \ Range(A) \subseteq Range(<<>>) \cup Done(cols)
    BY <1>2, <1>3, <1>5, <1>9 DEF Progress, PairProgress
  <2>2. Range(<<>>) = {}
    BY DEF Range
  <2>3. Range(monos) = Done(cols)
    BY <1>2, <1>4 DEF Range, Done
  <2>4. Len(monos) = n
    BY <1>2, <1>4
  <2>5. ASSUME NEW i \in 2..n
        PROVE  monos[i] < monos[i - 1]
    <3>1. i \in 1..n /\ i - 1 \in 1..n /\ i - 1 < i
      BY <1>2
    <3>2. MonoOf(cols[i]) \in Nat /\ MonoOf(cols[i - 1]) \in Nat
      <4>1. cols[i] \in Indexes /\ cols[i - 1] \in Indexes
        BY <1>2, <1>3, <3>1 DEF Progress
      <4> QED
        BY <4>1, MonoOfIndex, TermsAssumption DEF RowsInv, KindsOK, IInv
    <3>3. MonoOf(cols[i - 1]) > MonoOf(cols[i])
      BY <2>1, <3>1
    <3> QED
      BY <1>4, <3>1, <3>2, <3>3
  <2> QED
    BY <2>1, <2>2, <2>3, <2>4, <2>5
<1> QED
  BY <1>2, <1>5, <1>6, <1>8, <1>9

LEMMA InvHasTriangle ==
  ASSUME IInv, RowsInv
  PROVE  TopIsTriangular
<1> SUFFICES ASSUME phase = "done"
             PROVE  /\ \A m \in LeftColumns :
                         top[m] # NoRow /\ LeftEntries(top[m]) # {} /\ LeadingLeft(top[m]) = m
                    /\ \A r \in bottom :
                         LeftEntries(r) # {} =>
                           Len(top[LeadingLeft(r)].cols) <= Len(r.cols)
  BY DEF TopIsTriangular
<1>1. /\ tasks = {} /\ rows = {}
      /\ \A t \in Threads : pc[t] = "idle"
      /\ DOMAIN top = LeftColumns
      /\ \A m \in LeftColumns :
           top[m] # NoRow => LeftEntries(top[m]) # {} /\ LeadingLeft(top[m]) = m
      /\ \A r \in bottom : LeftEntries(r) # {} =>
           /\ top[LeadingLeft(r)] # NoRow
           /\ Len(top[LeadingLeft(r)].cols) <= Len(r.cols)
  BY DEF RowsInv, ProjectionOK
<1>2. ASSUME NEW m \in LeftColumns
      PROVE  top[m] # NoRow
  <2>1. InProgress = {}
    BY <1>1 DEF RowsInv, InProgressOK, InProgress
  <2>2. PICK r \in MatrixRows : ~IsSPair(r.task) /\ TaskLead(r.task) = m
    BY <1>1, <1>2, <2>1 DEF RowsInv, LeftColumnsGetRows
  <2>3. LeftEntries(r) # {} /\ LeadingLeft(r) = m
    BY <1>2, <2>2, RowOfTaskLeads DEF RowsInv, FinishedOK, IInv, SPairsAsked
  <2>4. CASE r \in bottom
    BY <1>1, <2>3, <2>4
  <2>5. CASE r \notin bottom
    <3>1. PICK n \in LeftColumns : r = top[n] /\ top[n] # NoRow
      BY <1>1, <2>5 DEF MatrixRows
    <3> QED
      BY <1>1, <2>3, <3>1
  <2> QED
    BY <2>4, <2>5
<1> QED
  BY <1>1, <1>2

LEMMA InvIsSound ==
  ASSUME IInv, RowsInv
  PROVE  MatrixIsSound
BY InvHasTypes, InvHasFaithfulRows, InvHasTriangle DEF MatrixIsSound, RowsInv

(* What a thread's column, found or created, may make of its row *)
RowsWithColumn(r, col) ==
  LET found == Append(r.found, col)
  IN  IF ~Together(r) THEN WithColumn(r, col)
      ELSE {WithFound(r, IF Len(found) = 2 THEN <<>> ELSE found)}

LEMMA RowsWithColumnOK ==
  \A r, col, s :
    /\ input \in Inputs /\ RowOK(r) /\ ~Ended(r)
    /\ col \in Indexes /\ col \in Nat /\ MonoOf(col) = Key(r)
    /\ s \in RowsWithColumn(r, col)
    => RowOK(s) /\ s.task = r.task /\ (Together(r) /\ s.found # <<>> => ~Ended(s))
<1> SUFFICES ASSUME NEW r, NEW col, NEW s,
                    input \in Inputs, RowOK(r), ~Ended(r),
                    col \in Indexes, col \in Nat, MonoOf(col) = Key(r),
                    s \in RowsWithColumn(r, col)
             PROVE  RowOK(s) /\ s.task = r.task /\ (Together(r) /\ s.found # <<>> => ~Ended(s))
  OBVIOUS
<1>1. CASE Together(r)
  <2>1. PICK f : f = Append(r.found, col)
    OBVIOUS
  <2>2. /\ f \in Seq(Nat) /\ Len(f) <= Len(Keys(r))
        /\ \A i \in 1..Len(f) : f[i] \in Indexes /\ MonoOf(f[i]) = Keys(r)[i]
    BY <2>1, OneMoreFound
  <2>3. r \in PartialRow /\ Progress(r.task, r.a, r.b, r.cols) /\ Len(Keys(r)) = 2
    BY <1>1, KeysAre DEF RowOK, Progress
  <2>4. PICK g : g = (IF Len(f) = 2 THEN <<>> ELSE f) /\ s = WithFound(r, g)
    BY <1>1, <2>1 DEF RowsWithColumn
  <2>5. /\ g \in Seq(Nat) /\ Len(g) < Len(Keys(r))
        /\ \A i \in 1..Len(g) : g[i] \in Indexes /\ MonoOf(g[i]) = Keys(r)[i]
    <3>1. CASE Len(f) = 2
      <4>1. <<>> \in Seq(Nat) /\ Len(<<>>) = 0 /\ \A i \in 1..0 : FALSE
        OBVIOUS
      <4> QED
        BY <2>3, <2>4, <3>1, <4>1
    <3>2. CASE Len(f) # 2
      <4>1. g = f
        BY <2>4, <3>2
      <4>2. Len(f) \in Nat /\ Len(f) <= 2
        BY <2>2, <2>3
      <4>3. Len(f) < 2
        BY <3>2, <4>2
      <4> QED
        BY <2>2, <2>3, <4>1, <4>3
    <3> QED
      BY <3>1, <3>2
  <2> QED
    BY <2>3, <2>4, <2>5, SomeFound, WithFoundIs, ZenonT(40)
<1>2. CASE ~Together(r)
  <2>1. s \in WithColumn(r, col)
    BY <1>2 DEF RowsWithColumn
  <2>2. RowOK(s) /\ s.task = r.task
    BY <2>1, WithColumnOK
  <2> QED
    BY <1>2, <2>2
<1> QED
  BY <1>1, <1>2

(* The same of the next state *)
LEMMA RowsWithColumnNext ==
  (\A r, col, s :
    /\ input \in Inputs /\ RowOK(r) /\ ~Ended(r)
    /\ col \in Indexes /\ col \in Nat /\ MonoOf(col) = Key(r)
    /\ s \in RowsWithColumn(r, col)
    => RowOK(s) /\ s.task = r.task /\ (Together(r) /\ s.found # <<>> => ~Ended(s)))'
BY RowsWithColumnOK, PTL

(* createColumn leaves the thread with one of those rows, still at the lock
   if it has another of two terms to look up. *)
LEMMA CreatedColumnIs ==
  ASSUME NEW t \in Threads, NEW col \in Nat, CreatedColumn(t, col), pc[t] = "lock",
         DOMAIN row = Threads, NEW r, r = row[t], r \in PartialRow,
         pc \in [Threads -> {"idle", "reader", "find", "lock"}]
  PROVE  \E s \in RowsWithColumn(r, col), at \in {"reader", "find", "lock"} :
           /\ row' = [row EXCEPT ![t] = s]
           /\ pc' = [pc EXCEPT ![t] = at]
           /\ at = "lock" => Together(r) /\ s.found # <<>>
<1>1. CASE ~Together(r)
  BY <1>1 DEF CreatedColumn, RowsWithColumn, AfterColumn
<1>2. CASE Together(r)
  <2>1. PICK found : found = Append(r.found, col)
    OBVIOUS
  <2>2. found # <<>>
    <3>1. r.found \in Seq(Nat)
      BY DEF PartialRow
    <3>2. Len(found) = Len(r.found) + 1 /\ Len(r.found) \in Nat
      BY <2>1, <3>1
    <3> QED
      BY <3>2
  <2>3. CASE Len(found) = 2
    <3>1. row' = [row EXCEPT ![t].found = <<>>] /\ pc' = [pc EXCEPT ![t] = "reader"]
      BY <1>2, <2>1, <2>3 DEF CreatedColumn
    <3>2. row' = [row EXCEPT ![t] = WithFound(r, <<>>)]
      BY <3>1 DEF WithFound
    <3> QED
      BY <1>2, <2>1, <2>3, <3>1, <3>2 DEF RowsWithColumn
  <2>4. CASE Len(found) # 2
    <3>1. row' = [row EXCEPT ![t].found = found] /\ pc' = pc
      BY <1>2, <2>1, <2>4 DEF CreatedColumn
    <3>2. row' = [row EXCEPT ![t] = WithFound(r, found)] /\ pc' = [pc EXCEPT ![t] = "lock"]
      BY <3>1 DEF WithFound
    <3>3. WithFound(r, found).found # <<>>
      BY <2>2 DEF WithFound, PartialRow
    <3> QED
      BY <1>2, <2>1, <2>4, <3>2, <3>3 DEF RowsWithColumn
  <2> QED
    BY <2>3, <2>4
<1> QED
  BY <1>1, <1>2

LEMMA RowIsThere ==
  ASSUME NEW r \in PartialRow
  PROVE  r # NoRow
<1>1. "a" \in DOMAIN r
  BY DEF PartialRow
<1>2. "a" \notin DOMAIN NoRow
  BY DEF NoRow
<1> QED
  BY <1>1, <1>2

(* What is kept when the columns and the input stay, or a column is added *)
LEMMA StateKept ==
  ASSUME IInv, IInv', input' = input,
         \/ UNCHANGED mMap
         \/ \E m : m \notin Columns /\ \E isLeft : AddColumn(m, isLeft)
  PROVE  /\ \A x \in Columns : x \in Columns' /\ mMap'[x] = mMap[x]
         /\ \A col \in Indexes : col \in Indexes'
         /\ \A k : TaskOK(k) => TaskOK(k)'
         /\ \A r : RowOK(r) => RowOK(r)'
         /\ \A r : FinishedRow(r) => FinishedRow(r)'
<1>1. /\ \A x \in Columns : x \in Columns' /\ mMap'[x] = mMap[x]
      /\ \A col \in Indexes : col \in Indexes' /\ MonoOf(col)' = MonoOf(col)
  BY IndexesKept DEF IInv
<1>2. /\ \A k : TaskOK(k) => TaskOK(k)'
      /\ \A r : RowOK(r) => RowOK(r)'
      /\ \A k, a, b, cols : Progress(k, a, b, cols) => Progress(k, a, b, cols)'
  BY <1>1, RowsKept
<1>3. \A r : FinishedRow(r) => FinishedRow(r)'
  BY <1>2 DEF FinishedRow
<1> QED
  BY <1>1, <1>2, <1>3

(* The row of t becomes s, and t gets to at. *)
MovesTo(t, s, at) ==
  /\ DOMAIN row' = Threads
  /\ \A x \in Threads : row'[x] = IF x = t THEN s ELSE row[x]
  /\ pc' = [pc EXCEPT ![t] = at]

(* A thread takes a row or goes on with the one it has. *)
LEMMA RowMoves ==
  ASSUME InProgressOK, DOMAIN row = Threads,
         pc \in [Threads -> {"idle", "reader", "find", "lock"}],
         \A x : RowOK(x) => RowOK(x)',
         NEW t \in Threads, NEW s, RowOK(s)', row[t] # NoRow => s.task = row[t].task,
         NEW at \in {"reader", "find", "lock"}, at = "lock" => ~Ended(s),
         MovesTo(t, s, at)
  PROVE  /\ InProgressOK'
         /\ pc' \in [Threads -> {"idle", "reader", "find", "lock"}]
         /\ \A x \in InProgress : \E y \in InProgress' : y.task = x.task
<1>0. /\ \A x \in Threads : row'[x] = IF x = t THEN s ELSE row[x]
      /\ pc' = [pc EXCEPT ![t] = at]
  BY DEF MovesTo
<1>1. s # NoRow
  BY RowIsThere DEF RowOK
<1>2. InProgress' = {row'[x] : x \in Threads} \ {NoRow}
  BY DEF InProgress
<1>3. \A x \in InProgress' : x = s \/ x \in InProgress
  BY <1>0, <1>2 DEF InProgress
<1>4. \A x \in InProgress' : RowOK(x)'
  BY <1>3 DEF InProgressOK
<1>5. \A x \in Threads : pc'[x] = "idle" <=> row'[x] = NoRow
  <2> SUFFICES ASSUME NEW x \in Threads
               PROVE  pc'[x] = "idle" <=> row'[x] = NoRow
    OBVIOUS
  <2>1. CASE x = t
    BY <1>0, <1>1, <2>1
  <2>2. CASE x # t
    BY <1>0, <2>2 DEF InProgressOK
  <2> QED
    BY <2>1, <2>2
<1>6. \A x \in Threads : pc'[x] = "lock" => ~Ended(row'[x])
  <2> SUFFICES ASSUME NEW x \in Threads, pc'[x] = "lock"
               PROVE  ~Ended(row'[x])
    OBVIOUS
  <2>1. CASE x = t
    BY <1>0, <2>1
  <2>2. CASE x # t
    BY <1>0, <2>2 DEF InProgressOK
  <2> QED
    BY <2>1, <2>2
<1>7. \A x \in InProgress : \E y \in InProgress' : y.task = x.task
  <2> SUFFICES ASSUME NEW x \in InProgress
               PROVE  \E y \in InProgress' : y.task = x.task
    OBVIOUS
  <2>1. PICK u \in Threads : x = row[u] /\ x # NoRow
    BY DEF InProgress
  <2>2. CASE u = t
    <3>1. s \in InProgress'
      BY <1>0, <1>1, <1>2
    <3> QED
      BY <2>1, <2>2, <3>1
  <2>3. CASE u # t
    <3>1. x \in InProgress'
      BY <1>0, <1>2, <2>1, <2>3
    <3> QED
      BY <3>1
  <2> QED
    BY <2>2, <2>3
<1> QED
  BY <1>0, <1>4, <1>5, <1>6, <1>7 DEF InProgressOK

(* The tasks that have a row or are to get one *)
Asked == tasks \cup {r.task : r \in InProgress \cup MatrixRows}

LEMMA LeftColumnsKept ==
  ASSUME LeftColumnsGetRows, LeftColumns' = LeftColumns,
         \A k \in Asked : ~IsSPair(k) => k \in Asked'
  PROVE  LeftColumnsGetRows'
BY DEF LeftColumnsGetRows, Asked

(* The steps that move a row on and leave columns and rows alone *)
LEMMA RowStepKeeps ==
  ASSUME IInv, IInv', RowsInv, Building, KindsOK',
         UNCHANGED <<phase, input, tasks, mMap, mIsColumnToLeft, rows, projection>>,
         InProgressOK',
         \A x \in InProgress : \E y \in InProgress' : y.task = x.task
  PROVE  RowsInv' /\ Asked \subseteq Asked'
<1>1. /\ \A k : TaskOK(k) => TaskOK(k)'
      /\ \A r : FinishedRow(r) => FinishedRow(r)'
  BY StateKept
<1>2. TasksOK'
  BY <1>1 DEF RowsInv, TasksOK
<1>3. MatrixRows' = MatrixRows
  BY DEF MatrixRows, projection
<1>4. FinishedOK'
  BY <1>1, <1>3 DEF RowsInv, FinishedOK
<1>5. LeftColumns' = LeftColumns
  BY DEF LeftColumns, Columns, IsLeft
<1>asked. Asked \subseteq Asked'
  BY <1>3 DEF Asked
<1>6. LeftColumnsGetRows'
  BY <1>asked, <1>5, LeftColumnsKept DEF RowsInv
<1>7. ProjectionOK'
  BY DEF RowsInv, ProjectionOK, projection, Building
<1> QED
  BY <1>asked, <1>2, <1>4, <1>6, <1>7 DEF RowsInv

(* The steps that leave columns, tasks and rows alone *)
LEMMA OtherStepKeeps ==
  ASSUME IInv, IInv', RowsInv, KindsOK',
         UNCHANGED <<input, tasks, mMap, mIsColumnToLeft, pc, row, rows, projection>>,
         phase' = phase \/ (phase \in {"split", "build"} /\ phase' \in {"build", "failed"})
  PROVE  RowsInv' /\ Asked \subseteq Asked'
<1>1. /\ \A k : TaskOK(k) => TaskOK(k)'
      /\ \A r : RowOK(r) => RowOK(r)'
      /\ \A r : FinishedRow(r) => FinishedRow(r)'
  BY StateKept
<1>2. TasksOK'
  BY <1>1 DEF RowsInv, TasksOK
<1>3. MatrixRows' = MatrixRows /\ InProgress' = InProgress
  BY DEF MatrixRows, projection, InProgress
<1>4. FinishedOK'
  BY <1>1, <1>3 DEF RowsInv, FinishedOK
<1>5. InProgressOK'
  BY <1>1, <1>3 DEF RowsInv, InProgressOK
<1>6. LeftColumns' = LeftColumns
  BY DEF LeftColumns, Columns, IsLeft
<1>asked. Asked \subseteq Asked'
  BY <1>3 DEF Asked
<1>7. LeftColumnsGetRows'
  BY <1>asked, <1>6, LeftColumnsKept DEF RowsInv
<1>8. ProjectionOK'
  <2>1. /\ \A r : LeftEntries(r)' = LeftEntries(r)
        /\ \A r : LeadingLeft(r)' = LeadingLeft(r)
    BY DEF LeftEntries, LeadingLeft, IsLeft, MonoOf, Columns
  <2> QED
    BY <1>6, <2>1 DEF RowsInv, ProjectionOK, projection
<1> QED
  BY <1>asked, <1>2, <1>4, <1>5, <1>7, <1>8 DEF RowsInv

(* A thread that is not idle has a row, and its index is a number. *)
LEMMA ThreadHasRow ==
  ASSUME IInv, RowsInv, NEW t \in Threads, pc[t] # "idle"
  PROVE  row[t] # NoRow /\ RowOK(row[t]) /\ DOMAIN row = Threads
<1>1. row[t] # NoRow /\ DOMAIN row = Threads
  BY DEF RowsInv, InProgressOK, IInv, HolderNeedsColumn
<1>2. row[t] \in InProgress
  BY <1>1 DEF InProgress
<1> QED
  BY <1>1, <1>2 DEF RowsInv, InProgressOK

LEMMA IndexesAreNumbers ==
  ASSUME IInv
  PROVE  Indexes \subseteq Nat
BY DEF IInv, IndexesExact, Indexes

(* The column of a key that is there *)
LEMMA KeyFound ==
  ASSUME IInv, NEW key \in Columns, NEW col, col = mMap[key]
  PROVE  col \in Indexes /\ col \in Nat /\ MonoOf(col) = key
BY IndexOf, IndexesAreNumbers DEF IInv

(* The steps by which a thread looks up, finds or misses its terms *)
LEMMA FindKeepsRows ==
  ASSUME IInv, IInv', RowsInv, NEW t \in Threads,
         MakeReader(t) \/ FindOne(t) \/ FindTwo(t) \/ FindMiss(t) \/ FindLocked(t)
  PROVE  RowsInv' /\ Asked \subseteq Asked'
<1>1. PICK r : r = row[t]
  OBVIOUS
<1>2. /\ Building /\ input \in Inputs /\ DOMAIN row = Threads /\ InProgressOK
      /\ pc \in [Threads -> {"idle", "reader", "find", "lock"}]
      /\ r # NoRow /\ RowOK(r) /\ r \in PartialRow
  <2>1. pc[t] # "idle" /\ Building
    BY DEF MakeReader, FindOne, FindTwo, FindMiss, FindLocked, Finding, Creating
  <2>2. row[t] # NoRow /\ RowOK(row[t]) /\ DOMAIN row = Threads
    BY <2>1, ThreadHasRow
  <2> QED
    BY <1>1, <2>1, <2>2 DEF RowOK, RowsInv, KindsOK, IInv, SPairsAsked
<1>3. UNCHANGED <<phase, input, tasks, mMap, mIsColumnToLeft, rows, projection>>
  BY DEF MakeReader, FindOne, FindTwo, FindMiss, FindLocked, mapVars
<1>4. \A x : RowOK(x) => RowOK(x)'
  BY <1>3, StateKept
<1>5. \E s : \E at \in {"reader", "find", "lock"} :
        /\ RowOK(s) /\ s.task = r.task /\ (at = "lock" => ~Ended(s))
        /\ MovesTo(t, s, at)
  <2>1. CASE MakeReader(t)
    <3>1. MovesTo(t, r, "find")
      BY <1>1, <1>2, <2>1 DEF MakeReader, MovesTo
    <3> QED
      BY <1>2, <3>1
  <2>2. CASE FindMiss(t)
    <3>1. MovesTo(t, r, "lock") /\ ~Ended(r)
      BY <1>1, <1>2, <2>2 DEF FindMiss, Finding, MovesTo
    <3> QED
      BY <1>2, <3>1
  <2>3. CASE FindOne(t)
    <3>1. ~Ended(r) /\ Key(r) \in Columns
      BY <1>1, <2>3 DEF FindOne, Finding
    <3>2. PICK col : col = mMap[Key(r)]
      OBVIOUS
    <3>3. col \in Indexes /\ col \in Nat /\ MonoOf(col) = Key(r)
      BY <3>1, <3>2, KeyFound
    <3>4. PICK s \in WithColumn(r, col) : row' = [row EXCEPT ![t] = s]
      BY <1>1, <2>3, <3>2 DEF FindOne
    <3>5. RowOK(s) /\ s.task = r.task
      BY <1>2, <3>1, <3>3, WithColumnOK
    <3>6. PICK at \in {"reader", "find"} : pc' = [pc EXCEPT ![t] = at]
      BY <2>3 DEF FindOne, AfterColumn
    <3>7. MovesTo(t, s, at)
      BY <1>2, <3>4, <3>6 DEF MovesTo
    <3> QED
      BY <3>5, <3>6, <3>7
  <2>4. CASE FindTwo(t)
    <3>1. ~Ended(r) /\ Together(r) /\ Range(Keys(r)) \subseteq Columns
      BY <1>1, <2>4 DEF FindTwo, Finding
    <3>2. Len(Keys(r)) = 2 /\ Progress(r.task, r.a, r.b, r.cols)
      BY <1>2, <3>1, KeysAre DEF RowOK, Progress
    <3>3. Keys(r)[1] \in Columns /\ Keys(r)[2] \in Columns
      <4>1. Together(r) => Keys(r) = SubSeq(r.a, 1, IF Len(r.a) % 2 = 1 THEN 1 ELSE 2)
        BY DEF Together, Keys
      <4>2. DOMAIN Keys(r) = 1..2
        BY <1>2, <3>1, <3>2, <4>1 DEF PartialRow
      <4> QED
        BY <3>1, <4>2 DEF Range
    <3>4. PICK col1, col2 : col1 = mMap[Keys(r)[1]] /\ col2 = mMap[Keys(r)[2]]
      OBVIOUS
    <3>5. /\ col1 \in Indexes /\ col1 \in Nat /\ MonoOf(col1) = Keys(r)[1]
          /\ col2 \in Indexes /\ col2 \in Nat /\ MonoOf(col2) = Keys(r)[2]
      BY <3>3, <3>4, KeyFound
    <3>6. PICK f : f = <<col1, col2>>
      OBVIOUS
    <3>7. /\ f \in Seq(Nat) /\ Len(f) = 2
          /\ \A i \in 1..Len(f) : f[i] \in Indexes /\ MonoOf(f[i]) = Keys(r)[i]
      BY <3>5, <3>6
    <3>8. FoundAll(WithFound(r, f)) /\ WithFound(r, f).task = r.task
      BY <1>2, <3>1, <3>2, <3>7, SomeFound, WithFoundIs
    <3>9. PICK s \in Appended(WithFound(r, f)) : row' = [row EXCEPT ![t] = s]
      BY <1>1, <2>4, <3>4, <3>6 DEF FindTwo, WithFound
    <3>10. RowOK(s) /\ s.task = r.task
      BY <1>2, <3>8, AppendedOK
    <3>11. pc' = [pc EXCEPT ![t] = "find"]
      BY <1>2, <2>4 DEF FindTwo, Finding
    <3>12. MovesTo(t, s, "find")
      BY <1>2, <3>9, <3>11 DEF MovesTo
    <3> QED
      BY <3>10, <3>12
  <2>5. CASE FindLocked(t)
    <3>1. PICK col : col = mMap[Key(r)]
      OBVIOUS
    <3>2. /\ pc[t] = "lock" /\ Key(r) \in Columns /\ CreatedColumn(t, col)
      BY <1>1, <2>5, <3>1 DEF FindLocked, Creating
    <3>3. ~Ended(r)
      BY <1>1, <1>2, <3>2 DEF InProgressOK
    <3>4. col \in Indexes /\ col \in Nat /\ MonoOf(col) = Key(r)
      BY <3>1, <3>2, KeyFound
    <3>5. PICK s \in RowsWithColumn(r, col), at \in {"reader", "find", "lock"} :
             /\ row' = [row EXCEPT ![t] = s]
             /\ pc' = [pc EXCEPT ![t] = at]
             /\ at = "lock" => Together(r) /\ s.found # <<>>
      BY <1>1, <1>2, <3>2, <3>4, CreatedColumnIs
    <3>6. RowOK(s) /\ s.task = r.task /\ (Together(r) /\ s.found # <<>> => ~Ended(s))
      BY <1>2, <3>3, <3>4, RowsWithColumnOK
    <3>7. MovesTo(t, s, at)
      BY <1>2, <3>5 DEF MovesTo
    <3> QED
      BY <3>5, <3>6, <3>7
  <2> QED
    BY <2>1, <2>2, <2>3, <2>4, <2>5
<1>6. /\ InProgressOK'
      /\ pc' \in [Threads -> {"idle", "reader", "find", "lock"}]
      /\ \A x \in InProgress : \E y \in InProgress' : y.task = x.task
  <2>1. PICK s : \E at \in {"reader", "find", "lock"} :
          /\ RowOK(s) /\ s.task = r.task /\ (at = "lock" => ~Ended(s))
          /\ MovesTo(t, s, at)
    BY <1>5
  <2>2. PICK at \in {"reader", "find", "lock"} :
          /\ RowOK(s) /\ s.task = r.task /\ (at = "lock" => ~Ended(s))
          /\ MovesTo(t, s, at)
    BY <2>1
  <2>3. RowOK(s)'
    BY <1>4, <2>2
  <2> QED
    BY <1>1, <1>2, <1>4, <2>2, <2>3, RowMoves
<1>7. KindsOK'
  <2>1. /\ bucketCount' = bucketCount /\ growing' = growing /\ Columns' = Columns
    BY <1>3 DEF MakeReader, FindOne, FindTwo, FindMiss, FindLocked, mapVars, Columns
  <2>2. stale' \in [Threads -> BOOLEAN]
    <3>1. stale \in [Threads -> BOOLEAN] /\ growing \in BOOLEAN
      BY DEF RowsInv, KindsOK
    <3>2. stale' = stale \/ stale' = [stale EXCEPT ![t] = growing]
      BY DEF MakeReader, FindOne, FindTwo, FindMiss, FindLocked, mapVars
    <3> QED
      BY <3>1, <3>2
  <2>3. known' \in [Threads -> SUBSET Columns]
    <3>1. known \in [Threads -> SUBSET Columns]
      BY DEF RowsInv, KindsOK
    <3>2. known' = known \/ known' = [known EXCEPT ![t] = Columns]
      BY DEF MakeReader, FindOne, FindTwo, FindMiss, FindLocked, mapVars
    <3> QED
      BY <3>1, <3>2
  <2> QED
    BY <1>3, <1>6, <2>1, <2>2, <2>3 DEF RowsInv, KindsOK
<1> QED
  BY <1>2, <1>3, <1>6, <1>7, RowStepKeeps

(* The steps that concern the lock, the map or the phase, and failures *)
LEMMA LockKeepsRows ==
  ASSUME IInv, IInv', RowsInv,
         \/ \E t \in Threads : Lock(t) \/ CreateFails(t) \/ Grow(t) \/ EndGrowth(t)
         \/ SplitFails \/ StartBuild \/ UNCHANGED vars
  PROVE  RowsInv' /\ Asked \subseteq Asked'
<1>1. UNCHANGED <<input, tasks, mMap, mIsColumnToLeft, pc, row, rows, projection>>
  BY DEF Lock, CreateFails, Grow, EndGrowth, SplitFails, StartBuild, Fail, vars, mapVars
<1>2. phase' = phase \/ (phase \in {"split", "build"} /\ phase' \in {"build", "failed"})
  BY DEF Lock, CreateFails, Grow, EndGrowth, SplitFails, StartBuild, Fail, vars, Holding,
         Building
<1>3. KindsOK
  BY DEF RowsInv
<1>4. Columns' = Columns
  BY <1>1 DEF Columns
<1>5. bucketCount' \in Nat
  BY <1>3 DEF Lock, CreateFails, Grow, EndGrowth, SplitFails, StartBuild, Fail, vars,
              mapVars, KindsOK
<1>6. growing' \in BOOLEAN /\ stale' \in [Threads -> BOOLEAN]
  <2>1. \/ growing' = growing /\ stale' = stale
        \/ growing' = TRUE /\ stale' = [t \in Threads |-> TRUE]
        \/ growing' = FALSE /\ stale' = stale
    BY DEF Lock, CreateFails, Grow, EndGrowth, SplitFails, StartBuild, Fail, vars,
           mapVars, Map!StartGrowth, Map!EndGrowth
  <2> QED
    BY <1>3, <2>1 DEF KindsOK
<1>7. known' \in [Threads -> SUBSET Columns]
  <2>1. \/ known' = known
        \/ \E t \in Threads : known' = [known EXCEPT ![t] = Columns]
        \/ known' = [t \in Threads |-> Columns]
    BY DEF Lock, CreateFails, Grow, EndGrowth, SplitFails, StartBuild, Fail, vars,
           mapVars, Map!StartGrowth, Map!EndGrowth
  <2> QED
    BY <1>3, <2>1 DEF KindsOK
<1>8. KindsOK'
  BY <1>1, <1>2, <1>3, <1>4, <1>5, <1>6, <1>7 DEF KindsOK
<1> QED
  BY <1>1, <1>2, <1>8, OtherStepKeeps

(* The row of a task takes the place of the task. *)
LEMMA TakeKeepsRows ==
  ASSUME IInv, IInv', RowsInv, NEW t \in Threads, NEW k \in tasks, TakeTask(t, k)
  PROVE  RowsInv' /\ Asked \subseteq Asked'
<1>1. /\ Building /\ pc[t] = "idle" /\ tasks' = tasks \ {k}
      /\ row' = [row EXCEPT ![t] = NewRow(k)]
      /\ pc' = [pc EXCEPT ![t] = "reader"]
      /\ UNCHANGED <<phase, input, mapVars, mIsColumnToLeft, rows, projection>>
  BY DEF TakeTask
<1>2. /\ input \in Inputs /\ DOMAIN row = Threads /\ InProgressOK /\ KindsOK /\ TaskOK(k)
      /\ row[t] = NoRow /\ pc \in [Threads -> {"idle", "reader", "find", "lock"}]
  BY <1>1 DEF RowsInv, InProgressOK, IInv, SPairsAsked, HolderNeedsColumn, TasksOK, KindsOK
<1>3. /\ \A x : TaskOK(x) => TaskOK(x)'
      /\ \A x : RowOK(x) => RowOK(x)'
      /\ \A x : FinishedRow(x) => FinishedRow(x)'
  BY <1>1, StateKept DEF mapVars
<1>4. PICK s : s = NewRow(k)
  OBVIOUS
<1>5. RowOK(s)' /\ s.task = k /\ s \in PartialRow
  BY <1>2, <1>3, <1>4, NewRowOK DEF RowOK
<1>6. MovesTo(t, s, "reader")
  BY <1>1, <1>2, <1>4 DEF MovesTo
<1>7. /\ InProgressOK'
      /\ pc' \in [Threads -> {"idle", "reader", "find", "lock"}]
      /\ \A x \in InProgress : \E y \in InProgress' : y.task = x.task
  BY <1>2, <1>3, <1>5, <1>6, RowMoves
<1>8. KindsOK'
  BY <1>1, <1>2, <1>7 DEF KindsOK, mapVars, Columns
<1>9. TasksOK'
  BY <1>1, <1>3 DEF RowsInv, TasksOK
<1>10. MatrixRows' = MatrixRows
  BY <1>1 DEF MatrixRows, projection
<1>11. FinishedOK'
  BY <1>3, <1>10 DEF RowsInv, FinishedOK
<1>12. LeftColumns' = LeftColumns
  BY <1>1 DEF LeftColumns, Columns, IsLeft, mapVars
<1>13. s \in InProgress'
  BY <1>1, <1>2, <1>4, <1>5, RowIsThere DEF InProgress
<1>asked. Asked \subseteq Asked'
  BY <1>1, <1>5, <1>7, <1>10, <1>13 DEF Asked
<1>14. LeftColumnsGetRows'
  BY <1>asked, <1>12, LeftColumnsKept DEF RowsInv
<1>15. ProjectionOK'
  BY <1>1, <1>12 DEF RowsInv, ProjectionOK, projection, Building
<1> QED
  BY <1>asked, <1>7, <1>8, <1>9, <1>11, <1>14, <1>15 DEF RowsInv

(* A row that has all its terms is finished. *)
LEMMA RowDoneKeepsRows ==
  ASSUME IInv, IInv', RowsInv, NEW t \in Threads, RowDone(t)
  PROVE  RowsInv' /\ Asked \subseteq Asked'
<1>1. PICK r : r = row[t]
  OBVIOUS
<1>2. PICK f : f = [task |-> r.task, cols |-> r.cols]
  OBVIOUS
<1>3. /\ Building /\ pc[t] = "find" /\ Ended(r) /\ rows' = rows \cup {f}
      /\ row' = [row EXCEPT ![t] = NoRow]
      /\ pc' = [pc EXCEPT ![t] = "idle"]
      /\ UNCHANGED <<phase, input, tasks, mapVars, mIsColumnToLeft, projection>>
  BY <1>1, <1>2 DEF RowDone
<1>4. /\ r # NoRow /\ RowOK(r) /\ DOMAIN row = Threads /\ InProgressOK /\ KindsOK
      /\ pc \in [Threads -> {"idle", "reader", "find", "lock"}]
  BY <1>1, <1>3, ThreadHasRow DEF RowsInv, KindsOK
<1>5. /\ \A x : TaskOK(x) => TaskOK(x)'
      /\ \A x : RowOK(x) => RowOK(x)'
      /\ \A x : FinishedRow(x) => FinishedRow(x)'
  BY <1>3, StateKept DEF mapVars
<1>6. FinishedRow(f)
  <2>1. r.task \in RowTask /\ r.cols \in Seq(Nat) /\ Progress(r.task, <<>>, <<>>, r.cols)
    BY <1>3, <1>4 DEF RowOK, PartialRow, Ended
  <2> QED
    BY <1>2, <2>1 DEF FinishedRow, MatrixRow
<1>7. InProgress' = {row'[x] : x \in Threads} \ {NoRow}
  BY DEF InProgress
<1>8. InProgressOK'
  <2>1. \A x \in InProgress' : x \in InProgress
    BY <1>3, <1>4, <1>7 DEF InProgress
  <2>2. \A x \in InProgress' : RowOK(x)'
    BY <1>4, <1>5, <2>1 DEF InProgressOK
  <2>3. \A x \in Threads : pc'[x] = "idle" <=> row'[x] = NoRow
    BY <1>3, <1>4 DEF InProgressOK
  <2>4. \A x \in Threads : pc'[x] = "lock" => ~Ended(row'[x])
    BY <1>3, <1>4 DEF InProgressOK
  <2> QED
    BY <2>2, <2>3, <2>4 DEF InProgressOK
<1>9. KindsOK'
  BY <1>3, <1>4 DEF KindsOK, mapVars, Columns
<1>10. TasksOK'
  BY <1>3, <1>5 DEF RowsInv, TasksOK
<1>11. MatrixRows' = MatrixRows \cup {f}
  BY <1>3 DEF MatrixRows, projection
<1>12. FinishedOK'
  BY <1>5, <1>6, <1>11 DEF RowsInv, FinishedOK
<1>13. LeftColumns' = LeftColumns
  BY <1>3 DEF LeftColumns, Columns, IsLeft, mapVars
<1>asked. Asked \subseteq Asked'
  <2>1. ASSUME NEW x \in InProgress
        PROVE  x.task \in {y.task : y \in InProgress' \cup MatrixRows'}
    <3>1. PICK u \in Threads : x = row[u] /\ x # NoRow
      BY DEF InProgress
    <3>2. CASE u = t
      BY <1>1, <1>2, <1>11, <3>1, <3>2
    <3>3. CASE u # t
      BY <1>3, <1>4, <1>7, <3>1, <3>3
    <3> QED
      BY <3>2, <3>3
  <2> QED
    BY <1>3, <1>11, <2>1 DEF Asked
<1>14. LeftColumnsGetRows'
  BY <1>asked, <1>13, LeftColumnsKept DEF RowsInv
<1>15. ProjectionOK'
  BY <1>3, <1>13 DEF RowsInv, ProjectionOK, projection, Building
<1> QED
  BY <1>asked, <1>8, <1>9, <1>10, <1>12, <1>14, <1>15 DEF RowsInv

(* A new column keeps the rows, and it has a task if it can be reduced. *)
LEMMA NewColumnKeepsRows ==
  ASSUME IInv, IInv', RowsInv, phase \in {"split", "build"},
         UNCHANGED <<phase, input, rows, projection>>,
         NEW m, m \notin Columns, AddColumn(m, Reducers[m] # {}),
         KindsOK', TasksOK', InProgressOK',
         \A x \in InProgress : \E y \in InProgress' : y.task = x.task,
         \A k \in tasks : ~IsSPair(k) => k \in tasks',
         Reducers[m] # {} => \E k \in tasks' : ~IsSPair(k) /\ TaskLead(k) = m
  PROVE  RowsInv'
<1>1. /\ \A r : FinishedRow(r) => FinishedRow(r)'
      /\ Columns' = Columns \cup {m}
  <2>1. Columns' = Columns \cup {m}
    BY DEF AddColumn, Columns
  <2> QED
    BY <2>1, StateKept
<1>2. MatrixRows' = MatrixRows
  BY DEF MatrixRows, projection
<1>3. FinishedOK'
  BY <1>1, <1>2 DEF RowsInv, FinishedOK
<1>4. LeftColumns' = {x \in Columns' : Reducers[x] # {}}
  BY DEF IInv, ColumnsInStep, LeftColumns
<1>5. LeftColumns = {x \in Columns : Reducers[x] # {}}
  BY LeftAreReducible DEF IInv
<1>6. LeftColumnsGetRows'
  <2> SUFFICES ASSUME NEW x \in LeftColumns'
               PROVE  \E k \in tasks' \cup {r.task : r \in InProgress' \cup MatrixRows'} :
                        ~IsSPair(k) /\ TaskLead(k) = x
    BY DEF LeftColumnsGetRows
  <2>1. CASE x = m
    BY <1>4, <2>1
  <2>2. CASE x # m
    <3>1. x \in LeftColumns
      BY <1>1, <1>4, <1>5, <2>2
    <3>2. PICK k \in tasks \cup {r.task : r \in InProgress \cup MatrixRows} :
            ~IsSPair(k) /\ TaskLead(k) = x
      BY <3>1 DEF RowsInv, LeftColumnsGetRows
    <3>3. k \in tasks' \cup {r.task : r \in InProgress' \cup MatrixRows'}
      BY <1>2, <3>2
    <3> QED
      BY <3>2, <3>3
  <2> QED
    BY <2>1, <2>2
<1>7. ProjectionOK'
  BY DEF RowsInv, ProjectionOK, projection
<1> QED
  BY <1>3, <1>6, <1>7 DEF RowsInv

(* The thread that creates a column goes on, and feeds the column's task. *)
LEMMA InsertKeepsRows ==
  ASSUME IInv, IInv', RowsInv, NEW t \in Threads, Insert(t)
  PROVE  RowsInv' /\ Asked \subseteq Asked'
<1>1. PICK r, m, col : r = row[t] /\ m = Key(r) /\ col = mMap'[m]
  OBVIOUS
<1>2. /\ Building /\ mCreateColumnLock = t
      /\ AddColumn(m, Reducers[m] # {})
      /\ FeedReducer(m)
      /\ known' = [known EXCEPT ![t] = Columns']
      /\ CreatedColumn(t, col)
      /\ UNCHANGED <<phase, input, bucketCount, growing, stale, rows, projection>>
  BY <1>1 DEF Insert, Holding
<1>3. pc[t] = "lock" /\ m \notin Columns
  BY <1>1, <1>2 DEF IInv, HolderNeedsColumn
<1>4. /\ r # NoRow /\ RowOK(r) /\ r \in PartialRow /\ ~Ended(r) /\ DOMAIN row = Threads
      /\ InProgressOK /\ KindsOK /\ pc \in [Threads -> {"idle", "reader", "find", "lock"}]
      /\ input \in Inputs
  <2>1. row[t] # NoRow /\ RowOK(row[t]) /\ DOMAIN row = Threads
    BY <1>3, ThreadHasRow
  <2>2. ~Ended(row[t])
    BY <1>3 DEF RowsInv, InProgressOK
  <2> QED
    BY <1>1, <2>1, <2>2 DEF RowsInv, KindsOK, RowOK, IInv, SPairsAsked
<1>5. m \in Monos
  <2>1. /\ Len(Keys(r)) \in {1, 2} /\ \A i \in 1..Len(Keys(r)) : Keys(r)[i] \in Monos
    BY <1>4, KeysAre DEF RowOK, Progress
  <2>2. Len(r.found) < Len(Keys(r)) /\ Len(r.found) \in Nat
    BY <1>4 DEF RowOK, FoundSome, PartialRow
  <2>3. Len(r.found) + 1 \in 1..Len(Keys(r))
    BY <2>1, <2>2
  <2> QED
    BY <1>1, <2>1, <2>3 DEF Key
<1>6. /\ \A x : TaskOK(x) => TaskOK(x)'
      /\ \A x : RowOK(x) => RowOK(x)'
  BY <1>2, <1>3, StateKept
<1>7. Columns' = Columns \cup {m}
  BY <1>2 DEF AddColumn, Columns
<1>8. col \in Nat
  BY <1>1, <1>2, <1>3 DEF AddColumn, IInv, IndexesExact, Columns
<1>9. col \in Indexes' /\ MonoOf(col)' = m
  BY <1>1, <1>7 DEF Indexes, MonoOf, IInv, ColumnsInStep
<1>10. PICK s \in RowsWithColumn(r, col), at \in {"reader", "find", "lock"} :
         /\ row' = [row EXCEPT ![t] = s]
         /\ pc' = [pc EXCEPT ![t] = at]
         /\ at = "lock" => Together(r) /\ s.found # <<>>
  BY <1>1, <1>2, <1>3, <1>4, <1>8, CreatedColumnIs
<1>11. RowOK(s)' /\ s.task = r.task /\ (Together(r) /\ s.found # <<>> => ~Ended(s))
  <2>1. RowOK(r)' /\ input' \in Inputs
    BY <1>2, <1>4, <1>6
  <2> QED
    BY <1>1, <1>4, <1>8, <1>9, <1>10, <2>1, RowsWithColumnNext
<1>12. MovesTo(t, s, at)
  BY <1>4, <1>10 DEF MovesTo
<1>13. /\ InProgressOK'
       /\ pc' \in [Threads -> {"idle", "reader", "find", "lock"}]
       /\ \A x \in InProgress : \E y \in InProgress' : y.task = x.task
  BY <1>1, <1>4, <1>6, <1>10, <1>11, <1>12, RowMoves
<1>14. KindsOK'
  <2>1. known' \in [Threads -> SUBSET Columns']
    BY <1>2, <1>4, <1>7 DEF KindsOK
  <2> QED
    BY <1>2, <1>4, <1>5, <1>7, <1>13, <2>1 DEF KindsOK
<1>15. ASSUME NEW p \in Reducers[m]
       PROVE  /\ TaskOK([lead |-> m, poly |-> p, other |-> NoPoly])
              /\ ~IsSPair([lead |-> m, poly |-> p, other |-> NoPoly])
              /\ TaskLead([lead |-> m, poly |-> p, other |-> NoPoly]) = m
  <2>1. p \in Polys
    BY <1>5, ReducersAssumption
  <2>2. Range(Products(p, m)) \subseteq Monos
    BY <1>5, ProductsAssumption
  <2>3. m # NoLead
    BY <1>5, OtherAssumption
  <2> QED
    BY <1>5, <2>1, <2>2, <2>3 DEF TaskOK, RowTask, IsSPair, TaskLead
<1>16. /\ Reducers[m] = {} => tasks' = tasks
       /\ Reducers[m] # {} =>
            \E p \in Reducers[m] :
              tasks' = tasks \cup {[lead |-> m, poly |-> p, other |-> NoPoly]}
  BY <1>2 DEF FeedReducer
<1>17. TasksOK'
  <2>1. \A x \in tasks' : TaskOK(x)
    BY <1>15, <1>16 DEF RowsInv, TasksOK
  <2> QED
    BY <1>6, <2>1 DEF TasksOK
<1>18. \A k \in tasks : k \in tasks'
  BY <1>16
<1>19. Reducers[m] # {} => \E k \in tasks' : ~IsSPair(k) /\ TaskLead(k) = m
  BY <1>15, <1>16
<1>20. phase \in {"split", "build"}
  BY <1>2 DEF Building
<1>21. MatrixRows' = MatrixRows
  BY <1>2 DEF MatrixRows, projection
<1>22. Asked \subseteq Asked'
  BY <1>13, <1>18, <1>21 DEF Asked
<1> QED
  BY <1>2, <1>3, <1>13, <1>14, <1>17, <1>18, <1>19, <1>20, <1>22, NewColumnKeepsRows

(* The halves of an S-pair that was asked for are tasks of their own. *)
LEMMA HalfIsTask ==
  ASSUME input \in Inputs, NEW k \in input.tasks, IsSPair(k), NEW p \in {k.poly, k.other}
  PROVE  /\ TaskOK(Half(k, p)) /\ ~IsSPair(Half(k, p)) /\ TaskLead(Half(k, p)) = k.lead
         /\ k.lead \in Monos /\ Reducers[k.lead] # {}
<1>1. k \in RowTask /\ k.lead # NoLead /\ Reducers[k.lead] # {}
  BY InputsAssumption
<1>2. Range(Products(p, k.lead)) \subseteq Monos
  BY ProductsAssumption
<1>3. k.lead \in Monos /\ p \in Polys
  BY <1>1 DEF RowTask, IsSPair
<1>4. PICK h : h = Half(k, p)
  OBVIOUS
<1>5. h.lead = k.lead /\ h.poly = p /\ h.other = NoPoly /\ h \in RowTask
  BY <1>1, <1>3, <1>4 DEF Half, RowTask
<1> QED
  BY <1>1, <1>2, <1>3, <1>4, <1>5 DEF TaskOK, IsSPair, TaskLead

(* Splitting S-pairs gives the column of their lead its task. *)
LEMMA SplitKeepsRows ==
  ASSUME IInv, IInv', RowsInv, NEW first \in Unsplit, SplitLead(first)
  PROVE  RowsInv'
<1>1. PICK m : m = first.lead
  OBVIOUS
<1>2. /\ input \in Inputs /\ KindsOK /\ InProgressOK
      /\ \A k \in Unsplit : k \in tasks /\ k \in input.tasks /\ IsSPair(k)
      /\ \A k \in tasks : TaskOK(k)
  BY DEF RowsInv, IInv, SPairsAsked, Unsplit, TasksOK
<1>3. m \in Monos /\ Reducers[m] # {} /\ m \notin Columns
  BY <1>1, <1>2, HalfIsTask DEF Unsplit
<1>4. /\ phase = "split"
      /\ AddColumn(m, Reducers[m] # {})
      /\ bucketCount' \in Nat
      /\ UNCHANGED <<phase, input, growing, stale, known, pc, row, rows, projection>>
  <2>1. AddColumn(m, TRUE)
    BY <1>1 DEF SplitLead
  <2>2. (Reducers[m] # {}) = TRUE
    BY <1>3
  <2>3. bucketCount' \in Nat
    BY <1>2 DEF SplitLead, KindsOK
  <2>4. AddColumn(m, Reducers[m] # {})
    BY <2>1, <2>2
  <2> QED
    BY <2>3, <2>4 DEF SplitLead
<1>5. /\ \A k \in tasks' : \/ k \in tasks
                           \/ \E g \in Unsplit : \E p \in {g.poly, g.other} : k = Half(g, p)
      /\ \A k \in tasks : ~IsSPair(k) => k \in tasks'
      /\ Half(first, first.poly) \in tasks'
  BY <1>2 DEF SplitLead, Strip
<1>6. Columns' = Columns \cup {m}
  BY <1>4 DEF AddColumn, Columns
<1>7. /\ \A x : TaskOK(x) => TaskOK(x)'
      /\ \A x : RowOK(x) => RowOK(x)'
  BY <1>3, <1>4, StateKept
<1>8. TasksOK'
  <2>1. \A k \in tasks' : TaskOK(k)
    BY <1>2, <1>5, HalfIsTask
  <2> QED
    BY <1>7, <2>1 DEF TasksOK
<1>9. InProgress' = InProgress
  BY <1>4 DEF InProgress
<1>10. InProgressOK'
  BY <1>2, <1>4, <1>7, <1>9 DEF InProgressOK
<1>11. KindsOK'
  BY <1>2, <1>3, <1>4, <1>6 DEF KindsOK
<1>12. \E k \in tasks' : ~IsSPair(k) /\ TaskLead(k) = m
  BY <1>1, <1>2, <1>5, HalfIsTask
<1> QED
  BY <1>3, <1>4, <1>5, <1>8, <1>9, <1>10, <1>11, <1>12, NewColumnKeepsRows

(* The projection starts with nothing dealt. *)
LEMMA EndBuildKeepsRows ==
  ASSUME IInv, IInv', RowsInv, EndBuild
  PROVE  RowsInv' /\ Asked \subseteq Asked'
<1>1. /\ phase = "build" /\ phase' = "project" /\ tasks = {}
      /\ \A t \in Threads : pc[t] = "idle"
      /\ top' = [m \in LeftColumns |-> NoRow]
      /\ UNCHANGED <<input, tasks, mapVars, mIsColumnToLeft, pc, row, rows, bottom>>
  BY DEF EndBuild, Building
<1>2. top = <<>> /\ bottom = {}
  BY <1>1 DEF RowsInv, ProjectionOK
<1>3. MatrixRows' = MatrixRows
  BY <1>1, <1>2 DEF MatrixRows
<1>4. InProgress' = InProgress
  BY <1>1 DEF InProgress
<1>5. /\ \A r : RowOK(r) => RowOK(r)'
      /\ \A r : FinishedRow(r) => FinishedRow(r)'
  BY <1>1, StateKept DEF mapVars
<1>6. FinishedOK' /\ InProgressOK'
  BY <1>1, <1>3, <1>4, <1>5 DEF RowsInv, FinishedOK, InProgressOK
<1>7. TasksOK'
  BY <1>1 DEF TasksOK
<1>8. KindsOK'
  BY <1>1 DEF RowsInv, KindsOK, mapVars, Columns
<1>9. LeftColumns' = LeftColumns
  BY <1>1 DEF LeftColumns, Columns, IsLeft, mapVars
<1>asked. Asked \subseteq Asked'
  BY <1>1, <1>3, <1>4 DEF Asked
<1>10. LeftColumnsGetRows'
  BY <1>asked, <1>9, LeftColumnsKept DEF RowsInv
<1>11. ProjectionOK'
  BY <1>1, <1>2, <1>9 DEF ProjectionOK
<1> QED
  BY <1>asked, <1>6, <1>7, <1>8, <1>10, <1>11 DEF RowsInv

(* A row with left entries has entries. *)
LEMMA LeadersHaveColumns ==
  ASSUME NEW r, FinishedRow(r), LeftEntries(r) # {}
  PROVE  Len(r.cols) \in Nat \ {0} /\ r # NoRow
<1>1. r.cols \in Seq(Nat)
  BY DEF FinishedRow, MatrixRow
<1>2. PICK i : i \in 1..Len(r.cols)
  <2>1. DOMAIN r.cols = 1..Len(r.cols)
    BY <1>1
  <2>2. LeftEntries(r) \subseteq DOMAIN r.cols
    BY DEF LeftEntries
  <2> QED
    BY <2>1, <2>2
<1>3. Len(r.cols) \in Nat \ {0}
  BY <1>1, <1>2
<1>4. Len(NoRow.cols) = 0
  BY DEF NoRow
<1> QED
  BY <1>3, <1>4

(* TopBottom::addRow deals a row, and a better one puts the top row down. *)
LEMMA AddRowDeals ==
  ASSUME IInv, RowsInv, phase = "project", NEW r \in rows, AddRow(r)
  PROVE  /\ DOMAIN top' = LeftColumns
         /\ \A m \in LeftColumns :
              top'[m] # NoRow => LeftEntries(top'[m]) # {} /\ LeadingLeft(top'[m]) = m
         /\ \A b \in bottom' : LeftEntries(b) # {} =>
              /\ top'[LeadingLeft(b)] # NoRow
              /\ Len(top'[LeadingLeft(b)].cols) <= Len(b.cols)
         /\ bottom' \cup ({top'[m] : m \in DOMAIN top'} \ {NoRow})
              = bottom \cup ({top[m] : m \in DOMAIN top} \ {NoRow}) \cup {r}
<1>1. /\ DOMAIN top = LeftColumns
      /\ \A m \in LeftColumns :
           top[m] # NoRow => LeftEntries(top[m]) # {} /\ LeadingLeft(top[m]) = m
      /\ \A b \in bottom : LeftEntries(b) # {} =>
           /\ top[LeadingLeft(b)] # NoRow
           /\ Len(top[LeadingLeft(b)].cols) <= Len(b.cols)
  BY DEF RowsInv, ProjectionOK
<1>2. /\ FinishedRow(r)
      /\ \A b \in bottom : FinishedRow(b)
      /\ \A m \in LeftColumns : top[m] # NoRow => FinishedRow(top[m])
  BY <1>1 DEF RowsInv, FinishedOK, MatrixRows
<1>3. ColumnsInStep
  BY DEF IInv
<1>4. Len(NoRow.cols) = 0
  BY DEF NoRow
<1>5. PICK lead : lead = LeadingLeft(r)
  OBVIOUS
<1>6. CASE LeftEntries(r) = {}
  <2>1. bottom' = bottom \cup {r} /\ top' = top
    BY <1>6 DEF AddRow
  <2> QED
    BY <1>1, <1>6, <2>1
<1>7. CASE LeftEntries(r) # {} /\ 0 < Len(top[lead].cols) /\ Len(top[lead].cols) < Len(r.cols)
  <2>1. bottom' = bottom \cup {r} /\ top' = top
    BY <1>5, <1>7 DEF AddRow
  <2>2. top[lead] # NoRow
    BY <1>4, <1>7
  <2>3. lead \in LeftColumns
    BY <1>2, <1>3, <1>5, <1>7, LeadingIsLeft
  <2>4. Len(top[lead].cols) \in Nat /\ Len(r.cols) \in Nat
    BY <1>1, <1>2, <1>7, <2>2, <2>3, LeadersHaveColumns
  <2>5. Len(top[lead].cols) <= Len(r.cols)
    BY <1>7, <2>4
  <2> QED
    BY <1>1, <1>5, <2>1, <2>2, <2>5
<1>8. CASE LeftEntries(r) # {} /\ ~(0 < Len(top[lead].cols) /\ Len(top[lead].cols) < Len(r.cols))
  <2>1. bottom' = bottom \cup ({top[lead]} \ {NoRow}) /\ top' = [top EXCEPT ![lead] = r]
    BY <1>5, <1>8 DEF AddRow
  <2>2. lead \in LeftColumns /\ r # NoRow /\ Len(r.cols) \in Nat
    BY <1>2, <1>3, <1>5, <1>8, LeadingIsLeft, LeadersHaveColumns
  <2>3. /\ DOMAIN top' = LeftColumns /\ top'[lead] = r
        /\ \A m \in LeftColumns : m # lead => top'[m] = top[m]
    BY <1>1, <2>1, <2>2
  <2>4. ASSUME top[lead] # NoRow
        PROVE  /\ LeftEntries(top[lead]) # {} /\ LeadingLeft(top[lead]) = lead
               /\ Len(top[lead].cols) \in Nat /\ Len(r.cols) <= Len(top[lead].cols)
    <3>1. LeftEntries(top[lead]) # {} /\ LeadingLeft(top[lead]) = lead
      BY <1>1, <2>2, <2>4
    <3>2. Len(top[lead].cols) \in Nat \ {0}
      BY <1>2, <2>2, <2>4, <3>1, LeadersHaveColumns
    <3> QED
      BY <1>8, <2>2, <3>1, <3>2
  <2>5. ASSUME NEW b \in bottom', LeftEntries(b) # {}
        PROVE  /\ top'[LeadingLeft(b)] # NoRow
               /\ Len(top'[LeadingLeft(b)].cols) <= Len(b.cols)
    <3>1. CASE b \in bottom
      <4>1. /\ top[LeadingLeft(b)] # NoRow
            /\ Len(top[LeadingLeft(b)].cols) <= Len(b.cols)
            /\ LeadingLeft(b) \in LeftColumns
            /\ Len(b.cols) \in Nat
        BY <1>1, <1>2, <1>3, <2>5, <3>1, LeadingIsLeft, LeadersHaveColumns
      <4>2. CASE LeadingLeft(b) = lead
        <5>1. Len(r.cols) <= Len(b.cols)
          BY <2>2, <2>4, <4>1, <4>2
        <5> QED
          BY <2>2, <2>3, <4>2, <5>1
      <4>3. CASE LeadingLeft(b) # lead
        BY <2>3, <4>1, <4>3
      <4> QED
        BY <4>2, <4>3
    <3>2. CASE b \notin bottom
      <4>1. b = top[lead] /\ top[lead] # NoRow
        BY <2>1, <3>2
      <4> QED
        BY <2>2, <2>3, <2>4, <4>1
    <3> QED
      BY <3>1, <3>2
  <2>6. bottom' \cup ({top'[m] : m \in DOMAIN top'} \ {NoRow})
          = bottom \cup ({top[m] : m \in DOMAIN top} \ {NoRow}) \cup {r}
    <3>1. {top[m] : m \in LeftColumns} = {top[lead]} \cup {top[m] : m \in LeftColumns \ {lead}}
      BY <2>2
    <3>2. {top'[m] : m \in LeftColumns} = {r} \cup {top[m] : m \in LeftColumns \ {lead}}
      BY <2>2, <2>3
    <3> QED
      BY <1>1, <2>1, <2>2, <2>3, <3>1, <3>2
  <2>7. \A m \in LeftColumns :
          top'[m] # NoRow => LeftEntries(top'[m]) # {} /\ LeadingLeft(top'[m]) = m
    BY <1>1, <1>5, <1>8, <2>3
  <2> QED
    BY <2>3, <2>5, <2>6, <2>7
<1> QED
  BY <1>6, <1>7, <1>8

(* Rows are dealt one by one; only one that has cancelled altogether is
   dropped, and that is the row of an S-pair. *)
LEMMA ProjectKeepsRows ==
  ASSUME IInv, IInv', RowsInv, NEW r \in rows, ProjectRow(r)
  PROVE  RowsInv'
<1>1. /\ phase = "project" /\ rows' = rows \ {r}
      /\ UNCHANGED <<phase, input, tasks, mapVars, mIsColumnToLeft, pc, row>>
      /\ r.cols = <<>> => bottom' = bottom /\ top' = top
      /\ r.cols # <<>> => AddRow(r)
  BY DEF ProjectRow, projection
<1>2. InProgress' = InProgress
  BY <1>1 DEF InProgress
<1>3. /\ \A x : RowOK(x) => RowOK(x)'
      /\ \A x : FinishedRow(x) => FinishedRow(x)'
  BY <1>1, StateKept DEF mapVars
<1>4. LeftColumns' = LeftColumns
  BY <1>1 DEF LeftColumns, Columns, IsLeft, mapVars
<1>5. /\ \A x : LeftEntries(x)' = LeftEntries(x)
      /\ \A x : LeadingLeft(x)' = LeadingLeft(x)
  BY <1>1 DEF LeftEntries, LeadingLeft, IsLeft, MonoOf, Columns, mapVars
<1>6. /\ tasks = {}
      /\ \A t \in Threads : pc[t] = "idle"
      /\ DOMAIN top = LeftColumns
      /\ \A m \in LeftColumns :
           top[m] # NoRow => LeftEntries(top[m]) # {} /\ LeadingLeft(top[m]) = m
      /\ \A b \in bottom : LeftEntries(b) # {} =>
           /\ top[LeadingLeft(b)] # NoRow
           /\ Len(top[LeadingLeft(b)].cols) <= Len(b.cols)
  BY <1>1 DEF RowsInv, ProjectionOK
<1>7. /\ DOMAIN top' = LeftColumns
      /\ \A m \in LeftColumns :
           top'[m] # NoRow => LeftEntries(top'[m]) # {} /\ LeadingLeft(top'[m]) = m
      /\ \A b \in bottom' : LeftEntries(b) # {} =>
           /\ top'[LeadingLeft(b)] # NoRow
           /\ Len(top'[LeadingLeft(b)].cols) <= Len(b.cols)
  BY <1>1, <1>6, AddRowDeals
<1>8. ProjectionOK'
  BY <1>1, <1>4, <1>5, <1>6, <1>7 DEF ProjectionOK
<1>9. MatrixRows' \subseteq MatrixRows
  BY <1>1, AddRowDeals DEF MatrixRows
<1>10. ASSUME NEW x \in MatrixRows, ~IsSPair(x.task)
       PROVE  x \in MatrixRows'
  <2>1. CASE r.cols # <<>>
    BY <1>1, <2>1, AddRowDeals DEF MatrixRows
  <2>2. CASE r.cols = <<>>
    <3>1. x # r
      <4>1. FinishedRow(x) /\ input \in Inputs
        BY DEF RowsInv, FinishedOK, IInv, SPairsAsked
      <4>2. PICK k, P : k = x.task /\ P = Products(k.poly, k.lead)
        OBVIOUS
      <4>3. TaskOK(k) /\ Len(x.cols) + Len(<<>>) = Len(P)
        BY <1>10, <4>1, <4>2 DEF FinishedRow, Progress, PolyProgress
      <4>4. Len(P) \in Nat \ {0}
        <5>1. /\ k.poly \in Polys /\ k.lead \in Monos \cup {NoLead}
              /\ Range(Products(k.poly, k.lead)) \subseteq Monos
          BY <4>1, <4>3, TaskProducts
        <5> QED
          BY <4>2, <5>1, ProductsAre
      <4>5. Len(<<>>) = 0 /\ 0 + 0 \notin Nat \ {0}
        OBVIOUS
      <4> QED
        BY <2>2, <4>3, <4>4, <4>5
    <3> QED
      BY <1>1, <2>2, <3>1 DEF MatrixRows
  <2> QED
    BY <2>1, <2>2
<1>11. FinishedOK' /\ InProgressOK'
  BY <1>1, <1>2, <1>3, <1>9 DEF RowsInv, FinishedOK, InProgressOK
<1>12. TasksOK'
  BY <1>1, <1>6 DEF TasksOK
<1>13. KindsOK'
  BY <1>1 DEF RowsInv, KindsOK, mapVars, Columns
<1>14. LeftColumnsGetRows'
  <2>1. \A k \in Asked : ~IsSPair(k) => k \in Asked'
    BY <1>1, <1>2, <1>10 DEF Asked
  <2> QED
    BY <1>4, <2>1, LeftColumnsKept DEF RowsInv
<1> QED
  BY <1>8, <1>11, <1>12, <1>13, <1>14 DEF RowsInv

LEMMA EndProjectionKeepsRows ==
  ASSUME IInv, IInv', RowsInv, EndProjection
  PROVE  RowsInv' /\ Asked \subseteq Asked'
<1>1. /\ phase = "project" /\ phase' = "done" /\ rows = {}
      /\ UNCHANGED <<input, tasks, mMap, mIsColumnToLeft, pc, row, rows, projection>>
      /\ UNCHANGED mapVars
  BY DEF EndProjection, mapVars
<1>2. /\ \A k : TaskOK(k) => TaskOK(k)'
      /\ \A r : RowOK(r) => RowOK(r)'
      /\ \A r : FinishedRow(r) => FinishedRow(r)'
  BY <1>1, StateKept
<1>3. MatrixRows' = MatrixRows /\ InProgress' = InProgress
  BY <1>1 DEF MatrixRows, projection, InProgress
<1>4. FinishedOK' /\ InProgressOK' /\ TasksOK'
  BY <1>1, <1>2, <1>3 DEF RowsInv, FinishedOK, InProgressOK, TasksOK
<1>5. LeftColumns' = LeftColumns
  BY <1>1 DEF LeftColumns, Columns, IsLeft
<1>asked. Asked \subseteq Asked'
  BY <1>1, <1>3 DEF Asked
<1>6. LeftColumnsGetRows'
  BY <1>asked, <1>5, LeftColumnsKept DEF RowsInv
<1>7. /\ \A x : LeftEntries(x)' = LeftEntries(x)
      /\ \A x : LeadingLeft(x)' = LeadingLeft(x)
  BY <1>1 DEF LeftEntries, LeadingLeft, IsLeft, MonoOf, Columns
<1>8. ProjectionOK'
  BY <1>1, <1>5, <1>7 DEF RowsInv, ProjectionOK, projection
<1>9. KindsOK'
  BY <1>1 DEF RowsInv, KindsOK, mapVars, Columns
<1> QED
  BY <1>asked, <1>4, <1>6, <1>8, <1>9 DEF RowsInv

LEMMA InitRowsInv == Init => RowsInv
<1> SUFFICES ASSUME Init
             PROVE  RowsInv
  OBVIOUS
<1>1. Columns = {} /\ LeftColumns = {} /\ DOMAIN top = {}
  BY DEF Init, Columns, LeftColumns
<1>2. InProgress = {} /\ MatrixRows = {}
  BY <1>1 DEF Init, InProgress, MatrixRows
<1>3. KindsOK
  BY <1>1, OtherAssumption DEF Init, KindsOK
<1>4. TasksOK
  BY InputsAssumption, ProductsAssumption DEF Init, TasksOK, TaskOK
<1>5. InProgressOK
  BY <1>2 DEF Init, InProgressOK
<1>6. ProjectionOK
  BY <1>1 DEF Init, ProjectionOK
<1> QED
  BY <1>1, <1>2, <1>3, <1>4, <1>5, <1>6 DEF RowsInv, FinishedOK, LeftColumnsGetRows

LEMMA RowsInductive ==
  ASSUME IInv, RowsInv, [Next]_vars
  PROVE  RowsInv'
<1>1. IInv'
  BY NextInductive
<1>2. CASE CallerStep
  BY <1>1, <1>2, SplitKeepsRows, LockKeepsRows, EndBuildKeepsRows, ProjectKeepsRows,
     EndProjectionKeepsRows DEF CallerStep
<1>3. ASSUME NEW t \in Threads, ThreadStep(t)
      PROVE  RowsInv'
  BY <1>1, <1>3, TakeKeepsRows, FindKeepsRows, RowDoneKeepsRows, LockKeepsRows,
     InsertKeepsRows DEF ThreadStep
<1>4. CASE UNCHANGED vars
  BY <1>1, <1>4, LockKeepsRows
<1> QED
  BY <1>2, <1>3, <1>4 DEF Next

(* However the threads share the tasks and look up or create the columns, every
   finished row has exactly the columns of its products, every left column has
   a row that leads there or a task that will make one, and the projection deals
   the rows so that the top of the matrix is triangular and sparse. *)
THEOREM MatrixStaysSound == Spec => []MatrixIsSound
<1>1. IInv /\ RowsInv => MatrixIsSound
  BY InvIsSound
<1>2. Init => IInv /\ RowsInv
  BY InitIInv, InitRowsInv
<1>3. IInv /\ RowsInv /\ [Next]_vars => (IInv /\ RowsInv)'
  BY NextInductive, RowsInductive
<1>4. QED
  BY <1>1, <1>2, <1>3, PTL DEF Spec

-----------------------------------------------------------------------------
(* The row space *)

(* The S-pairs whose halves have the same terms after the lead, so that their
   row may be empty *)
MayVanish == {k \in input.tasks : Tail(Products(k.poly, k.lead)) = Tail(Products(k.other, k.lead))}

(* S is a union of sets of polynomials that rows of the lead m connect, or will
   when the rows in progress and the tasks to come are rows. *)
Closed(S, m) ==
  \A k \in Asked \cup MayVanish :
    k.lead = m => ({k.poly, k.other} \cap S = {} \/ {k.poly, k.other} \subseteq S)

(* Every S-pair is connected by what is asked for now, and every polynomial is
   still asked for or has its row. *)
LinksOK ==
  \A k \in input.tasks :
    IF IsSPair(k) THEN \A S : Closed(S, k.lead) /\ k.poly \in S => k.other \in S
                  ELSE k \in Asked

LEMMA LinksKept ==
  ASSUME LinksOK, input' = input,
         \A S, m : Closed(S, m)' => Closed(S, m),
         \A k \in Asked : ~IsSPair(k) => k \in Asked'
  PROVE  LinksOK'
<1> SUFFICES ASSUME NEW k \in input.tasks
             PROVE  IF IsSPair(k) THEN \A S : Closed(S, k.lead)' /\ k.poly \in S => k.other \in S
                                  ELSE k \in Asked'
  BY DEF LinksOK
<1>1. CASE IsSPair(k)
  BY <1>1 DEF LinksOK
<1>2. CASE ~IsSPair(k)
  BY <1>2 DEF LinksOK
<1> QED
  BY <1>1, <1>2

LEMMA MoreAsked ==
  ASSUME LinksOK, input' = input, Asked \subseteq Asked'
  PROVE  LinksOK'
<1>1. MayVanish' = MayVanish
  BY DEF MayVanish
<1>2. \A S, m : Closed(S, m)' => Closed(S, m)
  BY <1>1 DEF Closed
<1> QED
  BY <1>2, LinksKept

LEMMA HalfFields ==
  ASSUME NEW k \in RowTask, NEW p
  PROVE  Half(k, p).lead = k.lead /\ Half(k, p).poly = p /\ Half(k, p).other = NoPoly
BY DEF Half, RowTask

(* The halves of the first S-pair connect whatever the S-pairs that were
   stripped connected. *)
LEMMA SplitKeepsLinks ==
  ASSUME LinksOK, tasks \subseteq RowTask, NEW first \in Unsplit, SplitLead(first)
  PROVE  LinksOK'
<1>1. PICK a, b : a = first.poly /\ b = first.other
  OBVIOUS
<1>2. /\ input' = input
      /\ {r.task : r \in InProgress' \cup MatrixRows'} = {r.task : r \in InProgress \cup MatrixRows}
  BY DEF SplitLead, InProgress, MatrixRows, projection
<1>3. MayVanish' = MayVanish
  BY <1>2 DEF MayVanish
<1>4. /\ Half(first, a) \in tasks' /\ Half(first, b) \in tasks'
      /\ \A k \in tasks : ~IsSPair(k) => k \in tasks'
      /\ \A k \in tasks : \/ k \in tasks'
                          \/ k = first
                          \/ k.lead = first.lead /\ k \in Unsplit /\ Strip(k, a, b) \in tasks'
  BY <1>1 DEF SplitLead, Unsplit
<1>5. \A k \in Unsplit : k \in RowTask
  BY DEF Unsplit
<1>6. ASSUME NEW S, NEW m, Closed(S, m)'
      PROVE  Closed(S, m)
  <2>1. \A k \in Asked' \cup MayVanish' :
          k.lead = m => ({k.poly, k.other} \cap S = {} \/ {k.poly, k.other} \subseteq S)
    BY <1>6 DEF Closed
  <2>2. \A k \in tasks' :
          k.lead = m => ({k.poly, k.other} \cap S = {} \/ {k.poly, k.other} \subseteq S)
    BY <2>1 DEF Asked
  <2> SUFFICES ASSUME NEW k \in Asked \cup MayVanish, k.lead = m
               PROVE  {k.poly, k.other} \cap S = {} \/ {k.poly, k.other} \subseteq S
    BY DEF Closed
  <2>3. CASE k \in Asked' \cup MayVanish'
    BY <2>1, <2>3
  <2>4. CASE k \notin Asked' \cup MayVanish'
    <3>1. k \in tasks /\ k \notin tasks'
      BY <1>2, <1>3, <2>4 DEF Asked
    <3>2. k.lead = first.lead /\ k \in Unsplit
      BY <1>4, <3>1 DEF Unsplit
    <3>3. PICK ha, hb : ha = Half(first, a) /\ hb = Half(first, b)
      OBVIOUS
    <3>4. a \in S <=> NoPoly \in S
      <4>1. ha.lead = m /\ ha.poly = a /\ ha.other = NoPoly
        BY <1>5, <3>2, <3>3, HalfFields
      <4> QED
        BY <1>4, <2>2, <3>3, <4>1
    <3>5. b \in S <=> NoPoly \in S
      <4>1. hb.lead = m /\ hb.poly = b /\ hb.other = NoPoly
        BY <1>5, <3>2, <3>3, HalfFields
      <4> QED
        BY <1>4, <2>2, <3>3, <4>1
    <3>6. CASE k = first
      BY <1>1, <3>4, <3>5, <3>6
    <3>7. CASE k # first
      <4>1. Strip(k, a, b) \in tasks' /\ {k.poly, k.other} \cap {a, b} # {}
        BY <1>4, <3>1, <3>7 DEF Strip
      <4>2. PICK h : h = Strip(k, a, b)
        OBVIOUS
      <4>3. CASE k.poly \in {a, b}
        <5>1. h.lead = m /\ h.poly = k.other /\ h.other = NoPoly
          BY <4>1, <4>2, <4>3, <1>5, <3>2, HalfFields DEF Strip
        <5>2. k.other \in S <=> NoPoly \in S
          BY <2>2, <4>1, <4>2, <5>1
        <5> QED
          BY <3>4, <3>5, <4>3, <5>2
      <4>4. CASE k.poly \notin {a, b}
        <5>1. k.other \in {a, b}
          BY <4>1, <4>4
        <5>2. h.lead = m /\ h.poly = k.poly /\ h.other = NoPoly
          BY <4>1, <4>2, <4>4, <1>5, <3>2, HalfFields DEF Strip
        <5>3. k.poly \in S <=> NoPoly \in S
          BY <2>2, <4>1, <4>2, <5>2
        <5> QED
          BY <3>4, <3>5, <5>1, <5>3
      <4> QED
        BY <4>3, <4>4
    <3> QED
      BY <3>6, <3>7
  <2> QED
    BY <2>3, <2>4
<1>7. \A k \in Asked : ~IsSPair(k) => k \in Asked'
  BY <1>2, <1>4 DEF Asked
<1> QED
  BY <1>2, <1>6, <1>7, LinksKept

(* Two polynomials that have the same monomials have them in the same order. *)
LEMMA DescendingEqual ==
  ASSUME NEW A \in Seq(Monos), NEW B \in Seq(Monos), Descending(A), Descending(B),
         Range(A) = Range(B)
  PROVE  A = B
<1>1. PICK p \in Nat, q \in Nat : p = Len(A) /\ q = Len(B)
  OBVIOUS
<1>2. /\ DOMAIN A = 1..p /\ DOMAIN B = 1..q
      /\ \A i \in 1..p : A[i] \in Nat
      /\ \A i \in 1..q : B[i] \in Nat
  <2>1. /\ \A i \in 1..p : A[i] \in Monos
        /\ \A i \in 1..q : B[i] \in Monos
    BY <1>1
  <2>2. DOMAIN A = 1..p /\ DOMAIN B = 1..q
    BY <1>1
  <2>3. \A x \in Monos : x \in Nat
    BY TermsAssumption
  <2> QED
    BY <2>1, <2>2, <2>3
<1>3. /\ \A i \in 1..p : \E j \in 1..q : A[i] = B[j]
      /\ \A j \in 1..q : \E i \in 1..p : A[i] = B[j]
  BY <1>2 DEF Range
<1>4. /\ \A i, j \in 1..p : i < j => A[i] > A[j]
      /\ \A i, j \in 1..q : i < j => B[i] > B[j]
  BY <1>1 DEF Descending
<1>5. PICK T : T = {i \in 1..p : i \in 1..q /\ A[i] # B[i]}
  OBVIOUS
<1>6. T = {}
  <2> SUFFICES ASSUME T # {}
               PROVE  FALSE
    OBVIOUS
  <2>1. PICK i \in T : \A j \in T : i <= j
    <3>1. T \subseteq Nat
      BY <1>5
    <3> QED
      BY <3>1, MinIsLeast
  <2>2. i \in 1..p /\ i \in 1..q /\ A[i] # B[i] /\ A[i] \in Nat /\ B[i] \in Nat
    BY <1>2, <1>5
  <2>3. \A j \in 1..i - 1 : A[j] = B[j]
    <3> SUFFICES ASSUME NEW j \in 1..i - 1
                 PROVE  A[j] = B[j]
      OBVIOUS
    <3>1. j \in 1..p /\ j \in 1..q /\ ~(i <= j)
      BY <1>1, <2>2
    <3> QED
      BY <1>5, <2>1, <3>1
  <2>4. CASE A[i] > B[i]
    <3>1. PICK j \in 1..q : A[i] = B[j]
      BY <1>3, <2>2
    <3>2. ~(j < i)
      <4> SUFFICES ASSUME j < i
                   PROVE  FALSE
        OBVIOUS
      <4>1. j \in 1..i - 1 /\ j \in 1..p
        BY <1>1, <2>2
      <4>2. A[j] = A[i] /\ A[j] > A[i] /\ A[j] \in Nat
        BY <1>2, <1>4, <2>2, <2>3, <3>1, <4>1
      <4> QED
        BY <2>2, <4>2
    <3>3. ~(j = i)
      BY <2>2, <3>1
    <3>4. j > i
      BY <2>2, <3>2, <3>3
    <3>5. B[i] > B[j]
      BY <1>4, <2>2, <3>4
    <3> QED
      BY <1>2, <2>2, <2>4, <3>1, <3>5
  <2>5. CASE B[i] > A[i]
    <3>1. PICK j \in 1..p : A[j] = B[i]
      BY <1>3, <2>2
    <3>2. ~(j < i)
      <4> SUFFICES ASSUME j < i
                   PROVE  FALSE
        OBVIOUS
      <4>1. j \in 1..i - 1 /\ j \in 1..q
        BY <1>1, <2>2
      <4>2. B[j] = B[i] /\ B[j] > B[i] /\ B[j] \in Nat
        BY <1>2, <1>4, <2>2, <2>3, <3>1, <4>1
      <4> QED
        BY <2>2, <4>2
    <3>3. ~(j = i)
      BY <2>2, <3>1
    <3>4. j > i
      BY <2>2, <3>2, <3>3
    <3>5. A[i] > A[j]
      BY <1>4, <2>2, <3>4
    <3> QED
      BY <1>2, <2>2, <2>5, <3>1, <3>5
  <2> QED
    BY <2>2, <2>4, <2>5
<1>7. ~(p < q)
  <2> SUFFICES ASSUME p < q
               PROVE  FALSE
    OBVIOUS
  <2>1. p + 1 \in 1..q
    BY <1>1
  <2>2. PICK i \in 1..p : A[i] = B[p + 1]
    BY <1>3, <2>1
  <2>3. i \in 1..q /\ i < p + 1
    BY <1>1, <2>1
  <2>4. A[i] = B[i]
    BY <1>5, <1>6, <2>3
  <2>5. B[i] > B[p + 1]
    BY <1>4, <2>1, <2>3
  <2> QED
    BY <1>2, <2>2, <2>3, <2>4, <2>5
<1>8. ~(q < p)
  <2> SUFFICES ASSUME q < p
               PROVE  FALSE
    OBVIOUS
  <2>1. q + 1 \in 1..p
    BY <1>1
  <2>2. PICK i \in 1..q : A[q + 1] = B[i]
    BY <1>3, <2>1
  <2>3. i \in 1..p /\ i < q + 1
    BY <1>1, <2>1
  <2>4. A[i] = B[i]
    BY <1>5, <1>6, <2>3
  <2>5. A[i] > A[q + 1]
    BY <1>4, <2>1, <2>3
  <2> QED
    BY <1>2, <2>1, <2>2, <2>3, <2>4, <2>5
<1>9. p = q
  BY <1>1, <1>7, <1>8
<1>10. \A i \in 1..p : A[i] = B[i]
  BY <1>5, <1>6, <1>9
<1>11. A = [i \in 1..p |-> A[i]] /\ B = [i \in 1..p |-> B[i]]
  BY <1>2, <1>9
<1> QED
  BY <1>10, <1>11

(* A finished row that is empty is that of an S-pair whose halves are equal. *)
LEMMA EmptyRowVanishes ==
  ASSUME input \in Inputs, NEW r, FinishedRow(r), r.cols = <<>>
  PROVE  IsSPair(r.task) /\ r.task \in MayVanish
<1>1. PICK k, A, B : /\ k = r.task
                     /\ A = Products(k.poly, k.lead) /\ B = Products(k.other, k.lead)
  OBVIOUS
<1>2. /\ TaskOK(k) /\ Progress(k, <<>>, <<>>, <<>>)
      /\ k.poly \in Polys /\ k.lead \in Monos \cup {NoLead}
      /\ Range(Products(k.poly, k.lead)) \subseteq Monos
      /\ IsSPair(k) => k.other \in Polys /\ Range(Products(k.other, k.lead)) \subseteq Monos
  <2>1. TaskOK(k) /\ Progress(k, <<>>, <<>>, <<>>)
    BY <1>1 DEF FinishedRow, Progress
  <2> QED
    BY <2>1, TaskProducts
<1>3. A \in Seq(Monos) /\ Len(A) \in Nat \ {0} /\ Descending(A)
  BY <1>1, <1>2, ProductsAre
<1>4. IsSPair(k)
  <2> SUFFICES ASSUME ~IsSPair(k)
               PROVE  FALSE
    OBVIOUS
  <2>1. Len(<<>>) + Len(<<>>) = Len(A)
    BY <1>1, <1>2 DEF Progress, PolyProgress
  <2>2. Len(<<>>) + Len(<<>>) = 0
    OBVIOUS
  <2> QED
    BY <1>3, <2>1, <2>2
<1>5. B \in Seq(Monos) /\ Descending(B)
  BY <1>1, <1>2, <1>4, ProductsAre
<1>6. Range(A) = Range(B)
  <2>1. Range(<<>>) = {}
    BY DEF Range
  <2>2. Done(<<>>) = {}
    BY DEF Done
  <2>3. /\ Range(A) \ Range(B) \subseteq Range(<<>>) \cup Done(<<>>)
        /\ Range(B) \ Range(A) \subseteq Range(<<>>) \cup Done(<<>>)
    BY <1>1, <1>2, <1>4 DEF Progress, PairProgress
  <2> QED
    BY <2>1, <2>2, <2>3
<1>7. A = B
  BY <1>3, <1>5, <1>6, DescendingEqual
<1>8. k \in input.tasks
  BY <1>2, <1>4 DEF TaskOK
<1> QED
  BY <1>1, <1>4, <1>7, <1>8 DEF MayVanish

LEMMA ProjectKeepsLinks ==
  ASSUME IInv, RowsInv, LinksOK, NEW r \in rows, ProjectRow(r)
  PROVE  LinksOK'
<1>1. /\ phase = "project" /\ rows' = rows \ {r}
      /\ UNCHANGED <<input, tasks, row>>
      /\ r.cols = <<>> => bottom' = bottom /\ top' = top
      /\ r.cols # <<>> => AddRow(r)
  BY DEF ProjectRow, projection
<1>2. InProgress' = InProgress /\ MayVanish' = MayVanish
  BY <1>1 DEF InProgress, MayVanish
<1>3. r.cols # <<>> => MatrixRows \subseteq MatrixRows'
  BY <1>1, AddRowDeals DEF MatrixRows
<1>4. r.cols = <<>> => MatrixRows \subseteq MatrixRows' \cup {r}
  BY <1>1 DEF MatrixRows
<1>5. r.cols = <<>> => IsSPair(r.task) /\ r.task \in MayVanish
  BY EmptyRowVanishes DEF RowsInv, FinishedOK, MatrixRows, IInv, SPairsAsked
<1>6. \A k \in Asked : k \in Asked' \/ (IsSPair(k) /\ k \in MayVanish)
  BY <1>1, <1>2, <1>3, <1>4, <1>5 DEF Asked
<1>7. \A S, m : Closed(S, m)' => Closed(S, m)
  <2> SUFFICES ASSUME NEW S, NEW m, Closed(S, m)'
               PROVE  Closed(S, m)
    OBVIOUS
  <2>1. \A k \in Asked' \cup MayVanish' :
          k.lead = m => ({k.poly, k.other} \cap S = {} \/ {k.poly, k.other} \subseteq S)
    BY DEF Closed
  <2> QED
    BY <1>2, <1>6, <2>1 DEF Closed
<1> QED
  BY <1>1, <1>6, <1>7, LinksKept

LEMMA InitLinksOK == Init => LinksOK
<1> SUFFICES ASSUME Init, NEW k \in input.tasks
             PROVE  IF IsSPair(k) THEN \A S : Closed(S, k.lead) /\ k.poly \in S => k.other \in S
                                  ELSE k \in Asked
  BY DEF LinksOK
<1>1. k \in Asked
  BY DEF Init, Asked
<1>2. CASE IsSPair(k)
  BY <1>1 DEF Closed
<1> QED
  BY <1>1, <1>2

LEMMA LinksInductive ==
  ASSUME IInv, RowsInv, LinksOK, [Next]_vars
  PROVE  LinksOK'
<1>1. IInv' /\ input' = input
  <2>1. input' = input
    BY DEF Next, CallerStep, ThreadStep, SplitLead, SplitFails, Fail, StartBuild, EndBuild,
           ProjectRow, EndProjection, TakeTask, MakeReader, FindOne, FindTwo, FindMiss,
           RowDone, FindLocked, Lock, CreateFails, Grow, EndGrowth, Insert, vars
  <2> QED
    BY <2>1, NextInductive
<1>2. CASE CallerStep
  <2>1. ASSUME NEW k \in Unsplit, SplitLead(k)
        PROVE  LinksOK'
    <3>1. tasks \subseteq RowTask
      BY DEF RowsInv, TasksOK, TaskOK
    <3> QED
      BY <2>1, <3>1, SplitKeepsLinks
  <2>2. CASE SplitFails \/ StartBuild
    BY <1>1, <2>2, LockKeepsRows, MoreAsked
  <2>3. CASE EndBuild
    BY <1>1, <2>3, EndBuildKeepsRows, MoreAsked
  <2>4. ASSUME NEW r \in rows, ProjectRow(r)
        PROVE  LinksOK'
    BY <2>4, ProjectKeepsLinks
  <2>5. CASE EndProjection
    BY <1>1, <2>5, EndProjectionKeepsRows, MoreAsked
  <2> QED
    BY <1>2, <2>1, <2>2, <2>3, <2>4, <2>5 DEF CallerStep
<1>3. ASSUME NEW t \in Threads, ThreadStep(t)
      PROVE  LinksOK'
  <2>1. Asked \subseteq Asked'
    BY <1>1, <1>3, TakeKeepsRows, FindKeepsRows, RowDoneKeepsRows, LockKeepsRows,
       InsertKeepsRows DEF ThreadStep
  <2> QED
    BY <1>1, <2>1, MoreAsked
<1>4. CASE UNCHANGED vars
  BY <1>1, <1>4, LockKeepsRows, MoreAsked
<1> QED
  BY <1>2, <1>3, <1>4 DEF Next

LEMMA LinksSuffice ==
  ASSUME IInv, RowsInv, LinksOK
  PROVE  RowSpaceKept
<1> SUFFICES ASSUME phase = "done", NEW k \in input.tasks
             PROVE  IF IsSPair(k) THEN k.other \in Linked(k.poly, k.lead)
                                  ELSE \E r \in MatrixRows : r.task = k
  BY DEF RowSpaceKept
<1>1. tasks = {} /\ \A t \in Threads : pc[t] = "idle"
  BY DEF RowsInv, ProjectionOK
<1>2. InProgress = {}
  BY <1>1 DEF RowsInv, InProgressOK, InProgress
<1>3. Asked = {r.task : r \in MatrixRows}
  BY <1>1, <1>2 DEF Asked
<1>4. CASE ~IsSPair(k)
  BY <1>3, <1>4 DEF LinksOK
<1>5. CASE IsSPair(k)
  <2>1. k.other \in Polys
    BY <1>5, InputsAssumption DEF IInv, SPairsAsked, RowTask, IsSPair
  <2>2. PICK p, m : p = k.poly /\ m = k.lead
    OBVIOUS
  <2> DEFINE edges == {{r.task.poly, r.task.other} :
                         r \in {s \in MatrixRows : s.task.lead = m}}
                      \cup {{x.poly, x.other} :
                         x \in {s \in input.tasks :
                                  /\ s.lead = m
                                  /\ Tail(Products(s.poly, m)) = Tail(Products(s.other, m))}}
  <2>3. ASSUME NEW S, p \in S, \A e \in edges : e \cap S = {} \/ e \subseteq S
        PROVE  k.other \in S
    <3>1. ASSUME NEW x \in Asked \cup MayVanish, x.lead = m
          PROVE  {x.poly, x.other} \in edges
      <4>1. CASE x \in Asked
        BY <1>3, <3>1, <4>1
      <4>2. CASE x \in MayVanish
        BY <3>1, <4>2 DEF MayVanish
      <4> QED
        BY <3>1, <4>1, <4>2
    <3>2. Closed(S, m)
      BY <2>3, <3>1 DEF Closed
    <3> QED
      BY <1>5, <2>2, <2>3, <3>2 DEF LinksOK
  <2>4. \A S \in SUBSET (Polys \cup {NoPoly}) :
          p \in S /\ (\A e \in edges : e \cap S = {} \/ e \subseteq S) => k.other \in S
    BY <2>3
  <2> HIDE DEF edges
  <2>5. Linked(p, m) =
          {q \in Polys \cup {NoPoly} :
             \A S \in SUBSET (Polys \cup {NoPoly}) :
               p \in S /\ (\A e \in edges : e \cap S = {} \/ e \subseteq S) => q \in S}
    BY DEF Linked, edges
  <2>6. k.other \in Linked(p, m)
    BY <2>1, <2>4, <2>5, Zenon
  <2> QED
    BY <1>5, <2>2, <2>6
<1> QED
  BY <1>4, <1>5

(* Whatever S-pairs are split, stripped or cancel, and however the threads make
   the rows, the matrix spans what was asked for. *)
THEOREM RowSpaceStaysKept == Spec => []RowSpaceKept
<1>1. IInv /\ RowsInv /\ LinksOK => RowSpaceKept
  BY LinksSuffice
<1>2. Init => IInv /\ RowsInv /\ LinksOK
  BY InitIInv, InitRowsInv, InitLinksOK
<1>3. IInv /\ RowsInv /\ LinksOK /\ [Next]_vars => (IInv /\ RowsInv /\ LinksOK)'
  BY NextInductive, RowsInductive, LinksInductive
<1>4. QED
  BY <1>1, <1>2, <1>3, PTL DEF Spec
=============================================================================
