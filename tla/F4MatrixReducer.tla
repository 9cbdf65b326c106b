--------------------------- MODULE F4MatrixReducer ---------------------------
(***************************************************************************)
(* F4MatrixReducer: threads bring the four parts of a quad matrix to       *)
(* reduced row echelon form.  The rows of one parallel loop are            *)
(* independent but for the sections under its lock, so that one step does  *)
(* a row, and the steps come in the order of those sections.               *)
(*                                                                         *)
(* A row is a function from columns, whose entries of value 0 are those    *)
(* that a sparse row leaves out.  Dense entries are sums of products that  *)
(* are not taken modulo the modulus until the code does it.                *)
(***************************************************************************)
EXTENDS Integers, SequencesExt, FiniteSetsExt

CONSTANTS
  Modulus,
  Right,          \* the columns of the right parts, from 0
  QuadMatrices,   \* bound: the matrices that are reduced
  SparsePercent   \* of entries, below which reduceToEchelonFormSparse is used

RightCols == 0..Right - 1
LeftCols(m) == 0..Len(m.topLeft) - 1
Scalar == 0..Modulus - 1
DenseRow == [RightCols -> Nat]

(* leadCol: where a row begins *)
LeadCol(row) == Min({c \in DOMAIN row : row[c] # 0})
Zero(row) == \A c \in DOMAIN row : row[c] = 0

ASSUME ModulusAssumption ==
  /\ Modulus \in Nat \ {0, 1}
  /\ \A a \in 2..Modulus - 1 : Modulus % a # 0

(* The matrix builders' promise: the top left is square, and its rows, in any
   order, begin with 1 in a column of their own. *)
ASSUME QuadMatricesAssumption ==
  /\ Right \in Nat /\ SparsePercent \in Nat
  /\ \A m \in QuadMatrices :
       /\ m.topLeft \in Seq([LeftCols(m) -> Scalar])
       /\ m.topRight \in Seq([RightCols -> Scalar])
       /\ m.bottomLeft \in Seq([LeftCols(m) -> Scalar])
       /\ m.bottomRight \in Seq([RightCols -> Scalar])
       /\ Len(m.topLeft) = Len(m.topRight) /\ Len(m.bottomLeft) = Len(m.bottomRight)
       /\ \A c \in LeftCols(m) : \E i \in DOMAIN m.topLeft :
            ~Zero(m.topLeft[i]) /\ LeadCol(m.topLeft[i]) = c /\ m.topLeft[i][c] = 1

VARIABLES
  phase,          \* "left", "right", "sparse", "back", "dense" or "done"
  qm,
  todo,           \* the rows, or columns, left to the loop that runs
  tmp,            \* of reduce: the multipliers of each row, by top row
  rowOrder,       \* the bottom row that each row of tmp comes from
  lower,          \* the matrix that reduce returns, to be brought to echelon form
  pivotRowOfCol,  \* of reduceToEchelonFormSparse
  dense,          \* of reduceToEchelonForm; <<>> is a row that was cleared
  leadCols,
  isPivotRow,
  columnHasPivot,
  reduced,        \* the pivot rows, or the result
  nextReducers    \* pairs of a column and the row that has claimed it

reduceVars == <<tmp, rowOrder>>
denseVars == <<dense, leadCols, isPivotRow, columnHasPivot, nextReducers>>
vars == <<phase, qm, todo, reduceVars, lower, pivotRowOfCol, denseVars, reduced>>

Init ==
  /\ phase = "left"
  /\ qm \in QuadMatrices
  /\ todo = DOMAIN qm.bottomLeft
  /\ tmp = <<>> /\ rowOrder = <<>>
  /\ lower = <<>>
  /\ pivotRowOfCol = <<>>
  /\ dense = <<>> /\ leadCols = <<>>
  /\ isPivotRow = <<>> /\ columnHasPivot = {}
  /\ reduced = <<>> /\ nextReducers = {}

-----------------------------------------------------------------------------
(* A loop: what becomes of x by the functions step[1] to step[n] *)
Folded(step, x, n) ==
  LET after[k \in 0..n] == IF k = 0 THEN x ELSE step[k][after[k - 1]]
  IN  after[n]

(* A finite set as a sorted sequence: each element has its place by the number
   of those before it. *)
InOrder(S, before(_, _)) ==
  [i \in 1..Cardinality(S) |->
     CHOOSE x \in S : Cardinality({y \in S : before(y, x)}) = i - 1]

-----------------------------------------------------------------------------
(* DenseRow *)

ModularInverse(a) == CHOOSE b \in Scalar : (a * b) % Modulus = 1

ZeroRow(cols) == [c \in cols |-> 0]

AddRowMultiple(d, multiple, row) == [c \in DOMAIN d |-> d[c] + multiple * row[c]]

TakeModulus(d) == [c \in DOMAIN d |-> d[c] % Modulus]

MakeUnitary(d, lead) ==
  LET multiply == ModularInverse(d[lead] % Modulus)
  IN  [c \in DOMAIN d |-> IF c < lead THEN d[c]
                          ELSE ((d[c] % Modulus) * multiply) % Modulus]

(* Mutated form: the entry is not taken modulo the modulus. *)
RowReduceUnreduced(d, pivot) ==
  LET col == LeadCol(pivot)
  IN  AddRowMultiple([d EXCEPT ![col] = 0], (Modulus - 1) * d[col],
                     [pivot EXCEPT ![col] = 0])

RowReduceByUnitary(d, pivot) ==
  LET col == LeadCol(pivot)
      entry == d[col] % Modulus
      cleared == [d EXCEPT ![col] = 0]
  IN  IF entry = 0 THEN cleared
      ELSE AddRowMultiple(cleared, Modulus - entry, [pivot EXCEPT ![col] = 0])

-----------------------------------------------------------------------------
(* reduce *)

RowThatReducesCol(m, col) == CHOOSE i \in DOMAIN m.topLeft : LeadCol(m.topLeft[i]) = col

(* The row of a thread after the loop over the pivots: each entry is the
   multiple of the top row of its column that has to be added. *)
LeftMultiples(m, row) ==
  LET eliminate(d, pivot) ==
        LET entry == d[pivot] % Modulus
            top == m.topLeft[RowThatReducesCol(m, pivot)]
        IN  IF entry = 0 THEN [d EXCEPT ![pivot] = 0]
            ELSE [AddRowMultiple(d, Modulus - entry, [top EXCEPT ![pivot] = 0])
                    EXCEPT ![pivot] = Modulus - entry]
      step == [k \in 1..Len(m.topLeft) |->
                 [d \in [LeftCols(m) -> Nat] |-> eliminate(d, k - 1)]]
  IN  Folded(step, m.bottomLeft[row], Len(m.topLeft))

(* Mutated form: rows are taken to arrive in their order. *)
ReduceLeftInOrder(row) ==
  LET d == LeftMultiples(qm, row)
  IN  /\ phase = "left"
      /\ tmp' = Append(tmp, [i \in DOMAIN qm.topLeft |-> d[LeadCol(qm.topLeft[i])]])
      /\ rowOrder' = Append(rowOrder, Len(tmp) + 1)
      /\ todo' = todo \ {row}
      /\ UNCHANGED <<phase, qm, lower, pivotRowOfCol, denseVars, reduced>>

ReduceLeft(row) ==
  LET d == LeftMultiples(qm, row)
  IN  /\ phase = "left"
      /\ tmp' = Append(tmp, [i \in DOMAIN qm.topLeft |-> d[LeadCol(qm.topLeft[i])]])
      /\ rowOrder' = Append(rowOrder, row)
      /\ todo' = todo \ {row}
      /\ UNCHANGED <<phase, qm, lower, pivotRowOfCol, denseVars, reduced>>

EndLeft ==
  /\ phase = "left"
  /\ todo = {}
  /\ phase' = "right"
  /\ todo' = DOMAIN tmp
  /\ UNCHANGED <<qm, reduceVars, lower, pivotRowOfCol, denseVars, reduced>>

(* The right part of the i-th row of tmp before the modulus is taken *)
RightSums(i) ==
  LET step == [k \in DOMAIN qm.topRight |->
                 [d \in DenseRow |-> AddRowMultiple(d, tmp[i][k], qm.topRight[k])]]
  IN  Folded(step, qm.bottomRight[rowOrder[i]], Len(qm.topRight))

ReduceRight(i) ==
  LET d == TakeModulus(RightSums(i))
  IN  /\ phase = "right"
      /\ lower' = IF Zero(d) THEN lower ELSE Append(lower, d)
      /\ todo' = todo \ {i}
      /\ UNCHANGED <<phase, qm, reduceVars, pivotRowOfCol, denseVars, reduced>>

(* computeColCount and computeDensity; the density of no rows is no number
   and below nothing. *)
ColCount(m) == Max({0} \cup {c + 1 : c \in UNION {{c \in RightCols : m[i][c] # 0} :
                                                     i \in DOMAIN m}})
EntryCount(m) == MapThenSumSet(LAMBDA i : Cardinality({c \in RightCols : m[i][c] # 0}),
                               DOMAIN m)
UseSparse(m) == 100 * EntryCount(m) < SparsePercent * Len(m) * ColCount(m)

(* reduce returns, and reducedRowEchelonForm chooses how to go on. *)
EndRight ==
  /\ phase = "right"
  /\ todo = {}
  /\ tmp' = <<>>
  /\ rowOrder' = <<>>
  /\ todo' = DOMAIN lower
  /\ IF UseSparse(lower)
     THEN /\ phase' = "sparse"
          /\ UNCHANGED denseVars
     ELSE /\ phase' = "dense"
          /\ dense' = lower
          /\ leadCols' = [row \in DOMAIN lower |-> 0]
          /\ isPivotRow' = [row \in DOMAIN lower |-> FALSE]
          /\ UNCHANGED <<columnHasPivot, nextReducers>>
  /\ UNCHANGED <<qm, lower, pivotRowOfCol, reduced>>

-----------------------------------------------------------------------------
(* reduceToEchelonFormSparse *)

PivotCols == DOMAIN pivotRowOfCol

(* d reduced from left to right up to its first nonzero entry in a column
   without a pivot; all of it if there is none *)
ReduceByPivots(d) ==
  LET stuck(e) == \E c \in RightCols \ PivotCols :
        e[c] % Modulus # 0 /\ \A b \in 0..c - 1 : e[b] % Modulus = 0
      reduceCol(e, c) ==
        IF stuck(e) \/ c \notin PivotCols THEN e
        ELSE RowReduceByUnitary(e, pivotRowOfCol[c])
      step == [k \in 1..Right |-> [e \in DenseRow |-> reduceCol(e, k - 1)]]
  IN  Folded(step, d, Right)

(* The rows come in their order. *)
PivotRow(row) ==
  LET d == ReduceByPivots(lower[row])
      nonzero == {c \in RightCols : d[c] % Modulus # 0}
      lead == Min(nonzero)
  IN  /\ phase = "sparse"
      /\ row = Min(todo)
      /\ todo' = todo \ {row}
      /\ pivotRowOfCol' = IF nonzero = {} THEN pivotRowOfCol
           ELSE [c \in PivotCols \cup {lead} |->
                   IF c = lead
                   THEN [b \in RightCols |-> IF b < lead THEN 0 ELSE MakeUnitary(d, lead)[b]]
                   ELSE pivotRowOfCol[c]]
      /\ UNCHANGED <<phase, qm, reduceVars, lower, denseVars, reduced>>

EndPivots ==
  /\ phase = "sparse"
  /\ todo = {}
  /\ phase' = "back"
  /\ todo' = PivotCols
  /\ UNCHANGED <<qm, reduceVars, lower, pivotRowOfCol, denseVars, reduced>>

(* A pivot row reduced by those of later columns *)
ReduceByLaterPivots(pivotCol) ==
  LET reduceCol(e, c) ==
        LET f == [e EXCEPT ![c] = @ % Modulus]
        IN  IF c <= pivotCol THEN e
            ELSE IF f[c] # 0 /\ c \in PivotCols THEN RowReduceByUnitary(f, pivotRowOfCol[c])
            ELSE f
      step == [k \in 1..Right |-> [e \in DenseRow |-> reduceCol(e, k - 1)]]
  IN  Folded(step, pivotRowOfCol[pivotCol], Right)

(* The pivots go into reduced from the last column on; those of later columns
   are there already. *)
BackReduce(pivotCol) ==
  LET d == ReduceByLaterPivots(pivotCol)
  IN  /\ phase = "back"
      /\ pivotCol = Max(todo)
      /\ pivotRowOfCol' = [pivotRowOfCol EXCEPT ![pivotCol] = d]
      /\ reduced' = Append(reduced, d)
      /\ todo' = todo \ {pivotCol}
      /\ UNCHANGED <<phase, qm, reduceVars, lower, denseVars>>

EndSparse ==
  /\ phase = "back"
  /\ todo = {}
  /\ phase' = "done"
  /\ UNCHANGED <<qm, todo, reduceVars, lower, pivotRowOfCol, denseVars, reduced>>

-----------------------------------------------------------------------------
(* reduceToEchelonForm *)

(* A row reduced by the pivots of this iteration, in the order of columns; a
   pivot row keeps its own lead. *)
ReduceByReducers(row) ==
  LET reduceBy(d, reducer) ==
        LET col == LeadCol(reducer)
        IN  IF d[col] = 0 \/ (isPivotRow[row] /\ col = leadCols[row]) THEN d
            ELSE RowReduceByUnitary(d, reducer)
      step == [k \in DOMAIN reduced |-> [d \in DenseRow |-> reduceBy(d, reduced[k])]]
  IN  Folded(step, dense[row], Len(reduced))

(* Mutated form: it is not looked whether the column has a pivot. *)
ReduceRowUnchecked(row) ==
  LET d == ReduceByReducers(row)
      col == Min({c \in leadCols[row]..Right - 1 : d[c] % Modulus # 0} \cup {Right})
      settled == [c \in RightCols |->
                    IF c \in leadCols[row]..col THEN d[c] % Modulus ELSE d[c]]
      isNewReducer == col # Right
  IN  /\ phase = "dense"
      /\ todo' = todo \ {row}
      /\ leadCols' = [leadCols EXCEPT ![row] = col]
      /\ dense' = [dense EXCEPT ![row] =
                     IF col = Right THEN <<>>
                     ELSE IF isNewReducer THEN MakeUnitary(settled, col) ELSE settled]
      /\ IF isNewReducer
         THEN /\ columnHasPivot' = columnHasPivot \cup {col}
              /\ nextReducers' = nextReducers \cup {<<col, row>>}
         ELSE UNCHANGED <<columnHasPivot, nextReducers>>
      /\ UNCHANGED <<phase, qm, reduceVars, lower, pivotRowOfCol, isPivotRow, reduced>>

(* The row's lead is looked for from where it was, clearing what is zero; of
   the rows that have the same lead the first one to take the lock becomes
   the pivot. *)
ReduceRow(row) ==
  LET d == ReduceByReducers(row)
      col == Min({c \in leadCols[row]..Right - 1 : d[c] % Modulus # 0} \cup {Right})
      settled == [c \in RightCols |->
                    IF c \in leadCols[row]..col THEN d[c] % Modulus ELSE d[c]]
      isNewReducer == col # Right /\ col \notin columnHasPivot
  IN  /\ phase = "dense"
      /\ todo' = todo \ {row}
      /\ leadCols' = [leadCols EXCEPT ![row] = col]
      /\ dense' = [dense EXCEPT ![row] =
                     IF col = Right THEN <<>>
                     ELSE IF isNewReducer THEN MakeUnitary(settled, col) ELSE settled]
      /\ IF isNewReducer
         THEN /\ columnHasPivot' = columnHasPivot \cup {col}
              /\ nextReducers' = nextReducers \cup {<<col, row>>}
         ELSE UNCHANGED <<columnHasPivot, nextReducers>>
      /\ UNCHANGED <<phase, qm, reduceVars, lower, pivotRowOfCol, isPivotRow, reduced>>

NonEmptyRows == {row \in DOMAIN dense : dense[row] # <<>>}

NextPivots == {pair[2] : pair \in nextReducers}

(* The order of std::pair *)
Before(x, y) == x[1] < y[1] \/ (x[1] = y[1] /\ x[2] < y[2])

(* Mutated form: rows that are pivots are left alone from then on. *)
NextIterationNonPivots ==
  LET pairs == InOrder(nextReducers, Before)
      isPivot == [row \in DOMAIN dense |-> isPivotRow[row] \/ row \in NextPivots]
  IN  /\ phase = "dense"
      /\ todo = {}
      /\ reduced' = [i \in DOMAIN pairs |-> dense[pairs[i][2]]]
      /\ isPivotRow' = isPivot
      /\ nextReducers' = {}
      /\ todo' = {row \in NonEmptyRows : ~isPivot[row]}
      /\ nextReducers # {}
      /\ UNCHANGED <<phase, qm, reduceVars, lower, pivotRowOfCol, dense, leadCols, columnHasPivot>>

(* Mutated form: the list of the pivots found is not emptied. *)
NextIterationUncleared ==
  /\ phase = "dense"
  /\ todo = {}
  /\ nextReducers # {}
  /\ isPivotRow' = [row \in DOMAIN dense |-> isPivotRow[row] \/ row \in NextPivots]
  /\ todo' = NonEmptyRows
  /\ UNCHANGED <<phase, qm, reduceVars, lower, pivotRowOfCol, reduced, dense, leadCols,
                 columnHasPivot, nextReducers>>

(* The barrier: the pivots found are copied, sorted by column, for the next
   iteration. *)
NextIteration ==
  LET pairs == InOrder(nextReducers, Before)
  IN  /\ phase = "dense"
      /\ todo = {}
      /\ nextReducers # {}
      /\ reduced' = [i \in DOMAIN pairs |-> dense[pairs[i][2]]]
      /\ isPivotRow' = [row \in DOMAIN dense |->
                          isPivotRow[row] \/ row \in NextPivots]
      /\ nextReducers' = {}
      /\ todo' = NonEmptyRows
      /\ UNCHANGED <<phase, qm, reduceVars, lower, pivotRowOfCol, dense, leadCols,
                     columnHasPivot>>

(* No pivot was found in this iteration: what is not zero is the result. *)
EndDense ==
  /\ phase = "dense"
  /\ todo = {}
  /\ nextReducers = {}
  /\ phase' = "done"
  /\ reduced' = LET inOrder == InOrder(NonEmptyRows, <)
                IN  [i \in DOMAIN inOrder |-> TakeModulus(dense[inOrder[i]])]
  /\ UNCHANGED <<qm, todo, reduceVars, lower, pivotRowOfCol, denseVars>>

-----------------------------------------------------------------------------
RowStep ==
  \/ \E row \in todo : ReduceLeft(row)
  \/ \E i \in todo : ReduceRight(i)
  \/ \E row \in todo : PivotRow(row)
  \/ \E pivotCol \in todo : BackReduce(pivotCol)
  \/ \E row \in todo : ReduceRow(row)

CallerStep ==
  \/ EndLeft
  \/ EndRight
  \/ EndPivots
  \/ EndSparse
  \/ NextIteration
  \/ EndDense

Next ==
  \/ RowStep
  \/ CallerStep
  \/ phase = "done" /\ UNCHANGED vars

(* parallel_for returns when all its rows are done, and its caller goes on. *)
Fairness == WF_vars(RowStep \/ CallerStep)

Spec == Init /\ [][Next]_vars /\ Fairness

-----------------------------------------------------------------------------
(* Shrawan's algorithm, which the constant useShrawan turns off: m is reduced
   in place, with a modulus taken at each product and sum. *)
ReducedBy(d, multiple, pivot) == TakeModulus(AddRowMultiple(d, multiple, pivot))

Negative(a) == (Modulus - a) % Modulus

(* One row by the pivots before it; s.pivots has the rows of the pivots by their
   columns, or 0. *)
ShrawanReduceRow(s, row) ==
  LET stuck(d) == ~Zero(d) /\ s.pivots[LeadCol(d)] = 0
      reduceCol(d, c) == IF stuck(d) \/ d[c] = 0 THEN d
                         ELSE ReducedBy(d, Negative(d[c]), s.rows[s.pivots[c]])
      step == [k \in 1..Right |-> [d \in [RightCols -> Scalar] |-> reduceCol(d, k - 1)]]
      e == Folded(step, s.rows[row], Right)
      lead == LeadCol(e)
  IN  IF Zero(e) THEN [s EXCEPT !.rows[row] = e]
      ELSE [s EXCEPT !.rows[row] = MakeUnitary(e, lead), !.pivots[lead] = row]

(* One row by the pivots of the columns after its lead *)
ShrawanBackReduceRow(s, row) ==
  LET lead == LeadCol(s.rows[row])
      reduceCol(d, c) == IF c <= lead \/ s.pivots[c] = 0 THEN d
                         ELSE ReducedBy(d, Negative(d[c]), s.rows[s.pivots[c]])
      step == [k \in 1..Right |-> [d \in [RightCols -> Scalar] |-> reduceCol(d, k - 1)]]
  IN  IF Zero(s.rows[row]) THEN s
      ELSE [s EXCEPT !.rows[row] = Folded(step, @, Right)]

(* The rows that are not zero at the end *)
RowReducedEchelonMatrix(m) ==
  LET states == [rows : [DOMAIN m -> [RightCols -> Scalar]], pivots : [RightCols -> 0..Len(m)]]
      reduce == [row \in DOMAIN m |-> [s \in states |-> ShrawanReduceRow(s, row)]]
      backReduce == [row \in DOMAIN m |-> [s \in states |-> ShrawanBackReduceRow(s, row)]]
      start == [rows |-> m, pivots |-> [c \in RightCols |-> 0]]
      end == Folded(backReduce, Folded(reduce, start, Len(m)), Len(m))
  IN  {end.rows[row] : row \in {i \in DOMAIN m : ~Zero(end.rows[i])}}

-----------------------------------------------------------------------------
(* Properties *)

(* Every variable has a value of its kind. *)
TypeOK ==
  /\ phase \in {"left", "right", "sparse", "back", "dense", "done"}
  /\ qm \in QuadMatrices
  /\ todo \subseteq Nat
  /\ \A i \in DOMAIN tmp : tmp[i] \in [DOMAIN qm.topLeft -> Scalar]
  /\ rowOrder \in Seq(DOMAIN qm.bottomLeft)
  /\ lower \in Seq([RightCols -> Scalar])
  /\ \A c \in PivotCols : c \in RightCols /\ pivotRowOfCol[c] \in [RightCols -> Scalar]
  /\ \A row \in NonEmptyRows : dense[row] \in DenseRow
  /\ \A row \in DOMAIN leadCols : leadCols[row] \in 0..Right
  /\ \A row \in DOMAIN isPivotRow : isPivotRow[row] \in BOOLEAN
  /\ columnHasPivot \subseteq RightCols
  /\ reduced \in Seq([RightCols -> Scalar])
  /\ nextReducers \subseteq RightCols \X DOMAIN dense

(* A space of rows and the multiples of one more *)
Extended(space, row) == {ReducedBy(v, multiple, row) : v \in space, multiple \in Scalar}

Span(rows) ==
  LET extend(row, space) == Extended(space, row)
  IN  IF rows = {} THEN {ZeroRow(RightCols)}
      ELSE FoldSet(extend, {ZeroRow(DOMAIN (CHOOSE row \in rows : TRUE))}, rows)

(* The left part of the i-th row of tmp, with the multiples of the top rows *)
LeftSums(i) ==
  LET step == [k \in DOMAIN qm.topLeft |->
                 [d \in [LeftCols(qm) -> Nat] |-> AddRowMultiple(d, tmp[i][k], qm.topLeft[k])]]
  IN  Folded(step, qm.bottomLeft[rowOrder[i]], Len(qm.topLeft))

(* The threads append the multipliers of their rows in the order they come to
   the lock, and rowOrder leads back: with the bottom row it names, each row of
   tmp makes the left part zero, and no bottom row is taken twice. *)
MultipliersCancelLeft ==
  phase \in {"left", "right"} =>
    /\ Len(tmp) = Len(rowOrder)
    /\ \A i, j \in DOMAIN rowOrder : rowOrder[i] = rowOrder[j] => i = j
    /\ \A i \in DOMAIN rowOrder : Zero(TakeModulus(LeftSums(i)))

Join(left, right) ==
  [c \in 0..Cardinality(DOMAIN left) + Right - 1 |->
     IF c \in DOMAIN left THEN left[c] ELSE right[c - Cardinality(DOMAIN left)]]

(* What reduceToBottomRight returns spans the right parts of all combinations
   of the rows of the whole matrix that have nothing on the left: none is lost
   with a row that is zero, none is made up. *)
LowerSpansRest ==
  phase = "right" /\ todo = {} =>
    LET left == Len(qm.topLeft)
        rows == {Join(qm.topLeft[i], qm.topRight[i]) : i \in DOMAIN qm.topLeft}
                  \cup {Join(qm.bottomLeft[i], qm.bottomRight[i]) : i \in DOMAIN qm.bottomLeft}
    IN  Span(Range(lower)) =
          {[c \in RightCols |-> v[left + c]] :
             v \in {w \in Span(rows) : \A c \in LeftCols(qm) : w[c] = 0}}

(* The rows that stand for the matrix while it is brought to echelon form *)
RowsInPlay ==
  CASE phase = "sparse" -> Range(pivotRowOfCol) \cup {lower[row] : row \in todo}
    [] phase = "back" -> Range(pivotRowOfCol)
    [] phase = "dense" -> {dense[row] : row \in NonEmptyRows}
    [] phase = "done" -> Range(reduced)

EchelonSpansLower ==
  phase \in {"sparse", "back", "dense", "done"} => Span(RowsInPlay) = Span(Range(lower))

(* No step changes what the rows span: neither the threads that append to tmp,
   nor either algorithm, though rows are reduced by copies of pivots that are
   themselves reduced on. *)
RowSpaceKept == MultipliersCancelLeft /\ LowerSpansRest /\ EchelonSpansLower

(* The rows that have claimed a column: pivots of earlier iterations and of
   this one *)
Claimed == {row \in NonEmptyRows : isPivotRow[row]} \cup NextPivots

(* Threads that find the same lead agree on one pivot (what the debug build
   asserts): each claimed column has one row, which begins there with 1. *)
PivotsClaimedOnce ==
  phase = "dense" =>
    /\ columnHasPivot = {leadCols[row] : row \in Claimed}
    /\ \A r, s \in Claimed : leadCols[r] = leadCols[s] => r = s
    /\ \A row \in NextPivots : ~isPivotRow[row]
    /\ \A row \in Claimed : dense[row][leadCols[row]] = 1
    /\ \A row \in NonEmptyRows : \A c \in 0..leadCols[row] - 1 : dense[row][c] = 0

(* Delayed modulus: an entry is at most a scalar and a product for each column
   that can have a pivot.  With scalars of 16 bits and fewer than 2^32
   columns, as they are in the code, the sum fits its 64 bits.  Elsewhere the
   modulus has been taken. *)
SumsFit ==
  LET most(columns) == (Modulus - 1) + columns * (Modulus - 1) * (Modulus - 1)
  IN  /\ TypeOK
      /\ \A row \in NonEmptyRows : \A c \in RightCols : dense[row][c] <= most(Right)
      /\ phase = "right" =>
           \A i \in todo : \A c \in RightCols : RightSums(i)[c] <= most(Len(qm.topLeft))

InEchelonForm ==
  phase = "done" =>
    \A i, j \in DOMAIN reduced :
      /\ ~Zero(reduced[i])
      /\ reduced[j][LeadCol(reduced[i])] = IF i = j THEN 1 ELSE 0

ShrawanAgrees ==
  phase = "done" => Range(reduced) = RowReducedEchelonMatrix(lower)

(* The result is in reduced row echelon form, in whatever order its rows come:
   each begins with 1, in a column where all others are zero.  The algorithm
   that is turned off, whose phases do the same with a modulus taken at once,
   would have given the same rows. *)
EchelonReduced == InEchelonForm /\ ShrawanAgrees

(* The iterations, which go on while pivots are found, end. *)
ReductionEnds == <>(phase = "done")
=============================================================================
