---------------------------- MODULE MatrixAction ----------------------------
(***************************************************************************)
(* The action "matrix" of mgb: it reads quadruple matrices from files, or  *)
(* the lower right ones made of them before, reduces them and stores what  *)
(* it gets, or compares it with what is stored already.                    *)
(*                                                                         *)
(* A project is a name with a file for each extension.  A row is the tuple *)
(* of its scalars, those of the left columns first where both are meant;   *)
(* trailing columns of zeros are kept.  F4MatrixReducer does what its own  *)
(* module shows of it.                                                     *)
(***************************************************************************)
EXTENDS Integers, Sequences, SequencesExt, Functions

CONSTANTS
  Debug,      \* whether MATHICGB_DEBUG is defined
  Projects,
  P,          \* the modulus of matrices that are not refused, a prime
  RightCols,  \* the number of right columns; there are as many left ones as
              \* rows at the top
  Quads,      \* records [modulus, topLeft, topRight, bottomLeft, bottomRight]
  References, \* the reduced matrices that may be stored beforehand
  Programs    \* the arguments of each run of mgb, in turn

VARIABLES
  files,     \* for each project [qmat, brmat, rbrmat, wrong]
  arguments, \* of the runs to come, the current one first; [project, extension]
  finished   \* history variable: the projects reduced so far

vars == <<files, arguments, finished>>

Matrix(modulus, rows) == [modulus |-> modulus, rows |-> rows]
Absent == Matrix(0, <<>>)

EmptyMatrix == <<>>

----------------------------------------------------------------------------
(* Reading a quadruple matrix *)

(* The reading of the other three is part of the debugging code. *)
ReadQuad(stored) ==
  IF Debug THEN stored
  ELSE [stored EXCEPT !.topRight = EmptyMatrix, !.bottomLeft = EmptyMatrix,
                      !.bottomRight = EmptyMatrix]

IsPrime(n) == n > 1 /\ \A d \in 2 .. n - 1 : n % d # 0

----------------------------------------------------------------------------
(* Rows modulo P *)

Combined(row, c, other) == [i \in DOMAIN row |-> (row[i] + c * other[i]) % P]

IsZero(row) == \A i \in DOMAIN row : row[i] = 0

(* The top rows are monic and triangular: a column has the row of its lead *)
TopRow(quad, col) ==
  CHOOSE r \in DOMAIN quad.topLeft :
    /\ quad.topLeft[r][col] = 1
    /\ \A c \in 1 .. col - 1 : quad.topLeft[r][c] = 0

(* reduceToBottomRight: rows that become zero are left out. *)
ReduceToBottomRight(quad) ==
  LET left == Len(quad.topLeft)
      top(col) == quad.topLeft[TopRow(quad, col)] \o quad.topRight[TopRow(quad, col)]
      reduced(row) ==
        FoldLeft(LAMBDA rest, col : Combined(rest, P - rest[col], top(col)),
                 quad.bottomLeft[row] \o quad.bottomRight[row], [col \in 1..left |-> col])
      right(row) == SubSeq(row, left + 1, left + RightCols)
  IN  SelectSeq([row \in DOMAIN quad.bottomLeft |-> right(reduced(row))],
                LAMBDA row : ~IsZero(row))

(* One pivot: the first row that has the column, made monic, clears it in  *)
(* all others.                                                             *)
Pivot(s, col) ==
  IF \A i \in DOMAIN s.rest : s.rest[i][col] = 0 THEN s
  ELSE LET i == SelectInSeq(s.rest, LAMBDA row : row[col] # 0)
           inverse == CHOOSE c \in 1 .. P - 1 : (c * s.rest[i][col]) % P = 1
           monic == [c \in 1..RightCols |-> (s.rest[i][c] * inverse) % P]
           clear(rows) == [r \in DOMAIN rows |-> Combined(rows[r], P - rows[r][col], monic)]
       IN  [done |-> Append(clear(s.done), monic), rest |-> clear(RemoveAt(s.rest, i))]

(* reducedRowEchelonForm, and the rows by increasing pivot *)
ReducedRowEchelonForm(rows) ==
  FoldLeft(Pivot, [done |-> <<>>, rest |-> rows], [col \in 1..RightCols |-> col]).done

----------------------------------------------------------------------------
Init ==
  /\ \E quad \in [Projects -> Quads], reference \in [Projects -> References \cup {Absent}] :
       files = [p \in Projects |->
                  [qmat |-> quad[p], brmat |-> Absent, rbrmat |-> reference[p],
                   wrong |-> Absent]]
  /\ arguments \in Programs
  /\ finished = {}

Argument == Head(Head(arguments))
Stored == files[Argument.project]

(* The next file, or the next program *)
Proceed ==
  arguments' = IF Len(Head(arguments)) = 1 THEN Tail(arguments)
               ELSE <<Tail(Head(arguments))>> \o Tail(arguments)

(* An error ends the program, whatever files are still to come. *)
Refuse ==
  /\ arguments' = Tail(arguments)
  /\ UNCHANGED <<files, finished>>

(* The reduced form is stored, or has to match the one stored before. *)
Finish(lowerRight, stored) ==
  LET reduced == Matrix(lowerRight.modulus, ReducedRowEchelonForm(lowerRight.rows))
  IN  /\ files' = [files EXCEPT ![Argument.project] =
                     IF Stored.rbrmat = Absent THEN [stored EXCEPT !.rbrmat = reduced]
                     ELSE IF Stored.rbrmat.rows # reduced.rows
                       THEN [stored EXCEPT !.wrong = reduced]
                     ELSE stored]
      /\ finished' = finished \cup {Argument.project}
      /\ Proceed

PerformQuad ==
  /\ arguments # <<>>
  /\ Argument.extension \in {".qmat", ".", ""}
  /\ IF ~IsPrime(Stored.qmat.modulus) THEN Refuse
     ELSE LET quad == ReadQuad(Stored.qmat)
              lowerRight == Matrix(quad.modulus, ReduceToBottomRight(quad))
          IN  Finish(lowerRight, IF Stored.brmat # Absent THEN Stored
                                 ELSE [Stored EXCEPT !.brmat = lowerRight])

PerformLowerRight ==
  /\ arguments # <<>>
  /\ Argument.extension = ".brmat"
  /\ IF Stored.brmat = Absent THEN Refuse ELSE Finish(Stored.brmat, Stored)

(* Reduced matrices are registered as input files, but not dealt with. *)
PerformOther ==
  /\ arguments # <<>>
  /\ Argument.extension \notin {".qmat", ".", "", ".brmat"}
  /\ Refuse

Next == PerformQuad \/ PerformLowerRight \/ PerformOther

Spec == Init /\ [][Next]_vars

----------------------------------------------------------------------------
(* What the rows generate, and what of it is zero in the left columns *)
Span(rows, length) ==
  FoldLeft(LAMBDA S, row : {Combined(v, c, row) : v \in S, c \in 0 .. P - 1},
           {[i \in 1..length |-> 0]}, rows)

RightPart(quad) ==
  LET left == Len(quad.topLeft)
      rows == [r \in DOMAIN quad.topLeft |-> quad.topLeft[r] \o quad.topRight[r]]
                \o [r \in DOMAIN quad.bottomLeft |-> quad.bottomLeft[r] \o quad.bottomRight[r]]
  IN  {SubSeq(v, left + 1, left + RightCols) :
         v \in {v \in Span(rows, left + RightCols) : \A c \in 1..left : v[c] = 0}}

PivotOf(row) == CHOOSE c \in DOMAIN row : row[c] # 0 /\ \A d \in 1 .. c - 1 : row[d] = 0

IsReduced(rows) ==
  \A i \in DOMAIN rows :
    /\ ~IsZero(rows[i])
    /\ rows[i][PivotOf(rows[i])] = 1
    /\ \A j \in DOMAIN rows \ {i} : rows[j][PivotOf(rows[i])] = 0
    /\ \A j \in 1 .. i - 1 : PivotOf(rows[j]) < PivotOf(rows[i])

(* "writes the reduced lower right submatrix to project.brmat and its      *)
(* reduced form to project.rbrmat": of a project that has been dealt with  *)
(* the files hold the echelon form of what the stored matrix generates     *)
(* without its left columns; where another form was there already, the     *)
(* right one is beside it.                                                 *)
ReducedFormIsOfMatrix ==
  \A p \in finished :
    LET answer == IF files[p].wrong = Absent THEN files[p].rbrmat ELSE files[p].wrong
    IN  /\ IsReduced(answer.rows)
        /\ Span(answer.rows, RightCols) = RightPart(files[p].qmat)
        /\ Span(files[p].brmat.rows, RightCols) = RightPart(files[p].qmat)
=============================================================================
