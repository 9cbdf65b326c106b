------------------------------ MODULE F4Reducer ------------------------------
(***************************************************************************)
(* F4Reducer: the Reducer that makes one matrix of a set of polynomials,   *)
(* brings it to reduced row echelon form and makes polynomials of its      *)
(* rows.  It leaves a single polynomial to a fall-back reducer, and stores *)
(* the matrices in files when it was told to.                              *)
(*                                                                         *)
(* The matrix builder, of either type, and F4MatrixReducer are used as     *)
(* their own modules show them to be.                                      *)
(***************************************************************************)
EXTENDS Polynomials, Sequences, SequencesExt, Functions

CONSTANTS
  Basis,   \* the elements [lead, poly], all monic
  Stores,  \* [file, minEntries] given to makeF4Reducer, "" for no file
  Calls    \* the sequences of calls, records with an op

VARIABLES
  calls,     \* still to be made
  store,     \* mStoreToFile and mMinEntryCountForStore
  mMatrixSaveCount,
  disk,      \* from file, <<stem, number>>, to the entries of its matrix
  reducedOut,\* the vector of the caller, who gives an empty one
  last,      \* history variable: the polynomials that were reduced last
  made       \* history variable: the entries of the matrices made since
             \* writeMatricesTo

vars == <<calls, store, mMatrixSaveCount, disk, reducedOut, last, made>>

Reducible == {m \in Monos : \E g \in DOMAIN Basis : Basis[g].lead <= m}

(* Either builder asks classicReducer once for each column, the fall-back  *)
(* reducer for each term: some reducer for each monomial that has any.     *)
ReducerChoices ==
  {choice \in [Reducible -> DOMAIN Basis] : \A m \in Reducible : Basis[choice[m]].lead <= m}

Multiple(choice, m) == Times(1, m - Basis[choice[m]].lead, Basis[choice[m]].poly)

SPoly(a, b) ==
  LET lcm == Max({Basis[a].lead, Basis[b].lead})
  IN  Plus(Times(1, lcm - Basis[a].lead, Basis[a].poly),
           Times(P - 1, lcm - Basis[b].lead, Basis[b].poly))

Downwards == [i \in 1 .. Degree + 1 |-> Degree + 1 - i]

(* What is left of f when no term can be reduced any more *)
Remainder(f, choice) ==
  FoldLeft(LAMBDA g, m : IF m \in Reducible
                           THEN Plus(g, Times(P - g[m], 0, Multiple(choice, m))) ELSE g,
           f, Downwards)

----------------------------------------------------------------------------
(* The matrix of some bottom rows *)

Columns(rows, choice) ==
  FoldLeft(LAMBDA cols, m : IF m \in cols \cap Reducible
                              THEN cols \cup Support(Multiple(choice, m)) ELSE cols,
           UNION {Support(f) : f \in Range(rows)}, Downwards)

EntryCount(rows, choice) ==
  LET tops == Columns(rows, choice) \cap Reducible
  IN  Cardinality({<<i, m>> \in (DOMAIN rows) \X Monos : rows[i][m] # 0})
        + Cardinality({<<top, m>> \in tops \X Monos : Multiple(choice, top)[m] # 0})

Span(rows) ==
  FoldLeft(LAMBDA S, f : {Plus(g, Times(c, 0, f)) : g \in S, c \in 0 .. P - 1}, {Nil}, rows)

(* reducedRowEchelonFormBottomRight, whose rows come in any order *)
Echelon(rows, choice) ==
  LET all == Span([i \in DOMAIN rows |-> Remainder(rows[i], choice)]) \ {Nil}
      leads == {Lead(f) : f \in all}
      pivots == {f \in all : f[Lead(f)] = 1 /\ \A m \in leads \ {Lead(f)} : f[m] = 0}
  IN  {s \in [1 .. Cardinality(pivots) -> pivots] : Range(s) = pivots}

----------------------------------------------------------------------------
Init ==
  /\ calls \in Calls
  /\ store \in Stores
  /\ mMatrixSaveCount = 0
  /\ disk = <<>>
  /\ reducedOut = <<>>
  /\ last = <<>>
  /\ made = <<>>

IsNext(op) == calls # <<>> /\ Head(calls).op = op

WriteMatricesTo ==
  /\ IsNext("writeMatricesTo")
  /\ store' = [file |-> Head(calls).file, minEntries |-> Head(calls).minEntries]
  /\ mMatrixSaveCount' = 0
  /\ made' = <<>>
  /\ calls' = Tail(calls)
  /\ UNCHANGED <<disk, reducedOut, last>>

SaveMatrix(entries) ==
  IF store.file = "" \/ entries < store.minEntries
    THEN UNCHANGED <<mMatrixSaveCount, disk>>
    ELSE /\ mMatrixSaveCount' = mMatrixSaveCount + 1
         /\ disk' = [f \in DOMAIN disk \cup {<<store.file, mMatrixSaveCount'>>} |->
                       IF f = <<store.file, mMatrixSaveCount'>> THEN entries ELSE disk[f]]

(* The fall-back reducer, for one polynomial or none *)
ReduceByFallback(polys) ==
  /\ Len(polys) <= 1
  /\ \E choice \in ReducerChoices :
       reducedOut' = SelectSeq([i \in DOMAIN polys |-> Monic(Remainder(polys[i], choice))],
                               LAMBDA f : f # Nil)
  /\ UNCHANGED <<mMatrixSaveCount, disk, made>>

(* A matrix, for more *)
ReduceByMatrix(polys) ==
  /\ Len(polys) > 1
  /\ \E choice \in ReducerChoices :
       /\ SaveMatrix(EntryCount(polys, choice))
       /\ made' = Append(made, EntryCount(polys, choice))
       /\ reducedOut' \in Echelon(polys, choice)

ReduceAll(polys) ==
  /\ ReduceByFallback(polys) \/ ReduceByMatrix(polys)
  /\ last' = polys
  /\ calls' = Tail(calls)
  /\ UNCHANGED store

ClassicReduceSPolySet ==
  /\ IsNext("classicReduceSPolySet")
  /\ LET spairs == Head(calls).spairs
     IN  ReduceAll([i \in DOMAIN spairs |-> SPoly(spairs[i][1], spairs[i][2])])

ClassicReducePolySet == IsNext("classicReducePolySet") /\ ReduceAll(Head(calls).polys)

(* classicReduce, classicReduceSPoly and classicTailReduce return what the *)
(* fall-back reducer does; only that comes into a vector here.             *)
ReduceSingle(poly, kept) ==
  /\ \E choice \in ReducerChoices :
       reducedOut' = <<Monic(Plus(kept, Remainder(poly, choice)))>>
  /\ last' = <<Plus(kept, poly)>>
  /\ calls' = Tail(calls)
  /\ UNCHANGED <<store, mMatrixSaveCount, disk, made>>

ClassicReduce == IsNext("classicReduce") /\ ReduceSingle(Head(calls).poly, Nil)

ClassicReduceSPoly ==
  /\ IsNext("classicReduceSPoly")
  /\ ReduceSingle(SPoly(Head(calls).a, Head(calls).b), Nil)

ClassicTailReduce ==
  /\ IsNext("classicTailReduce")
  /\ LET poly == Head(calls).poly
     IN  ReduceSingle(Only(poly, Monos \ {Lead(poly)}), Only(poly, {Lead(poly)}))

Next ==
  \/ WriteMatricesTo
  \/ ClassicReduceSPolySet
  \/ ClassicReducePolySet
  \/ ClassicReduce
  \/ ClassicReduceSPoly
  \/ ClassicTailReduce

Spec == Init /\ [][Next]_vars

----------------------------------------------------------------------------
(* All multiples of the basis *)
Multiples ==
  FlattenSeq([g \in DOMAIN Basis |->
                [i \in 1 .. Degree + 1 - Basis[g].lead |-> Times(1, i - 1, Basis[g].poly)]])

(* With the basis the results generate what was to be reduced, no less and *)
(* no more, whichever way they came about.                                 *)
ResultsGenerateTheSame ==
  Span(reducedOut \o Multiples) = Span(last \o Multiples)

(* Sets of any size leave results that are not zero, are monic and have    *)
(* leading monomials of their own that no element of the basis divides.    *)
ResultsAreReduced ==
  Len(last) > 1 =>
    /\ \A i \in DOMAIN reducedOut :
         /\ reducedOut[i] # Nil
         /\ reducedOut[i][Lead(reducedOut[i])] = 1
         /\ Support(reducedOut[i]) \cap Reducible = {}
    /\ \A i, j \in DOMAIN reducedOut :
         Lead(reducedOut[i]) = Lead(reducedOut[j]) => i = j

(* "Store all future matrices to file-1.mat, file-2.mat and so on.         *)
(* Matrices with less than minEntries non-zero entries are not stored."    *)
FilesAreNumbered ==
  LET stored == SelectSeq(made, LAMBDA entries : entries >= store.minEntries)
  IN  IF store.file = "" THEN mMatrixSaveCount = 0
      ELSE /\ mMatrixSaveCount = Len(stored)
           /\ \A i \in DOMAIN stored : disk[<<store.file, i>>] = stored[i]
=============================================================================
