# MathicGB: TLA+ models, model checking and proofs

MathicGB computes Groebner bases. These modules model first the parts of it
whose correctness depends on the order of events: the bookkeeping of S-pairs,
the insertion and retirement of basis elements, the concurrent hash map, the
parallel construction and reduction of matrices, signature bases. Then come the
parts that have to be right at the edges: the layout of monomials, fields in
words of fixed width, storage of matrices, lookups, the library interface, and
text input and output.

Sources are quoted relative to `src/src/mathicgb/` unless they begin with
`src/`. `PROJECT.json` maps every definition to the lines it models.

## 1. The system

| Component | State | Operations | Talks to |
|---|---|---|---|
| ClassicGBAlg (`ClassicGBAlg.cpp`) | options, the loops' local lists | constructor, insertPolys, step, computeGrobnerBasis | PolyBasis, SPairs, a Reducer, a callback |
| PolyBasis (`PolyBasis.cpp`) | entries (polynomial, retired, leadMinimal), MonoLookup | insert, retire, divisor, classicReducer, leadMinimal | MonoLookup |
| SPairs (`SPairs.cpp`) | BitTriangle of eliminated pairs, PairQueue, lcm hit cache | addPairs, addPairsAssumeAutoReduce, pop, the lcm criteria | PolyBasis |
| Reducers (`TypicalReducer.cpp`, `Reducer*.cpp`, `PolyHashTable.hpp`) | a queue of terms | classicReduce, classicReduceSPolySet, regularReduce | PolyBasis, SigPolyBasis |
| F4Reducer (`F4Reducer.cpp`) | fall-back reducer | the same, through a matrix | F4MatrixBuilder2, F4MatrixReducer |
| F4MatrixBuilder2, F4MatrixProjection | tasks, the map from monomials to columns, mIsColumnToLeft, one proto-matrix per thread | appendRow, createColumn, makeAndClear | MonomialMap, PolyBasis, mtbb |
| MonomialMap, FixedSizeMonomialMap | tables of buckets, chains of nodes, capacity, old tables | insert (locked), Reader::find… (lock-free), growth | F4MatrixBuilder2, threads |
| F4MatrixReducer | dense rows, pivots | reduceToBottomRight, reducedRowEchelonForm | threads |
| F4MatrixBuilder, QuadMatrixBuilder (the older builder) | tasks, the map of columns, matrices per thread | appendRow, createColumn, buildMatrixAndClear | a map of columns, PolyBasis, mtbb |
| QuadMatrix, SparseMatrix | blocks of indices and scalars, row descriptors | append, rowDone, take, write, read | – |
| SignatureGB (`SignatureGB.cpp`, `SigSPairs.cpp`, `SigSPairQueue.cpp`, `KoszulQueue.hpp`, `SigPolyBasis.cpp`, `ModuleMonoSet.cpp`) | signature basis, S-pairs by signature, syzygies, Koszul queue | step, processSPair, newPairs, popSignature | Reducer::regularReduce |
| Lookups (`StaticMonoMap.hpp`, `MonoLookup.cpp`, `ModuleMonoSet.cpp`) | lists or trees of monomials | insert, remove, divisors, the best divisor | PolyBasis, SigPolyBasis |
| Monomials (`MonoMonoid.hpp`, `MonoOrder.hpp`, `MonoProcessor.hpp`) | exponents, order data, hash | multiply, lcm, compare, hashOfProduct | all |
| Fields and rings (`PrimeField.hpp`, `PolyRing.hpp`) | the modulus | modular arithmetic | all |
| Library interface (`src/src/mathicgb.cpp`, `.h`) | the state of a stream of calls, an ideal under construction | StreamStateChecker, GroebnerInputIdealStream, IdealAdapter, CallbackAdapter | all algorithms |
| Text (`Scanner.cpp`, `MathicIO.hpp`) | a buffer over a file | match, readInteger, read and write rings and bases | fields, orders, polynomials |
| Command line (`src/src/cli/`), logging | options, log domains | actions of mgb, one of which reduces files of matrices | all algorithms |

The classic algorithm is sequential. ClassicGBAlg gives PolyBasis a new
element, lets SPairs add its pairs, retires what the element made redundant,
pops a group of pairs of one degree, has them reduced and inserts what is left.
The F4 reducer does a whole group at once: threads build a matrix over a shared
MonomialMap, then reduce its rows in parallel. The external libraries are
mathic (PairQueue, BitTriangle, divisor trees, heaps), memtailor (arenas) and,
if present, TBB; `mtbb.hpp` replaces TBB by sequential code.

What is hard, and what makes each part correct:

- **S-pair elimination.** Pairs are dropped because of other pairs that are
  themselves dropped, because of a cache, because of a graph, because an
  element was retired. Correct: the syzygies of all leads stay generated by the
  pairs reduced so far and those still to come.
- **Retirement.** An element leaves the lookup while bits, cache entries, flags
  and queued pairs still name it. Correct: live leads are minimal, flags are
  accurate, retired pairs never reach a reducer.
- **The concurrent map.** Readers walk chains without a lock while a writer
  inserts nodes and relinks them into a bigger table. Correct: no wrong hit, a
  key has one node, a miss under the writers' lock is genuine, walks end.
- **Matrix construction.** Tasks race to create columns and feed new tasks.
  Correct: one column for each monomial, one pivot for each left column, all
  columns that can be reduced get a pivot, and the tasks end.
- **Row reduction.** Delayed modulus, pivots claimed under a lock, row order
  restored. Correct: reduced row echelon form, whatever the interleaving.
- **Signatures.** The Koszul queue and the syzygies rely on increasing order.
- **The interface.** Calls in the wrong order, early destruction, failure.

## 2. Modules

| Module | What it is |
|---|---|
| `Monomials` | monomials with exponents and a component; divisibility, lcm, relative primality (MonoMonoid.hpp) |
| `SPairs` | the state of PolyBasis and SPairs; the simple and the advanced lcm criterion with their debug counterparts; the queue |
| `ClassicGBAlg` | the algorithm over that state, and its properties |
| `MCClassicGBAlg`, `MCClassicGBCases` | instances for TLC: orders, sets of inputs; five cases, which `MCAlgorithms` runs |
| `ClassicGBAlgProofs` | lemmas on divisibility and lcm; type correctness; no S-pair is lost: the inductive invariant and its proof; minimal leads and accurate flags, nothing reduced twice, sound groups, fast and slow criteria |
| `MonomialMap` | the concurrent hash map under the C++11 memory model |
| `MonomialMapSpec` | what the map promises the threads that share it |
| `MCMonomialMap` | instances for TLC: keys, hashes |
| `MonomialMapProofs` | type correctness, the load factor; the memory orders suffice; the chains of nodes hold what they should, and searches find it; `MonomialMap` implements `MonomialMapSpec`, step by step |
| `F4MatrixBuilder2` | the threads that build one matrix over the map of `MonomialMapSpec`, and the projection of its rows |
| `F4MatrixBuilder2Proofs` | columns, indexes and flags stay in step; the matrix has its promised form and spans what it was asked to |
| `MCF4MatrixBuilder2` | instances for TLC: polynomials in four variables, what is asked for |
| `F4MatrixReducer`, `MCF4MatrixReducer` | the parallel reduction of a quad matrix to reduced row echelon form, and its instances |
| `F4MatrixReducerProofs` | one claim for each pivot column, the bound of the sums, the echelon form |
| `F4MatrixReducerSpanProofs` | spans of rows as least spaces, combinations as sums; no step changes what the rows span; a reduced row echelon form is unique; the algorithm that is turned off computes the same one |
| `Polynomials` | polynomials in one variable over a prime field, as functions |
| `Reduction` | what a Reducer promises: division with remainder |
| `Reducers` | the six reducers that keep terms in a priority queue, shown to implement `Reduction` |
| `ReducersProofs` | what the queue, the table and the lead term hold is a sum; `Reducers` implements `Reduction`, step by step; results are reduced and congruent to what was given |
| `SigPolyBasis` | a basis with signatures, and what is looked up in it |
| `SignatureGB` | the signature basis algorithm: S-pairs by signature, syzygies, the Koszul queue |
| `MCAlgorithms` | instances for TLC of what has to come to an end, side by side: `SignatureGB`, `Reducers`, the cases of `ClassicGBAlg`, queries and inserts of `MonomialMap` |
| `RatioRanks` | the ranks that stand for signature/lead ratios |
| `RatioRanksProofs` | ranks stay in the order of the ratios, and room is made whenever there is none |
| `SigSPairQueue` | the queue of S-pairs by signature |
| `MonomialLookup` | lookups of divisors, and the set of module monomials |
| `MonoMonoid` | how monomials are stored, compared, multiplied and copied |
| `CoefficientField` | prime fields in integers of fixed width |
| `PolyHashTable` | the hash table of the hash reducers |
| `SparseMatrix` | sparse matrices in chains of memory blocks |
| `F4MatrixBuilder` | the older matrix builder, the merge of its rows and the order of its columns |
| `F4Reducer` | the Reducer that uses matrices, its fall-back and its files |
| `MatrixAction`, `MCMatrixAction` | the action `matrix` of the program mgb, and its instances |
| `StreamStateChecker` | the protocol of ideal streams |
| `LibraryInterface` | configuration, input stream, computation with callback, output stream |
| `LibraryInterfaceProofs` | announced counts are kept, and the output stream gets the basis in the order of the protocol |
| `Scanner` | the buffered scanner |
| `MathicIO` | reading and writing of rings and bases, as tokens |
| `MCComponents` | instances for TLC of thirteen components that share no state, side by side |

### The classic algorithm

A polynomial is its lead monomial: this is all that PolyBasis (insertion,
retirement, divisors) and SPairs look at. A basis element is its index.

| Variable | Code |
|---|---|
| `size`, `lead`, `retired` | PolyBasis::mEntries; the lead of a retired element is remembered for the properties only |
| `notMinimal` | the elements whose leadMinimal flag is false |
| `mEliminated` | the set bits of the BitTriangle |
| `mQueue` | the pairs in the PairQueue |
| `hitCache` | mBuchbergerLcmHitCache |
| `toInsert`, `toReduce`, `toRetire` | the local lists of insertPolys, as numbers of polynomials by lead |
| `oldGen` | the loop index of addPairs |
| `group`, `w` | spairGroup and the degree of step |
| `pc`, `computing`, `stopped` | which loop runs, constructor or computeGrobnerBasis, whether it ended early |
| `treated` | history: pairs whose S-polynomial was reduced |

One pass through a loop is one action: `Postpone`, `InsertIrreducible`,
`ReduceAndInsert` (the loop of insertPolys, with and without auto top
reduction), `SkipRetired`, `EliminateTrivial`, `EliminateEarly`, `QueuePair`,
`AddPairsEnds` (addPairs), `Retire`, `ReducePoly` (classicReducePolySet),
`PopRetired`, `PopUseless`, `PopSelected`, `GroupEnds` (pop and step),
`ReduceSPoly` (classicReduceSPolySet), `Finish`, `CallbackStops`, `BeginStep`
(computeGrobnerBasis).

Abstractions. A reduction that cancels the monomial m returns zero or any
polynomial whose lead is irreducible and less than m, which is what the reducers
guarantee about leads; F4 reduces a group jointly, but the leads it returns can be
matched one to one with pairs of the group whose lcms are larger, so they are
among these outcomes. Which divisor a lookup finds first is left open. The queue
breaks ties by `TermCount` (the numbers of terms, if sparse S-pairs are preferred)
and by the sum of the indices; of what is still equal any may be popped. A pair of
a retired element may be popped at any time, since its key may never have been
computed (computePairData returns early). Tails, coefficients, statistics and
autoTailReduce are not modelled.

Properties:

- `SyzygiesGenerated`: no S-pair is lost. For every two elements ever inserted
  the S-pair is a combination of settled pairs (reduced, or of relatively prime
  leads in an ideal) and pending ones. The criteria, the hit cache, the graph,
  the elimination bits and retirement all have to work together for it. It is
  what makes the result a Groebner basis.
- `PairsReducedOnce`, `GroupIsSound`: what pop hands out. `BookkeepingAccurate`
  is these two, LiveLeadsMinimal, LeadMinimalAccurate and CriteriaMatchSlow
  together.
- `EqualLcmsShareElement`: the S-pairs of one lcm in a group have an element in
  common. F4MatrixBuilder2 claims it "is not trivial to realize this", and
  asserts what follows from it. The criteria, the bits set by earlier pops of the
  same group and the order of the queue have to work together for it: with
  another rule for ties it fails.
- `LiveLeadsMinimal`, `LeadMinimalAccurate`: retirement and the flags.
- `CriteriaMatchSlow`: the fast criteria against the debug versions the code
  asserts them equal to.
- `Termination`: the algorithm ends, since every insertion that is kept enlarges
  the initial ideal.

The violation run is about a statement of the code that does not hold:
`EliminatedPairsNeedNoReduction` (in a module, the criterion for relatively prime
leads eliminates pairs that matter).

### The concurrent map

Threads look a monomial up without a lock; a thread that misses takes the
client's lock, looks again with a fresh Reader and inserts. When the capacity is
used up, insert builds a table of twice the size *out of the nodes of the old
one*, relinking them one by one while readers still walk the old chains. The
code accepts the misses this causes and asks of its clients to recheck.

| Variable | Code |
|---|---|
| `bucketCounts` | the tables, mOldMaps and then mMap; `mMap` is the last index |
| `published` | how much of the log precedes the store of mMap |
| `mCapacityUntilGrowth`, `mInsertionMutex` | the members of those names; the mutex as its holder |
| `keyOf` | the arena's nodes in order of allocation, and their keys |
| `log` | all stores to buckets and to mNext, in the order of the lock |
| `growing` | bucketIndex and node of the loops of the rehashing constructor |
| `seen`, `loaded` | what a thread's loads may return, see below |
| `reader` | the table a Reader refers to |
| `pc`, `key`, `rest`, `node` | where a thread is, what it looks up, the other key of findTwoProducts, the node it has come to |

*Memory.* All stores happen under the mutex, so they have one order, the log. A
thread has synchronised with a prefix of it (`seen`); a load may return any
store of its location that the prefix does not overwrite and that is not older
than one the thread loaded there before (`loaded`, read-read coherence). An
acquire load of a release store moves `seen` up, as do the lock and the
sequentially consistent load of mMap. memory_order_consume counts as acquire,
as compilers implement it. Without stale loads,
`ConstructorNotConcurrent` would hold, and no reader could walk in a circle.

*Locks.* MonomialMap.hpp has a mutex of its own, and F4MatrixBuilder2 holds
another whenever it inserts; one lock stands for both. `Synchronise` is a thread
that takes it to recheck.

*Values.* A value is written once, before its node is published, and never
changes; the node stands for it. A search that goes through insert returns the
node's value in the same way. An iterator goes through chains: `Chain`.

`MonomialMapSpec` is an insert-only map that threads know parts of. `entries`
maps to the keys of all nodes, `known` to those whose construction lies in the
prefix a thread has seen, `stale` to a Reader that is not of the current table,
or to any while the map grows; `asked` and `outcome` to the thread's query. It
says: no entry is lost, no hit is spurious, a miss of a thread that is not stale
is accurate for what it knows.

Properties: `EntriesAreFound`, whose parts are `EntriesComplete` (growth loses,
doubles and knots nothing), `OneNodePerKey`, `EntryCountExact` and
`MissIsAccurate`; `NodesSynchronised`, `LoadBounded`, the refinement
`KeepsPromises`, and `QueriesReturn` and `InsertsReturn`.

The violation run, `ConstructorNotConcurrent`: a comment justifies relaxed
stores in the rehashing constructor by its not running concurrently; it does,
with the readers of the old table, and a reader can follow a relinked mNext to a
node whose construction it has not synchronised with.

EntryCountExact holds until a clearNonConcurrent, which does not reset the
capacity; afterwards only LoadBounded does, which says that the count never falls
short. (The older F4MatrixBuilder is the one caller, and does not ask for the
count.)

### The matrix builder

The caller splits S-pairs into rows of their halves (`SplitLead`,
initializeRowsToReduce), threads turn tasks into rows over a shared map of
columns, and the caller deals the rows to the top and the bottom of the matrix.
A column that the basis can reduce feeds the task of its reducer's row.

| Variable | Code |
|---|---|
| `phase`, `input` | where buildMatrixAndClear is; what was added to mTodo |
| `tasks` | the tasks, and those fed, that no thread has taken yet |
| `mMap`, `bucketCount`, `growing` | the map, and the state of its table |
| `stale`, `known` | what a thread's Reader may miss, as in `MonomialMapSpec` |
| `mIsColumnToLeft`, `mCreateColumnLock` | the members of those names |
| `pc`, `row` | what a thread does (`reader`: about to make one; `lock`: in createColumn) and the row it is appending, with the terms to come |
| `rows` | the rows of all proto-matrices |
| `top`, `bottom` | TopBottom's rows |

A monomial is its weight under a vector that orders the monomials of the instance
as the monoid does. Scalars are left out, except that equal terms of an S-pair
may cancel or not. A hit needs the column to be there; a miss is what
`MonomialMapSpec` allows (`MayMiss`), and growth is its StartGrowth and
EndGrowth. appendRow looks two monomials up at once and retries with a fresh
Reader after createColumn made them; appendRowSPair and the first of an odd
number of terms take what createColumn returns.

Properties:

- `ColumnsInStep`: columns, indexes and flags agree whatever threads create
  them; the recheck under the lock is there for it.
- `MatrixIsSound`, in three parts. `LeftColumnsGetRows`: at every moment each
  left column has a row, or a task for one, so the matrix ends closed under
  reduction. `RowsFaithful`: a row that was looked up in pieces, through Readers
  of different tables, is the row that was asked for. `TopIsTriangular`: the form
  the header promises for the result.
- `RowSpaceKept`: no S-polynomial is lost, whatever the order of the rows.
- `BuildEnds`: the retries and the tasks that feed tasks end.

### The matrix reducer

F4MatrixReducer subtracts multiples of the top rows from the bottom rows until
nothing is left on the left, and brings what is left on the right to reduced row
echelon form, by one of two algorithms.

| Variable | Code |
|---|---|
| `qm` | the quad matrix, rows as functions from columns to scalars |
| `phase`, `todo` | which parallel loop runs, and the rows it has not done yet |
| `tmp`, `rowOrder` | the members of those names in reduce |
| `lower` | what reduce returns |
| `pivotRowOfCol` | of reduceToEchelonFormSparse |
| `dense`, `leadCols`, `isPivotRow`, `columnHasPivot`, `nextReducers` | of reduceToEchelonForm |
| `reduced` | the pivot rows, or the result |

The rows of one loop do not read each other but in the sections under the lock,
where they append to tmp and claim pivots. One step does a row, and steps come in
any order. A dense entry is a sum that is not taken modulo the modulus before the
code does that; `Next` chooses between the algorithms as the code does, by the
share of entries. A loop over the columns or pivots is `Folded`, which gives what
is there after its last turn; std::sort is `InOrder`, where an element's place is
the number of those before it. The third algorithm, which a constant turns off, is
a function that `ShrawanAgrees` compares the result with.

- `RowSpaceKept`: rowOrder leads from tmp back to the right rows, whatever the
  order of the threads; what reduce returns spans the right parts of all
  combinations with nothing on the left; later steps keep that span.
- `PivotsClaimedOnce`: threads that find one lead agree on one pivot.
- `SumsFit`: the delayed modulus. An entry is at most a scalar plus a product for
  each column that can have a pivot.
- `EchelonReduced`, `ReductionEnds`.

### The reducers

`Reducers` is TypicalReducer with its six subclasses. A queue entry is a chain of
spans, runs of terms whose first is the current one; what the subclasses do
differently (add up when comparing, chain entries, keep coefficients in a hash
table) is a choice by `reducer`. mathic's heaps, tournament trees and geobuckets
are external: any entry of the largest monomial may be on top, and two like
entries may be compared, and so be merged, at any time (`Deduplicate`).

`EntriesAreSound` relates the queue to the table and chains to the term taken
last; its part `ResultsAreNormal` compares results with the input by evaluation
where the basis vanishes. `ImplementsDivision` is a refinement: with the terms
that are in the queue, the table and mLeadTerm added up to one polynomial, every
step is a step of `Reduction` or changes nothing there. `ReductionsEnd`: every
call returns. `InputsAssumption` says what is asked of clients: a prime modulus,
monic elements of the basis whose terms descend, calls with such polynomials, and
no product beyond the largest monomial.

### Signature bases

`SignatureGB` models SignatureGB, SigSPairs, ModuleMonoSet and KoszulQueue, over
`SigPolyBasis`. Polynomials have two variables and coefficients modulo 2, so
that a polynomial is the set of its monomials.

| Variable | Code |
|---|---|
| `options` | the constructor's parameters and the order of signatures |
| `GB` | the basis: signature, polynomial, lead, ratio; `rep` is a history variable, the element of the free module that the code never computes |
| `queue` | the S-pairs in SigSPairQueue |
| `Hsyz`, `Hsyz2` | the signatures of syzygies, as compared and as given out |
| `mKoszuls` | the Koszul queue |
| `known` | mKnownSyzygyTri |
| `current`, `finished` | the signature popped last; whether the loop has ended |

A step pops all pairs of the least signature (`Pop`) and is then one of
`SignatureCriterion`, `KoszulCriterion`, `PrimePairs`, `PushKoszuls`,
`ReduceSingular`, `ReduceToZero`, `ReduceToNewElement`; `Postprocess` undoes
Schreyering and the reversal of components. mBreakAfter has its default, which
ends nothing early. The queue, the divisor lookup and the ranks of ratios are
used as sets and as an order here; `SigSPairQueue`, `MonomialLookup` and
`RatioRanks` show that the code's versions behave so.

- `SignaturesAreTrue`: every signature in the basis and in the tables of syzygies
  is the leading term of an element of the free module with that value. With it
  go `KnownSyzygiesHold` (what a debug build asserts of pairs marked by base
  divisors), `SyzygiesAreMinimal` (removal of multiples is off, so that order of
  arrival has to do its work) and `NoSingularElement`.
- `SignaturesAscend`: signatures are dealt with in ascending order, once each.
- `FinalSignatureBasis`: the result is a Groebner basis and a signature basis,
  whatever options and orders are used.
- `ComputationEnds`.

`RatioRanks` inserts ratios between others until there is no room, and spreads
them out anew: `RanksCompareRatios`, `SpreadingMakesRoom`. `SigSPairQueue` keeps
for each element a column of rows, sorted once, of which only the front has its
signature computed; the queue of columns is mathic's. `PopsSmallest` compares
what a call pops with the definition of an S-pair's signature. The elements of
both are given; in the algorithm they come out of reductions.

### Monomials and lookups

`MonoMonoid` is an array of words of `Width` bits: component, exponents, degrees,
hash. Its state is a monoid and two monomials; actions multiply, divide, take
colons and lcms, set exponents. Orders are turned round as MonoOrder and
MonoMonoid do it, and `CompareIsOrder` compares the result with the order that
was asked for. `DataMatchExponents`: degrees and hash, which every operation
updates in its own way, are those of the exponents. `HintTrueAgrees` is about
comparing two words at once; `AmpleCapacitySuffices` about overflow;
`QueriesAgree` about everything that is answered about products and lcms without
forming them; `CopiesCompareAlike` and `CopiesAnswerAlike` about copies in
monoids that store no hash or no degrees. Run together as `MonomialsAreRight`.
The words are modelled as 4 bits, so that exponents reach their limit.

`MonomialLookup`: the query is under way while a list or a tree, both external,
hands over divisors in any order. `AnswersIgnoreOrder` compares the answer with
the best of all divisors, defined with no regard to an order; `SetRemembersAll`
is about ModuleMonoSet with and without removals.

### Fields and tables

`CoefficientField` has one action for each operation PolyRing offers, on words of
the widths of a `shape` (of T, of T + T after integer promotion, of the type
products are formed in, of integers converted). `ModulusAccepted` says that
exactly the primes that are small enough are accepted (the code uses
Miller-Rabin), `FieldIsExact` that nothing wraps around, or two that do cancel.

`PolyHashTable` has InsertNode, AddToNode, RemoveNode and Clear with the
doubling of its buckets: `TableHoldsSums`.

### Storage of matrices

`SparseMatrix` has two matrices over one memory. A block that is full is chained
behind a new one, to which pending entries move; take, copies, appended rows, and
reading and writing of files are actions. Columns increase within a row, and
entries are pending in the first matrix only, which is how the code uses it.
`RowsAsAppended`, `WholeChainIsCounted`; what SparseMatrix.hpp says of entryCount,
`EntryCountIsSum`, does not hold (section 6). `dropped` is history: it records
that a chain has lost blocks with rows, wherever these rows go later. An appendRow
whose loop does not end sets `hangs`, and is no step.

`F4MatrixBuilder` is one build by threads that append rows to matrices of their
own over the map (used as `MonomialMapSpec` has it: a thread may miss what it
has not synchronised with), the merge of these and the order of the columns.
`MatrixIsAsAsked` is the class comment's promise. What buildMatrixAndClear should
reset for the next build is not modelled.

`F4Reducer` uses a builder and F4MatrixReducer as they promise, leaves single
polynomials to its fall-back, and numbers files of matrices:
`ResultsGenerateTheSame`, `ResultsAreReduced`, `FilesAreNumbered`. The caller's
vector is empty, as everywhere in the program: with a single polynomial the
fall-back replaces it and with a matrix polynomials are appended.

`MatrixAction` is the action that reads such files: what it computes, stores,
compares and refuses. Rows are tuples of scalars; the .pbm pictures are left out.
`Debug` says whether MATHICGB_DEBUG is defined, on which it depends how much of a
file is read: with it `ReducedFormIsOfMatrix` holds, without it the run
`matrix_action` shows that it does not.

### The library interface

`StreamStateChecker` has for each call a condition and the state after it.
`LibraryInterface` is a client that configures, sends an ideal through the
checker (in any order the protocol allows; calls that throw change nothing and
are left out), has the computation call its callback, and gets a result, any of
`Results`, through a checked stream of its own. `LibraryKeepsItsWord` has these
parts: the basis is what was sent although exponents go through one array
(`BasisIsSent`), its terms descend (`BasisDescends`), as many
polynomials came as were announced, and for each as many terms (`ClaimsAreKept`), the order is the one asked for and is global
(`OrderIsGlobal`, `VariablesAsNamed`), output follows the protocol
(`OutputFollowsProtocol`), and the matrix reducer is not made for a modulus that
does not fit (`MatrixModulusFits`).

### Text

`Scanner` keeps a character, a buffer and a file. Matching a word may move and
refill the buffer between any two characters. `NothingLost`; `AnswersFitText`
compares each answer (a match, an integer of a given width) with the text.
An operation that throws leaves a scanner that is not used again.

`MathicIO` reads and writes tokens, which Scanner makes of characters, so two
numbers never stand side by side. `TextKeepsDocument`: what is written is read
back as it was, with all the ways an order can be given, gradings and components.
Text that is refused ends the program. Orders are those that the reader makes
(variables compared from the right), written as makeOrder gives them back.

## 3. Runs, bounds and fairness

### The classic algorithm

| Run | Instance | Question |
|---|---|---|
| `classic_gb` | 2 variables, exponents 0..2, all inputs of 3 leads, groups of 2, auto top reduction in the constructor only, size limit 3, stopping callback | nothing lost or done twice, also when the computation is cut short; every action of ClassicGBAlg occurs |
| `algorithms` | five cases side by side: `squareFree`, 3 variables, exponents 0..1, inputs of 3 distinct leads, the default options; `chain`, 2 variables, exponents 0..3, inputs of 3 distinct leads of degree 3; `graph`, 4 variables, exponents 0..2, one input of 4 leads; `groups`, the four square-free leads of degree 3 in 4 variables, groups of 3, sparse S-pairs preferred; `noAuto`, rank 2, exponents 0..1, auto top reduction off, size limit 3, stopping callback | minimal leads, nothing reduced twice and termination with insertions fed back; chains of redundant elements and equal lcms; a pair only the graph can eliminate, fast against slow criteria; S-pairs of one lcm share an element; the other branch of insertPolys, early ends, different components |
| `classic_gb_module` | rank 2 | the disagreement above |

`MaxExp` bounds exponents and closes the monomials under lcm; remainders range
over all irreducible monomials within it, so reductions to a new element, which
drive the algorithm, occur at every point. `MaxIndex` is the code's own limit on
indices (the width of the queue's index type), made small: the state
`overflow` stands for the exception addPairs throws. Four or five elements are
enough for a retired element with queued pairs, for a cached hit that was
retired, for cycles of eliminations with equal lcms, and (with four generators
of `GraphInputs`) for a graph of four nodes. `ChainInputs` has no repeated leads,
which `MCInputs` has.

`algorithms` runs these cases next to the other algorithms that have to come to
an end: the signature bases, the reducers and the liveness of the map, which share
no state (`part` says which runs).

Fairness: weak fairness of the algorithm's own steps. One thread runs them and
nothing else can hold it up. `Termination` is asked of all five cases; fairness
is stated there of `Tick`, a bit that every step flips until the algorithm is
done. There is no deadlock, so that is fairness of the whole step, and TLC sees
at once where it is enabled. `Termination` counts `overflow` as an end, because
the code throws there. A loop that inserted for ever would therefore be stopped
by `MaxIndex` and pass; what the run excludes is a loop that goes on without
inserting, such as one that reduces what was retired and is never taken off the
list. That insertions come to an end is Dickson's lemma and not shown here.

### The concurrent map

| Run | Instance | Question |
|---|---|---|
| `monomial_map` | 2 threads that query and insert, 3 keys, tables of 2, 4, 8 buckets, one clear | nothing lost, no duplicates, exact count, accurate misses, synchronised nodes, load factor, refinement of MonomialMapSpec |
| `algorithms` | one querier, one inserter, all keys in one bucket, one clear | queries and inserts return |
| `monomial_map_race` | – | the disagreement above |

The tables hold 1, 2 and 3 entries (minBucketsPerEntry 3, rounded up), so three
keys make the map grow twice and fill the last table; the second growth has two
nodes to move. A Reader can be two tables behind. With the hashes 1, 5 and 9
all keys collide in the small tables, and one separates in the last. `SizeMax`
stands for the limit of size_t: with 15, a third growth throws. Two threads are
enough for every pairwise race: writers exclude each other, and readers do not
write. The log is bounded by itself: each node is constructed once and moved
once for each growth. The map is cleared once, at any point between calls, and
followed from there until one entry is in it again (`OneEntryOnceCleared`).

Fairness in `algorithms`: each thread's own steps are weakly fair (a
thread is not descheduled for ever; `Call`, the client's choice, is not fair).
That is not enough: a reader of an old table that keeps loading a stale mNext
from one node and the relinked one from another walks in a circle. C++11 29.3,
paragraph 13 asks that stores become visible in a finite time; `AdvanceLatest`
with strong fairness says so for each node's mNext. A query then returns,
because the latest stores never form a circle and growths are finite in number.

### The matrix builder

| Run | Instance | Question |
|---|---|---|
| `f4_builder` | 2 threads, six polynomials of two or three terms in four variables, five inputs | all properties of the section above |

The inputs: two S-pairs of one lcm that share an element, which is what F4Reducer
asks for; two that share none, which the comment of initializeRowsToReduce wants
to work all the same, and whose second S-pair becomes a row that can cancel to
zero; two polynomials, one with an odd and one with an even number of terms; and
one S-pair with too few column indexes, for its own column or for its rows'
(`maxColumns`, numeric_limits<ColIndex>::max() made small). The first table holds
one entry (`InitialBucketCount`), so a matrix of five columns makes the map grow
three times, while the other thread looks up.

Fairness: weak fairness of each thread and of the caller. TBB runs every task it
was given, and a thread in a task is not descheduled for ever; the lock need not
be fair, because columns, and so reasons to hold it, are finite in number.

### The matrix reducer

| Run | Instance | Question |
|---|---|---|
| `f4_reducer` | modulus 5, 2 left and 4 right columns, 2 top rows, no bottom row or 3 of 5 given ones | all properties of the section above |

The bottom rows are chosen so that one is zero on the left, one ends with zeros,
and others become equal, multiples of each other or zero; with repetition, since
equal rows race for one pivot. The share of entries below which the sparse
algorithm is used, 2 per cent in the code, is a constant, and 70 here, so that
matrices this small reach both algorithms. Five is small, but
large enough for sums far beyond the modulus; the bound in `SumsFit` grows with
the number of columns as the code's does, so that 16-bit scalars and fewer than
2^32 columns stay below 2^64.

Fairness: weak fairness of the steps of threads and caller; TBB runs all rows.

### Signature bases and reducers

| Run | Instance | Question |
|---|---|---|
| `algorithms` | 7 inputs of 2 or 3 polynomials in x, y modulo 2, 16 combinations of 4 options, 4 orders of signatures; 6 reducers, 3 sequences of calls over 3 multiples of x^3 - x modulo 5 | signatures and syzygies are true and ascend; Groebner and signature basis; division with remainder; both end |

The inputs are small enough to be computed in full and are chosen so that each
criterion applies, Koszul syzygies are postponed and released, elements reduce to
zero, and singular ones appear. One instance is deterministic but for the order
in which pairs of one signature are tried; options, orders and inputs make up the
states. The reducers' calls begin a second reduction with what the first left.

Fairness: each of the two is one sequential loop, `WF_tick(Tick)`. `tick` flips
with every step while the loop has not ended; neither loop can deadlock before
that, so fairness of Tick is fairness of the whole step.

### The other components

| Run | Instance | Question |
|---|---|---|
| `components` | thirteen components that share no state, side by side; `part` says which runs | all properties of their sections, in nine bundles |
| `sparse_matrix_entries`, `lookup_ties`, `library_callback` | the same instances, one statement of the source each | the disagreements of section 6 |
| `matrix_action` | the instance of `MatrixAction` in a release build | the disagreement below |

Bounds: 8 monoids (each base order, with the component first, in the middle and
last, two or three variables, one or two gradings or none, each part of the array
left out once), words of 4 bits; 3 configurations with moduli on both sides of
2^16 and 5 orders; rows of two columns, quanta of 0, 1 and 2 entries and blocks from 1 entry on, so that a
row outgrows a block twice and blocks without rows are deleted with and without a chain behind them; 4 shapes of fields and
moduli up to 2047, with a strong pseudoprime and prime squares in the list; 5
ratios and 31 ranks; 5 keys of which pairs collide; 3 inputs and 2 threads for the
old builder; 3 elements in two components for the lookups; 4 elements for the
queue by signature; every text of up to 3 characters from a small alphabet for the
scanner, with a buffer of one as in debug builds; rings of 2 variables and all
sequences of up to 3 tokens for the format; two projects for mgb. They are chosen
so that what the properties are about does happen: words overflow, blocks are
chained, ranks are spread, tables double, threads miss a column that is there,
buffers are moved within a word.

Deadlock is not checked: a client stops when it has its answer, a field has been
computed on, a text is at its end or was refused.

`components` asks of sparse matrices and of minimalLeadInSig what is left when
the disagreements of section 6 are set aside, and says so in the property: columns
and counts of matrices whose chain has lost no block (`dropped`), the scalars of
all; the answer of minimalLeadInSig up to which way ties of terms are broken. A
client that has set a null callback stops where the code calls it
(`phase = "crash"`).

## 4. Proofs

`TypeCorrect` (`ClassicGBAlgProofs`): `Spec => []TypeOK`.

`CriteriaSound` (`ClassicGBAlgProofs`): for ideals, `Spec => []SyzygiesGenerated`
for every ring, order, degree function, input and option. TypeOK alone does not
carry it; the inductive invariant `IInv` adds

- `Inserting`: what toRetire and pc say about each other while an element is
  being inserted, and that its pairs with what it makes redundant are treated;
- `RetiredDivisible`: a retired lead is a multiple of a live one;
- `EliminatedBelow`: a pair that was eliminated, of elements not retired, is
  generated by the settled pairs and by pending pairs *of other lcms*, hence of
  smaller ones. A criterion may use it as an edge, and no cycle of
  eliminations justifies itself.

The hard step is retirement, which drops the queued pairs of the retired
element. `LostPairs` argues by a minimal counterexample: a lost pair (r, y) is
joined through the element n that made r redundant, since (n, r) is settled and
(n, y) is pending, or eliminated and so joined by pairs of other lcms; if one of
these is lost too, it comes before (r, y).

The assumptions are those of `Monomials` (the order is total and refines
divisibility), the ranges of the options, and `IsIdeal`: for modules the
statement is false, as `classic_gb_module` shows.

`ResultSatisfiesCriterion`: when the queue is empty at the end, the settled
pairs alone generate all syzygies (Buchberger's criterion for the result).

The last part of the module has another inductive invariant, `BasisInv`, from which
the parts of `BookkeepingAccurate` follow, in modules and with every combination
of options: `NoPairTwice`, `LeadsStayMinimal`, `FlagsStayAccurate`,
`GroupsStaySound` and `CriteriaAgree`. Beside these properties themselves it has
what is known about the newest element while it is inserted (`NewestIrreducible`:
nothing live divides it, and it divides what it retires; `RetirementsDone`), that
its pairs with the elements that addPairs has not come to are neither queued nor
eliminated (`ColumnInProgress`, without which addPairs could queue a pair a second
time), and that only pairs of one component are queued, since the criteria are
asked about no others. CriteriaAgree then is about what divides an lcm: a cached
hit that is still live is one of the elements that the slow loop would find, and
with at most two components the shortcut answers as the graph.

### The concurrent map

All for every finite or infinite set of threads and keys, every hash function
and every table limit.

`TypeCorrect` and `LoadStaysBounded` (`MonomialMapProofs`): `IInv` adds to
TypeOK and LoadBounded who holds the lock (a thread past `locked` does) and that
`growing` is null unless somebody grows. LoadBounded is needed for TypeOK itself:
it keeps mCapacityUntilGrowth from going below zero.

`OrdersSuffice` (`MonomialMapProofs`): `Spec => []NodesSynchronised`. The
invariant `OInv` adds what the log looks like: a node's first store constructs
it (`Births`), its mNext is stored only after that, and relaxed
(`SuccessorStores`), pointers to it only after that (`ValuesBorn`), and every
store since the current table was published constructs a node or is a release
(`StoresSincePublished`). So whatever a reader of the current table loads from a
bucket was released, or lies in the prefix it got with mMap; and a successor
found there is older than the node itself. `ConstructorNotConcurrent`, which
drops the restriction to the current table, shows that it is needed.

`EntriesAreThere` (`MonomialMapProofs`): `Spec => []EntriesAreFound`. A chain
is what every closed set of nodes that holds its first node has in common; a set
is closed if the latest stores lead out of no node of it. So what is reached needs
no induction: to show that a chain keeps clear of a node, name a closed set that
does. `ChainInv` says of the current table that each bucket's chain stays in its
bucket (`BucketsPure`) and leads to every node that was there when the bucket was
stored (`BucketsLead`, which is about stale stores as well: that is what readers
load), that no node leads back to itself (`Acyclic`), that a search still has
before it every node of its key that its thread has synchronised with
(`SearchLeads`), and that the stores of an insertion are seen both or not at all
(`SeenWhole`, `BirthsPaired`). While the map grows it says instead which nodes are
in the new table (`MovedAreThere`) and where the others remain (`OthersRemain`):
the chain that is being moved is cut in two at every step. It is needed as a
whole: one entry can be lost only if a chain was knotted before, and a search
misses an entry only if a store was stale in a way that these parts exclude.

`PromisesKept` (`MonomialMapProofs`): `Spec => KeepsPromises`, the
refinement. Each action is shown to be a step of `MonomialMapSpec` or to leave
its variables as they are; the misses are justified by ChainInv. The attempt showed
a defect of the refinement mapping that TLC cannot see: in `Outcome`, the cases of a
thread that searches and of one that has its answer overlapped.

Only model-checked: the two liveness properties.

### The matrix builder

`ColumnsStayInStep` (`F4MatrixBuilder2Proofs`): `Spec => []ColumnsInStep`, for
every set of threads, polynomials and reducers, and whatever F4Reducer asks for.
The invariant adds that a thread that holds the lock is in createColumn and its
column is not there (`HolderNeedsColumn`: it looked under the lock, and only the
holder inserts), that indexes are handed out one by one (`IndexesExact`), and
that S-pairs not yet split were asked for, so that their leads can be reduced
(`SPairsAsked`). The lookups without the lock may miss what they like.

`MatrixStaysSound`: `Spec => []MatrixIsSound`, with `RowsInv` added to the
invariant above. RowsFaithful says what a finished row is; for a row in progress
`InProgressOK` has to say which terms of its task, or of its two halves merged,
the columns found so far stand for, also when half of a pair of lookups hit and
the retry has to begin anew. `TasksOK` makes tasks such that their first product
is the lead asked for, which is how a row comes to begin in its own column;
`ProjectionOK` is TopIsTriangular for the rows dealt so far, and
LeftColumnsGetRows counts the task in hand. The one assumption about the products
of monomials and polynomials is that the set of monomials has them
(`ProductsAssumption`); TLC evaluates it on the instance.

`RowSpaceStaysKept`: `Spec => []RowSpaceKept`. `LinksOK` adds that the rows asked
for (waiting, in progress, finished or dealt) connect the polynomials of each
lead as the S-pairs that were asked for do, but for pairs whose halves are equal
and which so may cancel to nothing. Connected is stated with closed sets, as in the
map. A row that is dropped because it is empty had equal halves: that is
`DescendingEqual`, that two descending sequences of the same elements are the
same. The prover has no induction, so it looks at the least position where
the two differ.

### The matrix reducer

`PivotsStayClaimedOnce`, `SumsStayFit` and `EchelonFormReached`
(`F4MatrixReducerProofs`), of `PivotsClaimedOnce`, `SumsFit` and `InEchelonForm`,
follow from one inductive invariant, `Inv`, that TLC has checked with thresholds
that make it take either algorithm or both. They hold for any matrices that
keep the builder's promise (`QuadMatricesAssumption`: the top left is square and
has a row for each column) and any modulus without divisors
(`ModulusAssumption`); the field needs inverses, and `InverseExists` derives them
from that: the least positive remainder that a multiple of a scalar leaves divides
the modulus, and so is 1.

None of the three properties is inductive. The echelon form is a statement about
the last step, which copies rows and proves nothing of them; what makes it true
was established one iteration after another. `Inv` has, in the dense algorithm,

- `RowsReduced`: a row that is done has nothing in the columns of all earlier
  pivots but its own lead, and a row still to do has nothing in those of the
  pivots that reduced it in iterations before (`OldCols`). The pivots of this
  iteration, `reduced`, are copies that were taken before, so they may be
  nonzero in each other's columns; `ReducersInOrder` says that they are sorted and
  have nothing in `OldCols`, so that reducing by one of them does not bring back
  what another has cleared.
- with that, the bound: at most one product has been added for each pivot column,
  and a row is never reduced twice by pivots of one column. This is why the sum
  is bounded by the number of columns, and not of iterations or of threads.
- `RowsSettled`, `NextReducersClaim`, `ClaimsAgree`: a row that is done begins in a
  column with a pivot, its own or that of the thread that had the lock first. So
  an iteration that finds no pivot leaves nothing but pivots, reduced by all others.

In the sparse algorithm `InSparse` says that each pivot begins in its column, and
on the way back that the rows that are done have nothing in other pivots' columns.

`RowSpaceStaysKept` (`F4MatrixReducerSpanProofs`): `Spec => []RowSpaceKept`, for
all three of its parts. `Inv` is strengthened by two invariants:

- `ReduceInv`, of the loops of reduce: a row of tmp holds the multiples that
  LeftMultiples finds for the bottom row that rowOrder names, whatever order the
  threads came in, no bottom row is taken twice, and `lower` has the rows that
  the multiples leave on the right, but for those that are zero.
- `EchelonInv`, of either algorithm: the space of the rows in play is that of
  `lower` (`LowerInPlay`). The dense algorithm reduces by copies of the pivots
  while the pivots themselves are reduced on, so a copy may be a row that no
  longer exists; `CopiesInStep` says that a copy is still the row modulo pivots
  that begin after it, and so lies in the space. That is seen from the last
  pivot to the first (`HeldFromTheLast`). A row that is cleared was zero modulo
  the modulus.

Span is a fold over a set, which the prover cannot unfold; `SpanIsLeast` shows
that it is the least space that holds the rows, and that is all that the rest
uses. A loop that adds multiples of rows ends with a row of sums (`Combined`), and
combinations combine (`CombinationsCombine`). So the rows of which some multiples
of the top rows leave something of Span(lower) on the right and nothing on the
left are a space (`ReducibleIsSpace`), which holds every row of the matrix and
thus every combination of them; and one that had nothing on the left itself is
left with just that, since the top rows are triangular (`NoMultiplesLeft`). This
is `LowerSpansRest`: what reduceToBottomRight returns loses nothing and makes
nothing up.

`EchelonIsReduced` (`F4MatrixReducerSpanProofs`): `Spec => []EchelonReduced`, so
that also `ShrawanAgrees` holds: whatever order the threads come in and
whichever rows become pivots, the rows at the end are those that the sequential
algorithm of rowReducedEchelonMatrix, which is turned off, computes from the same
matrix. The argument is that there is only one answer (`FormIsUnique`): a row that
the rows of a reduced form span begins where one of them begins (`LeadsOfSpan`),
so that the rows of two forms of one space that begin in the same column differ
by a row that begins nowhere. It takes `RowSpaceStaysKept` and `InEchelonForm`
for the parallel algorithms; for the sequential one, the invariants of its two
loops. `EchelonSoFar`: the pivots are rows already treated and begin in their
columns, with 1 there; those rows are pivots or zero; and the same spaces
hold the rows as held the matrix. `FormSoFar`: a row that the second loop has done
is zero in the columns of the other pivots (it goes from the row's own lead to
the right, so that what a pivot brings in is to its right and still to be
cleared).

There is no induction in the prover, so that a loop is argued about by its first
turn that goes wrong (`EachTurn`, from the well-foundedness of the numbers), and
that a function is there which gives the state after each turn follows in the
same way (`LoopTurns`). That a set sorted by places is in order (`PairsInOrder`,
`NumbersInOrder`) is counted: the elements before the smaller are a proper subset
of those before the larger.

### Ranks of ratios

`RanksStayInOrder` and `RoomIsMade` (`RatioRanksProofs`): under `RanksSuffice`,
`Spec => []RanksCompareRatios` and `Spec => []SpreadingMakesRoom`, the first half
of SignaturesInOrder. RanksSuffice asks for four ranks for each element and four
more: Rank is size_t, and an element takes more than four bytes of memory. TLC
evaluates it on the instance. The invariant (`RanksInv`) says that elements of one ratio have one rank, that
ranks of different ratios are at least 2 apart and at least 2 from either end: that is
what HasRoom leaves on both sides of a new rank, and what ratioRank needs to find a
number strictly between two ranks for a ratio that no element has. Ranks spread
anew are 4 apart (`SpreadIsSpaced`, which counts the ranks below one), so
that the middle of any two has room (`MiddleIs`).

### The reducers

`DivisionImplemented` (`ReducersProofs`): `Spec => ImplementsDivision`, under
`InputsAssumption`, which TLC evaluates on the instance. It is for all six kinds
at once, for every basis, every sequence of calls and every modulus that is a
prime. `StoresAreSound` is the inductive invariant `RInv`:

- `SoundStore`: entries are chains of spans, descending and nonempty, that share
  their first monomial; a hashed reducer has exactly one entry for each
  monomial of its table; in Dedup an entry is a single term.
- `StageInv`: between calls nothing is in store.
- `LeadInv`: what else is in the queue when the leading term has been found is
  below it, and while like terms are added up, not above it.
- `ResultInv`: the result descends, without zeros, and ends above all that is left.

With the six kinds of storage read as one polynomial, `Waiting`, an insertion adds a
multiple of a polynomial to it, whichever entries are split, merged or dropped
because the table has the term already, and a turn of the loop that looks for the
leading term moves terms and changes nothing. That the largest entry is
on top makes the term that is found the leading one of the whole sum (the table
can hold nothing above the queue, since each of its terms has an entry), and
that all like terms are added before the loop ends makes its coefficient right. A
term that has cancelled to zero is dropped and the loop goes on.

Polynomials are sequences, and sums over them recursive functions; what the proofs
need of them (`TotalTurns`, `TotalChanged`, `TotalJoined` and others) is derived turn
by turn, as for the matrix reducer.

`EntriesStaySound`: `Spec => []EntriesAreSound`. Its first three parts follow from
`RInv`; the last, ResultsAreNormal, says that a result is congruent to what was given
up to a constant, stated by evaluation at `Zeros`, the points where the whole basis
vanishes. It needs two more parts, with which `RInv` makes `NInv`:

- `SumInv`: at such a point, what is left and the remainder so far have together the
  value of the polynomial that was given (0 for an S-polynomial and for a
  regular reduction, whose beginnings are multiples of basis elements).
- `OutcomesInv`: no element reduces a term of the remainder, except for the first of
  a tail reduction, and each finished result is settled and congruent.

SumInv is carried by the steps of Reduction that the steps of the reducers have been
shown to be: keeping moves a term from one summand to the other (`KeepSums`), and
cancelling adds a multiple of an element, which is worth 0 (`MultiplesVanish`, from
`MultipleWorth` and `PowerAdds`). How a reducer stores its terms does not come into it
again. `MonicScales` gives the constant when a result is made monic: the inverse that
`InverseExists` derives from P being prime.

### The library interface

`ClaimsHold` and `OutputFollows` (`LibraryInterfaceProofs`): `Spec => []ClaimsAreKept`,
and under `ResultsFit`, `Spec => []OutputFollowsProtocol`, two parts of
LibraryKeepsItsWord. ResultsFit says that a ring has a variable and that what a computation may
come to are polynomials of the ring; TLC evaluates it on the instance. On the way
in (`StreamIsCounted`), the numbers of calls that the checker has seen are those of the
terms and polynomials that the stream holds, in each state of the checker; `sent`
records what was announced for each polynomial. ClaimsAreKept states equality: each
polynomial in the basis has exactly the announced terms, and a complete ideal exactly
the announced polynomials. Sorting its terms is a permutation
(`SortingKeepsLength`), so that it does not change their number. On the
way out (`Underway`), three positions are kept in step: that of the checker, that of
the loop of computeGroebnerBasis, and that of the adapter, which is one term
ahead as soon as the last term of a polynomial has been given out, and then beyond
every zero polynomial that follows (`FirstNonZeroSteps`). So the loop never asks
the adapter for a term of another polynomial than its own, and the zero
polynomials, for which it asks for none, do not make it fall behind.

### Only model-checked

Of the classic algorithm: termination (liveness is out of reach of the prover)
and EqualLcmsShareElement. Of the matrix builder: BuildEnds. Of the concurrent map:
QueriesReturn and InsertsReturn. Of the matrix reducer: ReductionEnds. Of the
reducers: ReductionsEnd. All of the signature bases, and all properties of `components` but the ranks and the two of the library interface:
many of them rest on folds and recursive functions over data, by induction over
which the prover cannot argue. That is also why BasisIsSent and BasisDescends, for
which a sequence has to have an order, are not among them.

## 5. Not modelled, and the plan

Not modelled: MESClassicGBAlg, a copy of ClassicGBAlg that no build file names;
logging and statistics; command-line parsing; generic C++ helpers; printing of
matrices and polynomials; QuadMatrix::toCanonical, which only tests use;
memory pools. mathic, memtailor and TBB are external: what the models assume
of them is said with each module.

Left to do is a proof: EqualLcmsShareElement, by the argument that the least pair
between two components of the graph always has the least element of the group in
it.

## 6. Where code, comments and asserts disagree

Shown by runs:

- `classic_gb_module`: the elimination of relatively prime pairs of module elements.
- `monomial_map_race`: the relaxed stores of the rehashing constructor.
- `matrix_action`: the reading of quad matrices in release builds.
- `sparse_matrix_entries`: SparseMatrix.cpp:352 deletes a block without rows and
  with it the chain behind it, and entryCount, which "Returns the number of
  entries in the whole matrix" (SparseMatrix.hpp:105), counts less. The rows stay
  readable, as nothing frees those blocks any more; but applyColumnMap and
  trimLeadingZeroColumns pass over their entries.
- `lookup_ties`: minimalLeadInSig prefers fewer terms by its comments
  (StaticMonoMap.hpp:272, 283, SigPolyBasis.cpp:325) and more terms by its code. `SigPolyBasis`
  does as the code does, and the result of `SignatureGB` is right all the same.
- `library_callback`: mathicgb.h:275 says that of a null callback no function is
  called; setCallback stores the function that calls it all the same.

Noticed while modelling, without a run:

- leadMinimalSlow ignores components and the flag does not, though
  PolyBasis.hpp:128 asserts that they agree: in a module of rank two, with one lead
  dividing another of a different component, they differ.
- SparseMatrix.cpp:181: with a quantum, growEntryCapacity gives a matrix that has
  one block and no row a block of just that size, so appendRow of a longer row to
  an empty matrix does not end (`hangs`). Without a quantum, a row longer than
  twice the block in a matrix with rows makes the loop itself delete a block
  with its chain. read does not clear mHasNoRows, and
  appendRowWithModulusIfNonZero clears it for a row it does not keep.
- SparseMatrix::sortRowsByIncreasingPivots advances its iterators twice in one
  turn of lexLess's loop, and so looks at every other entry only.
- The library clears its input stream according to mathicgb.h:392, but
  computeGBClassicAlg is given a copy; idealBegin, which asserts an empty basis
  (mathicgb.cpp:682, 691), would find the old one in a second ideal. The model's
  IdealBegin is guarded by the asserts: only an empty ideal can be followed by another.
- The constructor of StreamStateChecker catches what it throws itself.
- F4MatrixBuilder::buildMatrixAndClear keeps the counts of columns of the matrix
  before, though its comment speaks of clearing.
- isProductOfHintTrue does not see every difference in a monoid without
  components, an even number of variables and a reverse lexicographic order.
- setSPairGroupSize(0) changes its parameter, and not the member.
- Scanner takes the sign of "- 1" off and then refuses the rest; the reader of
  polynomials takes zero coefficients and repeated monomials as they come.
