---------------------------- MODULE SparseMatrix ----------------------------
(***************************************************************************)
(* Sparse matrices whose rows lie one after the other in blocks of memory. *)
(* A row is a pair of pointers into a block; entries past the last row are *)
(* pending.  A full block is not copied but put in a chain behind a new    *)
(* one, to which only pending entries move.  What goes over all entries    *)
(* walks the chain; what goes over rows does not know of it.               *)
(*                                                                         *)
(* There are two matrices: a is worked on, b is read from a file or is a   *)
(* source of rows for a.                                                   *)
(***************************************************************************)
EXTENDS Integers, Sequences, SequencesExt, FiniteSetsExt, Functions

CONSTANTS
  Quanta,     \* the values of mMemoryQuantum
  MinBlock,   \* the least size of a block without a quantum, 2^14 in the code
  MaxEntries, \* bound on the entries of a row that is appended
  MaxRows,    \* bound on the rows of the two matrices together
  Cols,       \* the columns, from 0
  Modulus     \* of the scalars

VARIABLES
  mem,    \* the entries [col, scalar] at each piece of memory, 0 being null
  matrix, \* for each name [chain, rows, quantum, read, dropped], mBlock first in chain
  want    \* history variable: for each name the rows and the pending entries

vars == <<mem, matrix, want>>

Names == {"a", "b"}

NoMem == 0
Mems == 1 .. 3 * (MaxRows + 1)

Block(m, capacity, hasNoRows) == [mem |-> m, capacity |-> capacity, hasNoRows |-> hasNoRows]
EmptyBlock == Block(NoMem, 0, TRUE)

(* read says that rows have come from a file; dropped is history: the      *)
(* chain has lost blocks with rows, or that of a matrix rows came from.    *)
Empty(quantum) ==
  [chain |-> <<EmptyBlock>>, rows |-> <<>>, quantum |-> quantum, read |-> FALSE,
   dropped |-> FALSE]

Entries(m, row) == SubSeq(m[row.mem], row.begin + 1, row.end)

(* The memory that the chain and the rows of a matrix point to *)
MemoryOf(mx) == {b.mem : b \in Range(mx.chain)} \cup {r.mem : r \in Range(mx.rows)}

(* entries of a block, size of mBlock *)
Size(m, block) == Len(m[block.mem])

(* A matrix together with the memory, which the operations below work on;  *)
(* hangs says that a loop among them does not end.                         *)
At(n) == [mem |-> mem, mx |-> matrix[n], hangs |-> FALSE]

(* new: memory that nothing points to *)
FreshMem(s) ==
  Min(Mems \ (MemoryOf(s.mx) \cup UNION {MemoryOf(matrix[n]) : n \in Names}))

----------------------------------------------------------------------------
(* Room for entries *)

CapacityToGo(s) == Head(s.mx.chain).capacity - Size(s.mem, Head(s.mx.chain))

(* The pending entries move to a new block.  An old one without rows is    *)
(* deleted, and with it the way to those before it.                        *)
ReserveFreeEntries(s, freeCount) ==
  LET block == Head(s.mx.chain)
      pendingFrom == IF block.hasNoRows THEN 0 ELSE Last(s.mx.rows).end
      pending == SubSeq(s.mem[block.mem], pendingFrom + 1, Size(s.mem, block))
      fresh == FreshMem(s)
      new == Block(fresh, freeCount + Len(pending), TRUE)
  IN  IF freeCount <= CapacityToGo(s) THEN s
      ELSE [s EXCEPT
             !.mem = [@ EXCEPT ![block.mem] = SubSeq(@, 1, Len(@) - Len(pending)),
                               ![fresh] = pending],
             !.mx.chain = IF block.hasNoRows THEN <<new>> ELSE <<new>> \o @,
             !.mx.dropped = @ \/ (block.hasNoRows /\ Len(s.mx.chain) > 1)]

GrowEntryCapacity(s) ==
  LET block == Head(s.mx.chain)
      more == IF s.mx.quantum # 0 /\ (~block.hasNoRows \/ Len(s.mx.chain) = 1)
                THEN s.mx.quantum
              ELSE IF block.capacity = 0 THEN MinBlock
              ELSE block.capacity * 2
  IN  ReserveFreeEntries(s, more)

PushBack(s, entry) ==
  [s EXCEPT !.mem[Head(s.mx.chain).mem] = Append(@, entry)]

RowDone(s) ==
  LET block == Head(s.mx.chain)
      row == [mem |-> block.mem, end |-> Size(s.mem, block),
              begin |-> IF block.hasNoRows THEN 0 ELSE Last(s.mx.rows).end]
  IN  [s EXCEPT !.mx.rows = Append(@, row), !.mx.chain[1].hasNoRows = FALSE]

(* appendEntry *)
PushEntry(s, entry) ==
  PushBack(IF CapacityToGo(s) = 0 THEN GrowEntryCapacity(s) ELSE s, entry)

(* The loop that grows mBlock until it has room for size entries.  A turn  *)
(* makes room for one more at least, or changes nothing, and then the loop *)
(* goes on for ever: what has not ended after size turns never ends.       *)
GrowUntilRoom(s, size) ==
  LET after[turn \in 0..size] ==
        IF turn = 0 THEN s
        ELSE IF CapacityToGo(after[turn - 1]) < size THEN GrowEntryCapacity(after[turn - 1])
        ELSE after[turn - 1]
  IN  after[size]

(* All at once, with no entry pending *)
AppendRow(s, entries) ==
  LET grown == GrowUntilRoom(s, Len(entries))
  IN  IF CapacityToGo(grown) < Len(entries) THEN [grown EXCEPT !.hangs = TRUE]
      ELSE RowDone(FoldLeft(PushBack, grown, entries))

----------------------------------------------------------------------------
Init ==
  /\ mem = [m \in Mems \cup {NoMem} |-> <<>>]
  /\ \E quantum \in Quanta : matrix = [n \in Names |-> Empty(quantum)]
  /\ want = [n \in Names |-> [rows |-> <<>>, pending |-> <<>>]]

(* A call that does not return is no step. *)
Becomes(n, s) ==
  /\ ~s.hangs
  /\ mem' = s.mem
  /\ matrix' = [matrix EXCEPT ![n] = s.mx]

RowsFit(aRows, bRows) == Len(aRows) + Len(bRows) <= MaxRows

(* What is done with rows of "b" that may have missed a change *)
Tainted(s) == [s EXCEPT !.mx.dropped = @ \/ matrix["b"].dropped]

MayAppend(n) == ~matrix[n].read /\ Len(matrix["a"].rows) + Len(matrix["b"].rows) < MaxRows

AppendEntry(n, col) ==
  /\ MayAppend(n)
  /\ Len(want[n].pending) < MaxEntries
  /\ \A entry \in Range(want[n].pending) : entry.col < col
  /\ LET entry == [col |-> col, scalar |-> Modulus - 1 - (Len(want[n].pending) % (Modulus - 1))]
     IN  /\ Becomes(n, PushEntry(At(n), entry))
         /\ want' = [want EXCEPT ![n].pending = Append(@, entry)]

RowIsDone(n) ==
  /\ MayAppend(n)
  /\ Becomes(n, RowDone(At(n)))
  /\ want' = [want EXCEPT ![n] = [rows |-> Append(@.rows, @.pending), pending |-> <<>>]]

NonePending(n) == want[n].pending = <<>>

AppendRowOf(row) ==
  /\ MayAppend("a") /\ NonePending("a")
  /\ Len(want["b"].rows[row]) <= MaxEntries
  /\ Becomes("a", Tainted(AppendRow(At("a"), Entries(mem, matrix["b"].rows[row]))))
  /\ want' = [want EXCEPT !["a"].rows = Append(@, want["b"].rows[row])]

(* modularInverse *)
Inverted(x) == CHOOSE y \in 1 .. Modulus - 1 : (x * y) % Modulus = 1

Normalized(entries) ==
  [i \in DOMAIN entries |->
     [entries[i] EXCEPT !.scalar = (@ * Inverted(entries[1].scalar)) % Modulus]]

(* appendRowAndNormalize *)
AppendRowNormalized(row) ==
  /\ MayAppend("a") /\ NonePending("a")
  /\ Len(want["b"].rows[row]) <= MaxEntries
  /\ Becomes("a", Tainted(RowDone(FoldLeft(PushEntry, At("a"),
                                    Normalized(Entries(mem, matrix["b"].rows[row]))))))
  /\ want' = [want EXCEPT !["a"].rows = Append(@, Normalized(want["b"].rows[row]))]

(* clear frees what the chain leads to; nothing points to the rest then.   *)
Freed(m, mx) == [x \in DOMAIN m |-> IF x \in MemoryOf(mx) THEN <<>> ELSE m[x]]

Clear(n) ==
  /\ mem' = Freed(mem, matrix[n])
  /\ matrix' = [matrix EXCEPT ![n] = Empty(matrix[n].quantum)]
  /\ want' = [want EXCEPT ![n] = [rows |-> <<>>, pending |-> <<>>]]

(* Mutated form: the block of this matrix stays out of the chain. *)
ChainWithoutBlock(this, other) == other.chain \o Tail(this.chain)

(* The blocks of the other matrix, newest first, then those of this one *)
JoinedChain(this, other) ==
  other.chain \o (IF Head(this.chain).hasNoRows THEN Tail(this.chain) ELSE this.chain)

TakeRowsFrom ==
  /\ NonePending("a") /\ NonePending("b")
  /\ ~matrix["a"].read /\ ~matrix["b"].read
  /\ matrix["b"].rows # <<>>
  /\ matrix' = [a |-> IF matrix["a"].rows = <<>> THEN matrix["b"]
                      ELSE [matrix["a"] EXCEPT
                              !.chain = JoinedChain(matrix["a"], matrix["b"]),
                              !.rows = @ \o matrix["b"].rows,
                              !.dropped = @ \/ matrix["b"].dropped],
                b |-> Empty(matrix["b"].quantum)]
  /\ want' = [a |-> [rows |-> want["a"].rows \o want["b"].rows, pending |-> <<>>],
              b |-> [rows |-> <<>>, pending |-> <<>>]]
  /\ UNCHANGED mem

Swap ==
  /\ NonePending("a")
  /\ matrix' = [a |-> matrix["b"], b |-> matrix["a"]]
  /\ want' = [a |-> want["b"], b |-> want["a"]]
  /\ UNCHANGED mem

(* All entries of the chain, pending ones with them *)
MapColumns(m, mx, Op(_)) ==
  [x \in DOMAIN m |->
     IF \E b \in Range(mx.chain) : b.mem = x
       THEN [i \in DOMAIN m[x] |-> [m[x][i] EXCEPT !.col = Op(@)]]
       ELSE m[x]]

WantMapped(n, Op(_)) ==
  LET mapped(entries) == [i \in DOMAIN entries |-> [entries[i] EXCEPT !.col = Op(@)]]
  IN  [rows |-> [r \in DOMAIN want[n].rows |-> mapped(want[n].rows[r])],
       pending |-> mapped(want[n].pending)]

ApplyColumnMap(colMap) ==
  /\ mem' = MapColumns(mem, matrix["a"], LAMBDA col : colMap[col])
  /\ want' = [want EXCEPT !["a"] = WantMapped("a", LAMBDA col : colMap[col])]
  /\ UNCHANGED matrix

(* Asserted of the entries that are changed *)
TrimLeadingZeroColumns ==
  /\ \A b \in Range(matrix["a"].chain) : \A e \in Range(mem[b.mem]) : e.col > 0
  /\ \A entries \in Range(want["a"].rows) \cup {want["a"].pending} :
       \A e \in Range(entries) : e.col > 0
  /\ mem' = MapColumns(mem, matrix["a"], LAMBDA col : col - 1)
  /\ want' = [want EXCEPT !["a"] = WantMapped("a", LAMBDA col : col - 1)]
  /\ UNCHANGED matrix

MultiplyRow(row, multiplier) ==
  LET r == matrix["a"].rows[row]
      times(e) == [e EXCEPT !.scalar = (@ * multiplier) % Modulus]
  IN  /\ mem' = [mem EXCEPT ![r.mem] =
                   [i \in DOMAIN @ |-> IF r.begin < i /\ i <= r.end THEN times(@[i]) ELSE @[i]]]
      /\ want' = [want EXCEPT !["a"].rows[row] = [i \in DOMAIN @ |-> times(@[i])]]
      /\ UNCHANGED matrix

(* Rows of a matrix, in the order given, in a new one *)
Copied(m, mx, rows, quantum) ==
  FoldLeft(LAMBDA s, row : AppendRow(s, Entries(m, mx.rows[row])),
           [mem |-> m, mx |-> Empty(quantum), hangs |-> FALSE], rows)

(* operator= *)
Copy ==
  /\ NonePending("b")
  /\ RowsFit(matrix["b"].rows, matrix["b"].rows)
  /\ LET s == Copied(Freed(mem, matrix["a"]), matrix["b"],
                     [r \in DOMAIN matrix["b"].rows |-> r], matrix["b"].quantum)
     IN  Becomes("a", Tainted(s))
  /\ want' = [want EXCEPT !["a"] = want["b"]]

Lead(entries) == IF entries = <<>> THEN <<-1, 0>> ELSE <<entries[1].col, entries[1].scalar>>

LeadOf(row) == Lead(Entries(mem, matrix["a"].rows[row]))

LeadLess(x, y) == x[1] < y[1] \/ (x[1] = y[1] /\ x[2] < y[2])

(* sortRowsByIncreasingPivots.  The comparison steps twice after a first   *)
(* entry that is equal, which may take it past the row: such rows come in  *)
(* any order.                                                              *)
SortRows ==
  /\ NonePending("a")
  /\ \E p \in {q \in [1..Len(want["a"].rows) -> 1..Len(want["a"].rows)] :
                 /\ IsInjective(q)
                 /\ \A i, j \in DOMAIN q : i < j => ~LeadLess(LeadOf(q[j]), LeadOf(q[i]))} :
       /\ LET s == Copied(mem, matrix["a"], p, 0)
          IN  Becomes("a", [s EXCEPT !.mem = Freed(@, matrix["a"]),
                                     !.mx.dropped = @ \/ matrix["a"].dropped])
       /\ want' = [want EXCEPT !["a"].rows = [i \in DOMAIN p |-> @[p[i]]]]

EntryCount(n) ==
  FoldLeft(LAMBDA sum, block : sum + Size(mem, block), 0, matrix[n].chain)

(* write of a, and read into b: one block, from which the rows are cut     *)
File ==
  [entryCount |-> EntryCount("a"),
   entries |-> FlattenSeq([r \in DOMAIN matrix["a"].rows |-> Entries(mem, matrix["a"].rows[r])]),
   sizes |-> [r \in DOMAIN matrix["a"].rows |->
                matrix["a"].rows[r].end - matrix["a"].rows[r].begin]]

(* The block is left marked as one without rows.  A file whose header      *)
(* counts other than the entries that follow cannot be read.               *)
WriteAndRead ==
  /\ NonePending("a") /\ NonePending("b")
  /\ File.entryCount = Len(File.entries)
  /\ RowsFit(matrix["a"].rows, matrix["a"].rows)
  /\ LET s == ReserveFreeEntries([mem |-> Freed(mem, matrix["b"]),
                                  mx |-> Empty(matrix["b"].quantum), hangs |-> FALSE],
                                 File.entryCount)
         block == Head(s.mx.chain).mem
         offset(r) == FoldLeft(LAMBDA sum, size : sum + size, 0, SubSeq(File.sizes, 1, r))
     IN  Becomes("b", [s EXCEPT
           !.mem[block] = File.entries,
           !.mx.read = TRUE,
           !.mx.dropped = matrix["a"].dropped,
           !.mx.rows = [r \in DOMAIN File.sizes |->
                          [mem |-> block, begin |-> offset(r - 1), end |-> offset(r)]]])
  /\ want' = [want EXCEPT !["b"] = want["a"]]

Next ==
  \/ \E col \in Cols : AppendEntry("a", col)
  \/ RowIsDone("a")
  \/ \E row \in DOMAIN matrix["b"].rows : AppendRowOf(row)
  \/ \E row \in DOMAIN matrix["b"].rows : AppendRowNormalized(row)
  \/ Clear("a")
  \/ TakeRowsFrom
  \/ Swap
  \/ \E colMap \in {f \in [Cols -> Cols] : IsInjective(f)} : ApplyColumnMap(colMap)
  \/ TrimLeadingZeroColumns
  \/ \E row \in DOMAIN matrix["a"].rows : MultiplyRow(row, Modulus - 1)
  \/ Copy
  \/ SortRows
  \/ WriteAndRead

Spec == Init /\ [][Next]_vars

----------------------------------------------------------------------------
TypeOK ==
  /\ \A n \in Names :
       /\ matrix[n].chain # <<>>
       /\ \A b \in Range(matrix[n].chain) :
            b.mem \in DOMAIN mem /\ Size(mem, b) <= b.capacity
       /\ \A r \in Range(matrix[n].rows) :
            0 <= r.begin /\ r.begin <= r.end /\ r.end <= Len(mem[r.mem])

(* Rows read as they were appended, whatever has happened to the memory    *)
(* since; a change of all columns reaches every row of a matrix that has   *)
(* lost no block.                                                          *)
Scalars(entries) == [i \in DOMAIN entries |-> entries[i].scalar]

RowsAsAppended ==
  \A n \in Names :
    LET rows == [r \in DOMAIN matrix[n].rows |-> Entries(mem, matrix[n].rows[r])]
    IN  /\ Len(rows) = Len(want[n].rows)
        /\ \A r \in DOMAIN rows : Scalars(rows[r]) = Scalars(want[n].rows[r])
        /\ ~matrix[n].dropped => rows = want[n].rows

EntrySum(n) ==
  FoldLeft(LAMBDA sum, row : sum + Len(row), Len(want[n].pending), want[n].rows)

(* "Returns the number of entries in the whole matrix", pending ones with  *)
(* them: no block counts an entry that has moved, and no block is missing. *)
EntryCountIsSum == \A n \in Names : EntryCount(n) = EntrySum(n)

(* It does as long as the chain has lost no block.                         *)
WholeChainIsCounted ==
  \A n \in Names : ~matrix[n].dropped => EntryCount(n) = EntrySum(n)
=============================================================================
