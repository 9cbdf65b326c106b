---------------------------- MODULE PolyHashTable ----------------------------
(***************************************************************************)
(* The hash table in which the hash reducers add up terms: buckets of      *)
(* linked nodes, the newest first, with as many buckets as a power of two  *)
(* so that a mask takes a hash to a bucket.  The buckets are doubled when  *)
(* the table is fuller than a tenth.                                       *)
(***************************************************************************)
EXTENDS Integers, Sequences, SequencesExt, FiniteSetsExt, Functions

CONSTANTS
  Monos,        \* the monomials
  HashOf,       \* the hash of each
  HashBits,     \* width of HashValue
  SizeBits,     \* width of size_t
  Requested,    \* the buckets asked for at first, 1000 in the code
  LoadDivisor,  \* one over maxLoadFactor, 10 in the code
  Charac        \* of the field

VARIABLES
  buckets,  \* mBuckets: from bucket to the nodes [mono, value] in it
  maxSize,  \* mMaxSize
  size,     \* mSize
  sums      \* history variable: the sum of what was added for each monomial

vars == <<buckets, maxSize, size, sums>>

(* Up to the next power of two.  That its mask fits into a hash is         *)
(* asserted: HashBits is to be no less than SizeBits.                      *)
ComputeHashMask(requested) ==
  LET doubled[pow2 \in 1 .. 2^SizeBits] ==
        IF pow2 < requested /\ 2 * pow2 < 2^SizeBits THEN doubled[2 * pow2] ELSE pow2
  IN  (doubled[1] - 1) % 2^HashBits

BucketCount == Cardinality(DOMAIN buckets)

(* hash & mask; a mask is one less than a power of two *)
HashToIndex(mono, mask) == HashOf[mono] % (mask + 1)

Index(mono) == HashToIndex(mono, BucketCount - 1)

NoBuckets(mask) == [index \in 0 .. mask |-> <<>>]

Rehashed(table, requested) ==
  LET mask == ComputeHashMask(requested)
      nodes == FlattenSeq([i \in 1 .. Cardinality(DOMAIN table) |-> table[i - 1]])
  IN  FoldLeft(LAMBDA t, node :
                 [t EXCEPT ![HashToIndex(node.mono, mask)] = <<node>> \o @],
               NoBuckets(mask), nodes)

(* mHashToIndexMask, mBuckets and mMaxSize *)
MaxSizeOf(table) == Cardinality(DOMAIN table) \div LoadDivisor

Init ==
  /\ buckets = NoBuckets(ComputeHashMask(Requested))
  /\ maxSize = MaxSizeOf(buckets)
  /\ size = 0
  /\ sums = [mono \in {} |-> 0]

Holds(table, mono) == \E i \in DOMAIN table[Index(mono)] : table[Index(mono)][i].mono = mono

(* The table has the product: its value is added to. *)
AddToNode(mono, value) ==
  /\ Holds(buckets, mono)
  /\ buckets' = [buckets EXCEPT ![Index(mono)] =
                   [i \in DOMAIN @ |->
                      IF @[i].mono = mono
                        THEN [@[i] EXCEPT !.value = (@ + value) % Charac] ELSE @[i]]]
  /\ sums' = [sums EXCEPT ![mono] = (@ + value) % Charac]
  /\ UNCHANGED <<maxSize, size>>

(* It does not: a new node is first in its bucket, and the table may grow. *)
InsertNode(mono, value) ==
  /\ ~Holds(buckets, mono)
  /\ size' = size + 1
  /\ LET with == [buckets EXCEPT ![Index(mono)] = <<[mono |-> mono, value |-> value]>> \o @]
     IN  buckets' = IF size + 1 >= maxSize THEN Rehashed(with, 2 * BucketCount) ELSE with
  /\ maxSize' = MaxSizeOf(buckets')
  /\ sums' = [m \in DOMAIN sums \cup {mono} |-> IF m = mono THEN value ELSE sums[m]]

RemoveNode(mono) ==
  /\ mono \in DOMAIN sums
  /\ buckets' = [buckets EXCEPT ![Index(mono)] = SelectSeq(@, LAMBDA n : n.mono # mono)]
  /\ size' = size - 1
  /\ sums' = Restrict(sums, DOMAIN sums \ {mono})
  /\ UNCHANGED maxSize

Clear ==
  /\ buckets' = IF size = 0 THEN buckets ELSE [index \in DOMAIN buckets |-> <<>>]
  /\ size' = 0
  /\ sums' = [mono \in {} |-> 0]
  /\ UNCHANGED maxSize

Next ==
  \/ \E mono \in Monos, value \in 1 .. Charac - 1 :
       AddToNode(mono, value) \/ InsertNode(mono, value)
  \/ \E mono \in Monos : RemoveNode(mono)
  \/ Clear

Spec == Init /\ [][Next]_vars

----------------------------------------------------------------------------
(* The nodes that can be found are those of the monomials added and not    *)
(* removed, each once and with the sum of its values, through all growth;  *)
(* size counts them.                                                       *)
TableHoldsSums ==
  /\ \A mono \in Monos : Holds(buckets, mono) <=> mono \in DOMAIN sums
  /\ \A index \in DOMAIN buckets : \A i \in DOMAIN buckets[index] :
       LET node == buckets[index][i]
       IN  node.mono \in DOMAIN sums /\ node.value = sums[node.mono]
  /\ size = Cardinality(DOMAIN sums)
  /\ size = FoldFunction(LAMBDA nodes, sum : sum + Len(nodes), 0, buckets)
=============================================================================
