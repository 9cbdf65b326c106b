---------------------------- MODULE MonomialMap ----------------------------
(***************************************************************************)
(* The concurrent hash table from monomials to column indices with which   *)
(* the threads of F4 share the columns of a matrix: MonomialMap, the chain *)
(* of tables FixedSizeMonomialMap it grows through, and its Readers.       *)
(*                                                                         *)
(* Memory is that of C++11.  Every store happens with mInsertionMutex      *)
(* held, so the stores have a total order, the log.  A thread has          *)
(* synchronised with a prefix of the log, seen, and a load returns any     *)
(* store that is not overwritten within the prefix, nor older than one     *)
(* that the thread loaded from the same place before.  Loading a store     *)
(* made with memory_order_release extends the prefix (compilers implement  *)
(* memory_order_consume as acquire); so do the lock and the load of mMap.  *)
(***************************************************************************)
EXTENDS Integers, Sequences, FiniteSets, FiniteSetsExt

CONSTANTS
  Threads,
  Queriers,  \* the threads that look keys up
  Inserters, \* the threads that call insert
  Keys,      \* the monomials
  Hash,      \* the hash of each monomial
  ToInsert,  \* those that insert is called with; the others are only looked up
  Pairs,     \* the pairs that findTwoProducts is called with
  SizeMax,   \* numeric_limits<size_t>::max()
  MaxClears, \* bound on the calls of clearNonConcurrent
  NoThread, NoKey, NoReader

ASSUME ThreadsAssumption == Queriers \cup Inserters = Threads
ASSUME HashAssumption == Hash \in [Keys -> Nat]
ASSUME CallsAssumption == ToInsert \subseteq Keys /\ Pairs \subseteq Keys \X Keys
ASSUME SizeAssumption == SizeMax \in Nat /\ SizeMax >= 2 /\ MaxClears \in Nat
ASSUME NoneAssumption ==
  NoThread \notin Threads /\ NoKey \notin Keys /\ NoReader \notin Nat

MinBucketsPerEntry == 3
GrowthFactor == 2
InitialBucketCount == 2

VARIABLES
  bucketCounts,         \* of the tables, the last of which is current
  published,            \* the length of the log when mMap was stored
  mCapacityUntilGrowth,
  mInsertionMutex,      \* the thread that holds it, or NoThread
  keyOf,                \* the key of each node, in order of allocation
  log,                  \* the stores [loc, val, release]
  growing,              \* where the rehashing constructor is: [bucket, node]
  seen,                 \* the prefix of the log that a thread has seen
  loaded,               \* the stores beyond the prefix that it has loaded
  reader,               \* the table of a thread's Reader
  pc, key, rest, node,  \* what a thread does, the keys it looks up, where it is
  clears

tableVars == <<bucketCounts, published, mCapacityUntilGrowth, keyOf, log>>
walkVars == <<key, rest, node>>
vars == <<tableVars, mInsertionMutex, growing, seen, loaded, reader, pc,
          walkVars, clears>>

Null == 0

-----------------------------------------------------------------------------
(* Geometry *)

mMap == Len(bucketCounts)
BucketCount(t) == bucketCounts[t]
NewBucketCount == GrowthFactor * BucketCount(mMap)

MaxEntries(bucketCount) ==
  (bucketCount + (MinBucketsPerEntry - 1)) \div MinBucketsPerEntry

CanGrow == BucketCount(mMap) <= SizeMax \div GrowthFactor

(* BucketCount is a power of two, and so the mask takes the remainder. *)
HashToIndex(k, bucketCount) == Hash[k] % bucketCount

-----------------------------------------------------------------------------
(* Memory *)

Bucket(t, i) == <<"bucket", t, i>>
NextOf(n) == <<"next", n, 0>>

BucketOf(k, t) == Bucket(t, HashToIndex(k, BucketCount(t)))

Store(loc, val) == [loc |-> loc, val |-> val, release |-> FALSE]
StoreRelease(loc, val) == [loc |-> loc, val |-> val, release |-> TRUE]

(* The last of the first p stores that goes to loc; 0 is the null that the
   constructor of a table puts into its buckets. *)
LastStore(loc, p) == Max({0} \cup {i \in 1..p : log[i].loc = loc})

Value(i) == IF i = 0 THEN Null ELSE log[i].val

(* What a thread that has synchronised with every store loads. *)
Latest(loc) == Value(LastStore(loc, Len(log)))

(* The stores of loc that a thread may load if it has synchronised with the
   first p stores and has loaded those in old. *)
Loadable(loc, p, old) ==
  {i \in LastStore(loc, p)..Len(log) :
     /\ i = 0 \/ log[i].loc = loc
     /\ \A j \in old : log[j].loc = loc => j <= i}

Acquired(p, i) == IF i > 0 /\ log[i].release THEN Max({p, i}) ELSE p

(* A thread has synchronised with the first p stores. *)
See(t, p) ==
  /\ seen' = [seen EXCEPT ![t] = p]
  /\ loaded' = [loaded EXCEPT ![t] = {i \in @ : i > p}]

(* Where a node was constructed. *)
Birth(n) == CHOOSE i \in 1..Len(log) :
              /\ log[i].loc = NextOf(n)
              /\ \A j \in 1..(i - 1) : log[j].loc # NextOf(n)

Allocated == 1..Len(keyOf)

Holds(n, k) == n # Null /\ keyOf[n] = k

-----------------------------------------------------------------------------
(* Readers *)

(* Mutated form: mMap is loaded with memory_order_relaxed. *)
GrabRelaxed(t) ==
  /\ pc[t] = "idle"
  /\ reader' = [reader EXCEPT ![t] = mMap]
  /\ UNCHANGED <<tableVars, mInsertionMutex, growing, seen, loaded, pc,
                 walkVars, clears>>

(* Reader(map) *)
Grab(t) ==
  /\ pc[t] = "idle"
  /\ reader' = [reader EXCEPT ![t] = mMap]
  /\ See(t, Max({seen[t], published}))
  /\ UNCHANGED <<tableVars, mInsertionMutex, growing, pc, walkVars, clears>>

(* A thread acquires a lock that the clients hold whenever they insert
   (MonomialMap.hpp:31, F4MatrixBuilder2.cpp:309). *)
Synchronise(t) ==
  /\ pc[t] = "idle"
  /\ mInsertionMutex = NoThread
  /\ See(t, Len(log))
  /\ UNCHANGED <<tableVars, mInsertionMutex, growing, reader, pc, walkVars,
                 clears>>

(* find and findProduct are called *)
Query(t, k) ==
  /\ pc[t] = "idle"
  /\ reader[t] # NoReader
  /\ pc' = [pc EXCEPT ![t] = "bucket"]
  /\ key' = [key EXCEPT ![t] = k]
  /\ UNCHANGED <<tableVars, mInsertionMutex, growing, seen, loaded, reader,
                 rest, node, clears>>

(* findTwoProducts: both keys are the first of their buckets, or else they
   are looked up one after the other, in the order the compiler chooses. *)
QueryTwo(t, k1, k2) ==
  /\ pc[t] = "idle"
  /\ reader[t] # NoReader
  /\ LET b1 == BucketOf(k1, reader[t])
         b2 == BucketOf(k2, reader[t])
     IN  \E i1 \in Loadable(b1, seen[t], {}) :
         \E i2 \in Loadable(b2, Acquired(seen[t], i1), {}) :
           /\ See(t, Acquired(Acquired(seen[t], i1), i2))
           /\ \/ /\ Holds(Value(i1), k1) /\ Holds(Value(i2), k2)
                 /\ UNCHANGED <<pc, key, rest>>
              \/ /\ ~(Holds(Value(i1), k1) /\ Holds(Value(i2), k2))
                 /\ pc' = [pc EXCEPT ![t] = "bucket"]
                 /\ \E order \in {<<k1, k2>>, <<k2, k1>>} :
                      /\ key' = [key EXCEPT ![t] = order[1]]
                      /\ rest' = [rest EXCEPT ![t] = order[2]]
  /\ UNCHANGED <<tableVars, mInsertionMutex, growing, reader, node, clears>>

-----------------------------------------------------------------------------
(* The search of a bucket, by a Reader or within insert *)

Inserting(t) == mInsertionMutex = t
Table(t) == IF Inserting(t) THEN mMap ELSE reader[t]

(* bucketAtIndex *)
LoadBucket(t) ==
  /\ pc[t] = "bucket"
  /\ LET b == BucketOf(key[t], Table(t))
     IN  \E i \in Loadable(b, seen[t], {}) :
           /\ node' = [node EXCEPT ![t] = Value(i)]
           /\ See(t, Acquired(seen[t], i))
  /\ pc' = [pc EXCEPT ![t] = "search"]
  /\ UNCHANGED <<tableVars, mInsertionMutex, growing, reader, key, rest,
                 clears>>

Matches(t) == Holds(node[t], key[t])

(* node = node->next(memory_order_consume), from the i-th store *)
Advance(t, i) ==
  /\ pc[t] = "search"
  /\ node[t] # Null
  /\ ~Matches(t)
  /\ i \in Loadable(NextOf(node[t]), seen[t], loaded[t])
  /\ node' = [node EXCEPT ![t] = Value(i)]
  /\ loaded' = [loaded EXCEPT ![t] =
                  {j \in @ : log[j].loc # NextOf(node[t])}
                    \cup {j \in {i} : j > seen[t]}]
  /\ UNCHANGED <<tableVars, mInsertionMutex, growing, seen, reader, pc, key,
                 rest, clears>>

AdvanceAny(t) == \E i \in 0..Len(log) : Advance(t, i)

(* A search that does not go through insert returns; findTwoProducts goes on
   with its other key. *)
Answer(t) ==
  /\ pc[t] = "search"
  /\ ~Inserting(t)
  /\ node[t] = Null \/ Matches(t)
  /\ \/ /\ rest[t] = NoKey
        /\ pc' = [pc EXCEPT ![t] = "idle"]
        /\ key' = [key EXCEPT ![t] = NoKey]
        /\ UNCHANGED rest
     \/ /\ rest[t] # NoKey
        /\ pc' = [pc EXCEPT ![t] = "bucket"]
        /\ key' = [key EXCEPT ![t] = rest[t]]
        /\ rest' = [rest EXCEPT ![t] = NoKey]
  /\ node' = [node EXCEPT ![t] = Null]
  /\ UNCHANGED <<tableVars, mInsertionMutex, growing, seen, loaded, reader,
                 clears>>

-----------------------------------------------------------------------------
(* insert *)

Lock(t, k) ==
  /\ pc[t] = "idle"
  /\ mInsertionMutex = NoThread
  /\ mInsertionMutex' = t
  /\ pc' = [pc EXCEPT ![t] = "locked"]
  /\ key' = [key EXCEPT ![t] = k]
  /\ See(t, Len(log))
  /\ UNCHANGED <<tableVars, growing, reader, rest, node, clears>>

Unlock(t) ==
  /\ mInsertionMutex' = NoThread
  /\ pc' = [pc EXCEPT ![t] = "idle"]
  /\ key' = [key EXCEPT ![t] = NoKey]
  /\ node' = [node EXCEPT ![t] = Null]

(* The table is full, and cannot grow: throw bad_alloc. *)
GrowThrows(t) ==
  /\ pc[t] = "locked"
  /\ mCapacityUntilGrowth = 0
  /\ ~CanGrow
  /\ Unlock(t)
  /\ UNCHANGED <<tableVars, growing, seen, loaded, reader, rest, clears>>

(* Mutated form: overflow is not checked for. *)
GrowUnchecked(t) ==
  /\ pc[t] = "locked"
  /\ mCapacityUntilGrowth = 0
  /\ pc' = [pc EXCEPT ![t] = "growing"]
  /\ growing' = [bucket |-> 0, node |-> Latest(Bucket(mMap, 0))]
  /\ UNCHANGED <<tableVars, mInsertionMutex, seen, loaded, reader, walkVars,
                 clears>>

(* The constructor that takes over the nodes of map starts. *)
Grow(t) ==
  /\ pc[t] = "locked"
  /\ mCapacityUntilGrowth = 0
  /\ CanGrow
  /\ pc' = [pc EXCEPT ![t] = "growing"]
  /\ growing' = [bucket |-> 0, node |-> Latest(Bucket(mMap, 0))]
  /\ UNCHANGED <<tableVars, mInsertionMutex, seen, loaded, reader, walkVars,
                 clears>>

(* Mutated form: the bucket is stored before the node's successor is read
   from it. *)
RelinkSelf(t) ==
  LET n == growing.node
      b == Bucket(mMap + 1, HashToIndex(keyOf[n], NewBucketCount))
  IN  /\ pc[t] = "growing"
      /\ n # Null
      /\ log' = log \o <<Store(b, n), Store(NextOf(n), n)>>
      /\ seen' = [seen EXCEPT ![t] = Len(log')]
      /\ growing' = [growing EXCEPT !.node = Latest(NextOf(n))]
      /\ UNCHANGED <<bucketCounts, published, mCapacityUntilGrowth, keyOf,
                     mInsertionMutex, loaded, reader, pc, walkVars, clears>>

(* One node is moved to the front of its new bucket. *)
Relink(t) ==
  LET n == growing.node
      b == Bucket(mMap + 1, HashToIndex(keyOf[n], NewBucketCount))
  IN  /\ pc[t] = "growing"
      /\ n # Null
      /\ log' = log \o <<Store(NextOf(n), Latest(b)), Store(b, n)>>
      /\ seen' = [seen EXCEPT ![t] = Len(log')]
      /\ growing' = [growing EXCEPT !.node = Latest(NextOf(n))]
      /\ UNCHANGED <<bucketCounts, published, mCapacityUntilGrowth, keyOf,
                     mInsertionMutex, loaded, reader, pc, walkVars, clears>>

(* Mutated form: the last bucket is not reached. *)
NextBucketShort(t) ==
  /\ pc[t] = "growing"
  /\ growing.node = Null
  /\ growing.bucket + 2 < BucketCount(mMap)
  /\ growing' = [bucket |-> growing.bucket + 1,
                 node |-> Latest(Bucket(mMap, growing.bucket + 1))]
  /\ UNCHANGED <<tableVars, mInsertionMutex, seen, loaded, reader, pc, walkVars,
                 clears>>

NextBucket(t) ==
  /\ pc[t] = "growing"
  /\ growing.node = Null
  /\ growing.bucket + 1 < BucketCount(mMap)
  /\ growing' = [bucket |-> growing.bucket + 1,
                 node |-> Latest(Bucket(mMap, growing.bucket + 1))]
  /\ UNCHANGED <<tableVars, mInsertionMutex, seen, loaded, reader, pc, walkVars,
                 clears>>

(* Mutated form: all of the new table's entries count as free. *)
PublishAllFree(t) ==
  /\ pc[t] = "growing"
  /\ growing.node = Null
  /\ growing.bucket + 1 = BucketCount(mMap)
  /\ mCapacityUntilGrowth' = MaxEntries(NewBucketCount)
  /\ bucketCounts' = Append(bucketCounts, NewBucketCount)
  /\ published' = Len(log)
  /\ pc' = [pc EXCEPT ![t] = "locked"]
  /\ growing' = [bucket |-> 0, node |-> Null]
  /\ UNCHANGED <<keyOf, log, mInsertionMutex, seen, loaded, reader, walkVars,
                 clears>>

(* Mutated form: mMap is stored while buckets remain to be moved. *)
PublishEarly(t) ==
  /\ pc[t] = "growing"
  /\ growing.node = Null
  /\ mCapacityUntilGrowth' =
       MaxEntries(NewBucketCount) - MaxEntries(BucketCount(mMap))
  /\ bucketCounts' = Append(bucketCounts, NewBucketCount)
  /\ published' = Len(log)
  /\ pc' = [pc EXCEPT ![t] = "locked"]
  /\ growing' = [bucket |-> 0, node |-> Null]
  /\ UNCHANGED <<keyOf, log, mInsertionMutex, seen, loaded, reader, walkVars,
                 clears>>

(* The old table goes to mOldMaps, the new one is stored into mMap. *)
Publish(t) ==
  /\ pc[t] = "growing"
  /\ growing.node = Null
  /\ growing.bucket + 1 = BucketCount(mMap)
  /\ mCapacityUntilGrowth' =
       MaxEntries(NewBucketCount) - MaxEntries(BucketCount(mMap))
  /\ bucketCounts' = Append(bucketCounts, NewBucketCount)
  /\ published' = Len(log)
  /\ pc' = [pc EXCEPT ![t] = "locked"]
  /\ growing' = [bucket |-> 0, node |-> Null]
  /\ UNCHANGED <<keyOf, log, mInsertionMutex, seen, loaded, reader, walkVars,
                 clears>>

(* There is room: FixedSizeMonomialMap::insert looks the key up. *)
InsertSearch(t) ==
  /\ pc[t] = "locked"
  /\ mCapacityUntilGrowth # 0
  /\ pc' = [pc EXCEPT ![t] = "bucket"]
  /\ UNCHANGED <<tableVars, mInsertionMutex, growing, seen, loaded, reader,
                 walkVars, clears>>

(* The key is present. *)
InsertPresent(t) ==
  /\ pc[t] = "search"
  /\ Inserting(t)
  /\ Matches(t)
  /\ Unlock(t)
  /\ UNCHANGED <<tableVars, growing, seen, loaded, reader, rest, clears>>

(* Mutated form: the bucket is stored with memory_order_relaxed. *)
InsertNewRelaxed(t) ==
  LET n == Len(keyOf) + 1
      b == BucketOf(key[t], mMap)
  IN  /\ pc[t] = "search"
      /\ Inserting(t)
      /\ node[t] = Null
      /\ keyOf' = Append(keyOf, key[t])
      /\ log' = log \o <<Store(NextOf(n), Latest(b)), Store(b, n)>>
      /\ seen' = [seen EXCEPT ![t] = Len(log')]
      /\ mCapacityUntilGrowth' = mCapacityUntilGrowth - 1
      /\ Unlock(t)
      /\ UNCHANGED <<bucketCounts, published, growing, loaded, reader, rest, clears>>

(* A node for the key becomes the first of its bucket. *)
InsertNew(t) ==
  LET n == Len(keyOf) + 1
      b == BucketOf(key[t], mMap)
  IN  /\ pc[t] = "search"
      /\ Inserting(t)
      /\ node[t] = Null
      /\ keyOf' = Append(keyOf, key[t])
      /\ log' = log \o <<Store(NextOf(n), Latest(b)), StoreRelease(b, n)>>
      /\ seen' = [seen EXCEPT ![t] = Len(log')]
      /\ mCapacityUntilGrowth' = mCapacityUntilGrowth - 1
      /\ Unlock(t)
      /\ UNCHANGED <<bucketCounts, published, growing, loaded, reader, rest, clears>>

(* The client excludes every reader and writer, and synchronises with them:
   the buckets are null again and the nodes are gone. *)
ClearNonConcurrent ==
  /\ clears < MaxClears
  /\ \A t \in Threads : pc[t] = "idle"
  /\ clears' = clears + 1
  /\ keyOf' = <<>>
  /\ log' = <<>>
  /\ published' = 0
  /\ seen' = [t \in Threads |-> 0]
  /\ loaded' = [t \in Threads |-> {}]
  /\ reader' = [t \in Threads |-> NoReader]
  /\ UNCHANGED <<bucketCounts, mCapacityUntilGrowth, mInsertionMutex, growing, pc,
                 walkVars>>

-----------------------------------------------------------------------------

Init ==
  /\ bucketCounts = <<InitialBucketCount>>
  /\ published = 0
  /\ mCapacityUntilGrowth = MaxEntries(InitialBucketCount)
  /\ mInsertionMutex = NoThread
  /\ keyOf = <<>>
  /\ log = <<>>
  /\ growing = [bucket |-> 0, node |-> Null]
  /\ seen = [t \in Threads |-> 0]
  /\ loaded = [t \in Threads |-> {}]
  /\ reader = [t \in Threads |-> NoReader]
  /\ pc = [t \in Threads |-> "idle"]
  /\ key = [t \in Threads |-> NoKey]
  /\ rest = [t \in Threads |-> NoKey]
  /\ node = [t \in Threads |-> Null]
  /\ clears = 0

(* What a thread does by itself once it has called insert or a query *)
Step(t) ==
  \/ LoadBucket(t)
  \/ AdvanceAny(t)
  \/ Answer(t)
  \/ GrowThrows(t)
  \/ Grow(t)
  \/ Relink(t)
  \/ NextBucket(t)
  \/ Publish(t)
  \/ InsertSearch(t)
  \/ InsertPresent(t)
  \/ InsertNew(t)

Call(t) ==
  \/ /\ t \in Queriers
     /\ \/ Grab(t) \/ Synchronise(t)
        \/ \E k \in Keys : Query(t, k)
        \/ \E p \in Pairs : QueryTwo(t, p[1], p[2])
  \/ /\ t \in Inserters
     /\ \E k \in ToInsert : Lock(t, k)

Next ==
  \/ \E t \in Threads : Call(t) \/ Step(t)
  \/ ClearNonConcurrent

Spec == Init /\ [][Next]_vars

(* Compilers and processors make every store visible in the end
   (C++11 29.3, paragraph 13): a thread that keeps loading a node's mNext
   loads the latest store of it some time. *)
AdvanceLatest(t, n) ==
  node[t] = n /\ Advance(t, LastStore(NextOf(n), Len(log)))

-----------------------------------------------------------------------------
(* Properties *)

Positions == 0..Len(log)
NodeOrNull == 0..Len(keyOf)
Stores == [loc : {"bucket", "next"} \X Nat \X Nat,
           val : NodeOrNull,
           release : BOOLEAN]

(* Every variable has its type; in particular the bucket counts do not
   overflow, and pointers lead only to nodes that have been allocated. *)
TypeOK ==
  /\ bucketCounts \in Seq(1..SizeMax)
  /\ bucketCounts # <<>>
  /\ mCapacityUntilGrowth \in 0..MaxEntries(BucketCount(mMap))
  /\ keyOf \in Seq(Keys)
  /\ log \in Seq(Stores)
  /\ published \in Positions
  /\ mInsertionMutex \in Threads \cup {NoThread}
  /\ growing \in [bucket : 0..(BucketCount(mMap) - 1), node : NodeOrNull]
  /\ seen \in [Threads -> Positions]
  /\ loaded \in [Threads -> SUBSET Positions]
  /\ reader \in [Threads -> (1..mMap) \cup {NoReader}]
  /\ pc \in [Threads -> {"idle", "bucket", "search", "locked", "growing"}]
  /\ key \in [Threads -> Keys \cup {NoKey}]
  /\ rest \in [Threads -> Keys \cup {NoKey}]
  /\ node \in [Threads -> NodeOrNull]
  /\ clears \in 0..MaxClears

Growing == \E t \in Threads : pc[t] = "growing"

(* With a node, S holds its latest successor. *)
Closed(S) == \A n \in S \ {Null} : Latest(NextOf(n)) \in S

(* What an iterator goes through from a node: there is no way around it. *)
Chain(first) ==
  {n \in Allocated : \A S \in SUBSET (NodeOrNull \ {n}) : first \in S => ~Closed(S)}

(* MonomialMap.hpp:130-136, FixedSizeMonomialMap.h:108-121: while nobody is
   growing the map, the chain of each bucket of the current table holds the
   nodes whose keys hash to it, each once and no other: no growth loses or
   duplicates an entry, or knots two chains. *)
EntriesComplete ==
  ~Growing =>
    /\ \A i \in 0..(BucketCount(mMap) - 1) :
         Chain(Latest(Bucket(mMap, i))) =
           {n \in Allocated : HashToIndex(keyOf[n], BucketCount(mMap)) = i}
    /\ \A n \in Allocated : n \notin Chain(Latest(NextOf(n)))

(* MonomialMap.hpp:150-158: two inserts of a key, by whichever threads and
   across growths, share one node, hence one column index. *)
OneNodePerKey ==
  \A m, n \in Allocated : keyOf[m] = keyOf[n] => m = n

Searching(t) == pc[t] = "search" /\ ~Inserting(t)

Outcome(t) ==
  IF ~Searching(t) THEN "none"
  ELSE IF node[t] = Null THEN "miss"
  ELSE IF Matches(t) THEN "hit" ELSE "none"

Promised == INSTANCE MonomialMapSpec WITH
  entries <- {keyOf[n] : n \in Allocated},
  growing <- Growing,
  stale <- [t \in Threads |-> Growing \/ reader[t] # mMap],
  known <- [t \in Threads |->
              {keyOf[n] : n \in {m \in Allocated : Birth(m) <= seen[t]}}],
  asked <- [t \in Threads |->
              IF pc[t] \in {"bucket", "search"} /\ ~Inserting(t) THEN key[t]
              ELSE NoKey],
  outcome <- [t \in Threads |-> Outcome(t)]

(* MonomialMap.hpp:17-40: the map keeps its promises: entries are never lost,
   there are no spurious hits, and a miss on a Reader that is not stale is
   accurate up to the insertions that happened before it. *)
KeepsPromises == Promised!Spec

(* MonomialMap.hpp:17-18, 182-183, 194: the table never holds more entries
   than its load factor allows, and what entryCount returns is never less
   than the number of entries. *)
LoadBounded ==
  Len(keyOf) <= MaxEntries(BucketCount(mMap)) - mCapacityUntilGrowth

(* MonomialMap.hpp:35, FixedSizeMonomialMap.h:196-203, 219-222: a miss is
   accurate as far as the thread has synchronised: if the search went through
   the current table and no growth had begun at its end, then the key was
   inserted by no store that the thread had seen. *)
MissIsAccurate ==
  \A t \in Threads :
    pc[t] = "search" /\ node[t] = Null /\ Table(t) = mMap /\ ~Growing =>
      \A n \in Allocated : keyOf[n] = key[t] => Birth(n) > seen[t]

(* FixedSizeMonomialMap.h:219-222: a thread that searches the current table
   while nobody grows it has synchronised with the construction of each node
   it reads. *)
NodesSynchronised ==
  \A t \in Threads :
    pc[t] = "search" /\ node[t] # Null /\ Table(t) = mMap /\ ~Growing =>
      Birth(node[t]) <= seen[t]

(* FixedSizeMonomialMap.h:84, 91-94: the rehashing constructor stores relaxed
   "as the constructor does not run concurrently", so that no reader would
   come upon a node that its thread has not synchronised with. *)
ConstructorNotConcurrent ==
  \A t \in Threads :
    pc[t] = "search" /\ node[t] # Null => Birth(node[t]) <= seen[t]

(* MonomialMap.hpp:198: entryCount, which takes the lock, returns the number
   of entries, until clearNonConcurrent forgets to count the room it makes. *)
EntryCountExact ==
  mInsertionMutex = NoThread /\ clears = 0 =>
    MaxEntries(BucketCount(mMap)) - mCapacityUntilGrowth = Len(keyOf)

(* No entry is lost, duplicated or miscounted, and none is missed by a search
   that has reason to see it. *)
EntriesAreFound ==
  EntriesComplete /\ OneNodePerKey /\ EntryCountExact /\ MissIsAccurate

=============================================================================
