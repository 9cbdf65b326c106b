------------------------- MODULE MonomialMapProofs -------------------------
(***************************************************************************)
(* The map is well-typed and keeps to its load factor, and its memory      *)
(* orders suffice: a thread that searches the current table while it does  *)
(* not grow has synchronised with the construction of each node it comes   *)
(* to.  Its chains hold what they should, whatever is inserted and however *)
(* often the map grows, and a search finds what it has reason to see: the  *)
(* map keeps the promises of MonomialMapSpec and implements it, each step  *)
(* of a thread being a step of the abstract map or changing nothing of it. *)
(* This holds for every number of threads and keys, every hash function    *)
(* and every bound on table sizes.                                         *)
(***************************************************************************)
EXTENDS MonomialMap, SequenceTheorems, WellFoundedInduction, TLAPS

(* Some number of a bounded set is the largest. *)
LEMMA Largest ==
  ASSUME NEW n \in Nat, NEW S \in SUBSET (0..n), S # {}
  PROVE  /\ Max(S) \in S
         /\ \A x \in S : x <= Max(S)
<1> DEFINE T == {i \in 0..n : n - i \in S}
<1>1. T \subseteq Nat
  OBVIOUS
<1>2. T # {}
  <2>1. PICK x \in S : TRUE
    OBVIOUS
  <2>2. n - x \in T
    BY <2>1
  <2> QED
    BY <2>2
<1>3. PICK i \in T : \A j \in T : <<j, i>> \notin OpToRel(<, Nat)
  BY <1>1, <1>2, NatLessThanWellFounded, WFMin, ZenonT(30)
<1>4. \A j \in T : ~(j < i)
  BY <1>1, <1>3 DEF OpToRel
<1>5. ASSUME NEW x \in S
      PROVE  x <= n - i
  <2>1. n - x \in T
    OBVIOUS
  <2> QED
    BY <1>4, <2>1, SMTT(20)
<1>6. \E x \in S : \A y \in S : x >= y
  <2>1. n - i \in S
    OBVIOUS
  <2> QED
    BY <1>5, <2>1
<1> QED
  BY <1>6 DEF Max

(* LastStore finds a store among the first p, or the constructor's null. *)
LEMMA LastStoreType ==
  ASSUME NEW loc, NEW p \in Nat
  PROVE  LastStore(loc, p) \in 0..p
<1> DEFINE S == {0} \cup {i \in 1..p : log[i].loc = loc}
<1>1. S \in SUBSET (0..p) /\ S # {}
  OBVIOUS
<1>2. Max(S) \in S
  BY <1>1, Largest, Zenon
<1> QED
  BY <1>1, <1>2 DEF LastStore

(* What is stored is a node or null. *)
LEMMA ValueType ==
  ASSUME TypeOK, NEW i \in Positions
  PROVE  Value(i) \in NodeOrNull
<1>1. log \in Seq(Stores) /\ keyOf \in Seq(Keys)
  BY DEF TypeOK
<1>2. CASE i = 0
  BY <1>1, <1>2 DEF Value, Null, NodeOrNull
<1>3. CASE i # 0
  <2>1. log[i] \in Stores
    BY <1>1, <1>3 DEF Positions
  <2> QED
    BY <1>3, <2>1 DEF Value, Stores
<1> QED
  BY <1>2, <1>3

LEMMA LatestType ==
  ASSUME TypeOK, NEW loc
  PROVE  Latest(loc) \in NodeOrNull
<1>1. Len(log) \in Nat
  BY DEF TypeOK
<1>2. LastStore(loc, Len(log)) \in Positions
  BY <1>1, LastStoreType DEF Positions
<1> QED
  BY <1>2, ValueType DEF Latest

(* A load returns the value of a store, and extends the prefix at most to
   the store it returns. *)
LEMMA LoadableType ==
  ASSUME TypeOK, NEW loc, NEW p \in Positions, NEW old,
         NEW i \in Loadable(loc, p, old)
  PROVE  i \in Positions /\ Value(i) \in NodeOrNull
<1>1. Len(log) \in Nat /\ p \in Nat
  BY DEF TypeOK, Positions
<1>2. LastStore(loc, p) \in 0..p
  BY <1>1, LastStoreType
<1>3. i \in Positions
  BY <1>1, <1>2 DEF Loadable, Positions
<1> QED
  BY <1>3, ValueType

LEMMA LargerOfTwo ==
  ASSUME NEW n \in Nat, NEW a \in 0..n, NEW b \in 0..n
  PROVE  Max({a, b}) \in 0..n
<1>1. {a, b} \in SUBSET (0..n) /\ {a, b} # {}
  OBVIOUS
<1>2. Max({a, b}) \in {a, b}
  BY <1>1, Largest, Zenon
<1> QED
  BY <1>2

LEMMA AcquiredType ==
  ASSUME TypeOK, NEW p \in Positions, NEW i \in Positions
  PROVE  Acquired(p, i) \in Positions
<1>1. Len(log) \in Nat
  BY DEF TypeOK
<1>2. Max({p, i}) \in Positions
  BY <1>1, LargerOfTwo DEF Positions
<1> QED
  BY <1>2 DEF Acquired

(* Sequences over a set are sequences over a larger one. *)
LEMMA SeqLarger ==
  ASSUME NEW S, NEW T, S \subseteq T, NEW s \in Seq(S)
  PROVE  s \in Seq(T)
<1>1. s \in [1..Len(s) -> S] /\ Len(s) \in Nat
  OBVIOUS
<1>2. s \in [1..Len(s) -> T]
  BY <1>1
<1> QED
  BY <1>1, <1>2

-----------------------------------------------------------------------------
(* The inductive invariant *)

(* A thread works on the table only with the lock held, and has found room
   for one entry before it looks for its key. *)
HoldsLock ==
  \A t \in Threads :
    /\ pc[t] \in {"locked", "growing"} => mInsertionMutex = t
    /\ pc[t] = "idle" => mInsertionMutex # t /\ node[t] = Null
    /\ pc[t] # "idle" => key[t] \in Keys
    /\ pc[t] = "growing" => mCapacityUntilGrowth = 0 /\ CanGrow
    /\ pc[t] \in {"bucket", "search"} /\ mInsertionMutex = t =>
         mCapacityUntilGrowth > 0

(* The rehashing constructor has no node at hand unless it runs. *)
GrowingRests == ~Growing => growing.node = Null

IInv == TypeOK /\ HoldsLock /\ GrowingRests /\ LoadBounded

LEMMA InitIInv == Init => IInv
<1> SUFFICES ASSUME Init PROVE IInv
  OBVIOUS
<1> USE SizeAssumption, NoneAssumption DEF Init
<1>1. Len(bucketCounts) = 1 /\ bucketCounts[1] = 2
  BY DEF InitialBucketCount
<1>2. TypeOK
  BY <1>1 DEF TypeOK, mMap, BucketCount, MaxEntries, InitialBucketCount,
              MinBucketsPerEntry, Positions, NodeOrNull, Null
<1>3. HoldsLock /\ GrowingRests
  BY DEF HoldsLock, GrowingRests, Growing
<1>4. LoadBounded
  BY <1>1 DEF LoadBounded, mMap, BucketCount, MaxEntries,
              InitialBucketCount, MinBucketsPerEntry
<1> QED
  BY <1>2, <1>3, <1>4 DEF IInv

LEMMA HalfOf ==
  ASSUME NEW n \in Nat, NEW c \in Nat, c <= n \div 2
  PROVE  2 * c <= n
OBVIOUS

LEMMA LastInSeq ==
  ASSUME NEW S, NEW s \in Seq(S), s # <<>>
  PROVE  Len(s) \in Nat \ {0} /\ s[Len(s)] \in S
<1>1. Len(s) \in Nat \ {0}
  OBVIOUS
<1>2. Len(s) \in 1..Len(s)
  BY <1>1
<1> QED
  BY <1>1, <1>2, ElementOfSeq

(* There is a current table, and its load is a number. *)
LEMMA CurrentTable ==
  ASSUME TypeOK
  PROVE  /\ mMap \in Nat \ {0}
         /\ mMap \in 1..Len(bucketCounts)
         /\ BucketCount(mMap) \in 1..SizeMax
         /\ BucketCount(mMap) \in Nat \ {0}
         /\ MaxEntries(BucketCount(mMap)) \in Nat
<1>1. bucketCounts \in Seq(1..SizeMax) /\ bucketCounts # <<>>
  BY DEF TypeOK
<1>2. /\ Len(bucketCounts) \in Nat \ {0}
      /\ bucketCounts[Len(bucketCounts)] \in 1..SizeMax
  BY <1>1, LastInSeq
<1>3. \A c \in 1..SizeMax : (c + 2) \div 3 \in Nat
  BY SizeAssumption
<1> QED
  BY <1>2, <1>3, SizeAssumption
     DEF mMap, BucketCount, MaxEntries, MinBucketsPerEntry

(* What readers do leaves the table and its memory alone. *)
LEMMA ReaderStep ==
  ASSUME IInv, NEW t \in Threads,
         \/ Grab(t) \/ Synchronise(t) \/ \E k \in Keys : Query(t, k)
         \/ \E p \in Pairs : QueryTwo(t, p[1], p[2])
         \/ LoadBucket(t) \/ AdvanceAny(t) \/ Answer(t)
  PROVE  IInv'
<1>1. UNCHANGED <<bucketCounts, published, mCapacityUntilGrowth, keyOf, log,
                  growing, clears, mInsertionMutex>>
  BY DEF Grab, Synchronise, Query, QueryTwo, LoadBucket, AdvanceAny, Advance,
         Answer, tableVars
<1>2. UNCHANGED <<mMap, Positions, NodeOrNull>> /\ UNCHANGED Stores
  BY <1>1 DEF mMap, Positions, NodeOrNull, Stores
<1>3. Len(log) \in Nat /\ seen[t] \in Positions /\ mMap \in Nat \ {0}
  BY DEF IInv, TypeOK, mMap
<1>4. /\ seen' \in [Threads -> Positions]
      /\ loaded' \in [Threads -> SUBSET Positions]
      /\ node' \in [Threads -> NodeOrNull]
  <2>0. /\ seen \in [Threads -> Positions]
        /\ loaded \in [Threads -> SUBSET Positions]
        /\ node \in [Threads -> NodeOrNull]
        /\ Null \in NodeOrNull
    BY DEF IInv, TypeOK, Null, NodeOrNull
  <2>a. ASSUME NEW p \in Positions, See(t, p)
        PROVE  /\ seen' \in [Threads -> Positions]
               /\ loaded' \in [Threads -> SUBSET Positions]
    BY <2>0, <2>a DEF See
  <2>1. CASE Grab(t)
    <3>1. Max({seen[t], published}) \in Positions
      BY <1>3, LargerOfTwo DEF IInv, TypeOK, Positions
    <3> QED
      BY <2>0, <2>a, <2>1, <3>1 DEF Grab, walkVars
  <2>2. CASE Synchronise(t)
    <3>1. Len(log) \in Positions
      BY <1>3 DEF Positions
    <3> QED
      BY <2>0, <2>a, <2>2, <3>1 DEF Synchronise, walkVars
  <2>3. CASE \E k \in Keys : Query(t, k)
    BY <2>0, <2>3 DEF Query
  <2>4. CASE \E p \in Pairs : QueryTwo(t, p[1], p[2])
    <3>1. PICK p \in Pairs : QueryTwo(t, p[1], p[2])
      BY <2>4
    <3>2. UNCHANGED node
      BY <3>1 DEF QueryTwo
    <3> DEFINE b1 == BucketOf(p[1], reader[t])
               b2 == BucketOf(p[2], reader[t])
    <3>3. PICK i1 \in Loadable(b1, seen[t], {}) :
          \E i2 \in Loadable(b2, Acquired(seen[t], i1), {}) :
            See(t, Acquired(Acquired(seen[t], i1), i2))
      BY <3>1 DEF QueryTwo
    <3>4. i1 \in Positions /\ Acquired(seen[t], i1) \in Positions
      BY <1>3, LoadableType, AcquiredType DEF IInv
    <3>5. PICK i2 \in Loadable(b2, Acquired(seen[t], i1), {}) :
            See(t, Acquired(Acquired(seen[t], i1), i2))
      BY <3>3
    <3>6. i2 \in Positions
      BY <3>4, LoadableType DEF IInv
    <3>7. Acquired(Acquired(seen[t], i1), i2) \in Positions
      BY <3>4, <3>6, AcquiredType DEF IInv
    <3> QED
      BY <2>0, <2>a, <3>2, <3>5, <3>7
  <2>5. CASE LoadBucket(t)
    <3>1. PICK i \in Loadable(BucketOf(key[t], Table(t)), seen[t], {}) :
            /\ node' = [node EXCEPT ![t] = Value(i)]
            /\ See(t, Acquired(seen[t], i))
      BY <2>5 DEF LoadBucket
    <3>2. i \in Positions /\ Value(i) \in NodeOrNull
      BY <1>3, LoadableType DEF IInv
    <3>3. Acquired(seen[t], i) \in Positions
      BY <1>3, <3>2, AcquiredType DEF IInv
    <3> QED
      BY <2>0, <2>a, <3>1, <3>2, <3>3
  <2>6. CASE AdvanceAny(t)
    <3>1. PICK i : Advance(t, i)
      BY <2>6 DEF AdvanceAny
    <3>2. i \in Positions /\ Value(i) \in NodeOrNull
      BY <1>3, <3>1, LoadableType DEF IInv, Advance
    <3> QED
      BY <2>0, <3>1, <3>2 DEF Advance
  <2>7. CASE Answer(t)
    BY <2>0, <2>7 DEF Answer
  <2> QED
    BY <2>1, <2>2, <2>3, <2>4, <2>5, <2>6, <2>7
<1>5. /\ reader' \in [Threads -> (1..mMap) \cup {NoReader}]
      /\ pc' \in [Threads -> {"idle", "bucket", "search", "locked", "growing"}]
      /\ key' \in [Threads -> Keys \cup {NoKey}]
      /\ rest' \in [Threads -> Keys \cup {NoKey}]
  <2>0. /\ reader \in [Threads -> (1..mMap) \cup {NoReader}]
        /\ pc \in [Threads -> {"idle", "bucket", "search", "locked", "growing"}]
        /\ key \in [Threads -> Keys \cup {NoKey}]
        /\ rest \in [Threads -> Keys \cup {NoKey}]
    BY DEF IInv, TypeOK
  <2>1. CASE Grab(t)
    BY <1>3, <2>0, <2>1 DEF Grab, walkVars
  <2>2. CASE Synchronise(t) \/ LoadBucket(t) \/ AdvanceAny(t)
    BY <2>0, <2>2 DEF Synchronise, LoadBucket, AdvanceAny, Advance, walkVars
  <2>3. CASE \E k \in Keys : Query(t, k)
    BY <2>0, <2>3 DEF Query
  <2>4. CASE \E p \in Pairs : QueryTwo(t, p[1], p[2])
    <3>1. PICK p \in Pairs : QueryTwo(t, p[1], p[2])
      BY <2>4
    <3>2. p[1] \in Keys /\ p[2] \in Keys
      BY CallsAssumption
    <3> QED
      BY <2>0, <3>1, <3>2 DEF QueryTwo
  <2>5. CASE Answer(t)
    BY <2>0, <2>5 DEF Answer
  <2> QED
    BY <2>1, <2>2, <2>3, <2>4, <2>5
<1>6. TypeOK'
  BY <1>1, <1>2, <1>4, <1>5 DEF IInv, TypeOK, BucketCount
<1>7. /\ \A u \in Threads \ {t} :
           pc'[u] = pc[u] /\ key'[u] = key[u] /\ node'[u] = node[u]
      /\ pc[t] \notin {"locked", "growing"} /\ pc'[t] \notin {"locked", "growing"}
      /\ pc'[t] = "idle" => mInsertionMutex # t /\ node'[t] = Null
      /\ pc'[t] # "idle" => key'[t] \in Keys
      /\ pc'[t] # "idle" => pc[t] = "idle" \/ pc[t] \in {"bucket", "search"}
  BY <1>1, CallsAssumption
     DEF IInv, TypeOK, HoldsLock, Grab, Synchronise, Query, QueryTwo,
         LoadBucket, AdvanceAny, Advance, Answer, walkVars, Inserting
<1>8. HoldsLock'
  BY <1>1, <1>2, <1>7
     DEF IInv, TypeOK, HoldsLock, CanGrow, BucketCount
<1>9. GrowingRests' /\ LoadBounded'
  BY <1>1, <1>2, <1>7
     DEF IInv, GrowingRests, Growing, LoadBounded, BucketCount
<1> QED
  BY <1>6, <1>8, <1>9 DEF IInv

(* Only the holder of the lock is growing, locked, or inserting. *)
LEMMA OnlyHolder ==
  ASSUME IInv, NEW t \in Threads, mInsertionMutex = t, NEW u \in Threads \ {t}
  PROVE  pc[u] \in {"idle", "bucket", "search"}
BY DEF IInv, TypeOK, HoldsLock

(* insert takes and gives back the lock, and searches, without a store. *)
LEMMA LockStep ==
  ASSUME IInv, NEW t \in Threads,
         \/ \E k \in Keys : Lock(t, k)
         \/ GrowThrows(t) \/ InsertSearch(t) \/ InsertPresent(t)
  PROVE  IInv'
<1>1. UNCHANGED tableVars /\ UNCHANGED <<growing, clears, reader, rest>>
  BY DEF Lock, GrowThrows, InsertSearch, InsertPresent, Unlock, walkVars
<1>2. UNCHANGED <<mMap, Positions, NodeOrNull>> /\ UNCHANGED Stores
  BY <1>1 DEF tableVars, mMap, Positions, NodeOrNull, Stores
<1>3. Len(log) \in Positions
  BY DEF IInv, TypeOK, Positions
<1>4. TypeOK'
  <2>1. /\ mInsertionMutex' \in Threads \cup {NoThread}
        /\ pc' \in [Threads ->
                     {"idle", "bucket", "search", "locked", "growing"}]
        /\ key' \in [Threads -> Keys \cup {NoKey}]
        /\ node' \in [Threads -> NodeOrNull]
        /\ seen' \in [Threads -> Positions]
        /\ loaded' \in [Threads -> SUBSET Positions]
    <3> USE DEF IInv, TypeOK
    <3>1. CASE \E k \in Keys : Lock(t, k)
      BY <1>3, <3>1 DEF Lock, See
    <3>2. CASE GrowThrows(t) \/ InsertPresent(t)
      <4>1. Null \in NodeOrNull
        BY DEF Null, NodeOrNull
      <4>2. Unlock(t) /\ UNCHANGED <<seen, loaded>>
        BY <3>2 DEF GrowThrows, InsertPresent
      <4> QED
        BY <4>1, <4>2 DEF Unlock
    <3>3. CASE InsertSearch(t)
      BY <3>3 DEF InsertSearch, walkVars
    <3> QED
      BY <3>1, <3>2, <3>3
  <2> QED
    BY <1>1, <1>2, <2>1 DEF IInv, TypeOK, tableVars, BucketCount
<1>5. \A u \in Threads \ {t} :
        /\ pc'[u] = pc[u] /\ key'[u] = key[u] /\ node'[u] = node[u]
        /\ pc[u] \in {"idle", "bucket", "search"}
        /\ mInsertionMutex # u /\ mInsertionMutex' # u
  BY NoneAssumption
     DEF IInv, TypeOK, HoldsLock, Lock, GrowThrows, InsertSearch,
         InsertPresent, Unlock, walkVars, Inserting
<1>6. /\ pc'[t] \notin {"growing"} /\ pc[t] # "growing"
      /\ pc'[t] = "locked" => mInsertionMutex' = t
      /\ pc'[t] = "idle" => mInsertionMutex' # t /\ node'[t] = Null
      /\ pc'[t] # "idle" => key'[t] \in Keys
      /\ pc'[t] \in {"bucket", "search"} => mCapacityUntilGrowth > 0
  BY NoneAssumption
     DEF IInv, TypeOK, HoldsLock, Lock, GrowThrows, InsertSearch,
         InsertPresent, Unlock, walkVars, Inserting
<1>7. HoldsLock'
  BY <1>1, <1>5, <1>6 DEF IInv, HoldsLock, tableVars
<1>8. GrowingRests' /\ LoadBounded'
  BY <1>1, <1>2, <1>5, <1>6
     DEF IInv, GrowingRests, Growing, LoadBounded, BucketCount, tableVars
<1> QED
  BY <1>4, <1>7, <1>8 DEF IInv

(* The rehashing constructor goes from node to node and bucket to bucket. *)
LEMMA GrowStep ==
  ASSUME IInv, NEW t \in Threads, Grow(t) \/ NextBucket(t)
  PROVE  IInv'
<1>1. /\ UNCHANGED tableVars
      /\ UNCHANGED <<clears, reader, rest, mInsertionMutex, seen, loaded, key,
                     node>>
  BY DEF Grow, NextBucket, walkVars
<1>2. UNCHANGED <<mMap, Positions, NodeOrNull>> /\ UNCHANGED Stores
  BY <1>1 DEF tableVars, mMap, Positions, NodeOrNull, Stores
<1>3. BucketCount(mMap) \in Nat \ {0}
  BY SizeAssumption DEF IInv, TypeOK, mMap, BucketCount
<1>4. growing' \in [bucket : 0..(BucketCount(mMap) - 1), node : NodeOrNull]
  <2>1. \A i : Latest(Bucket(mMap, i)) \in NodeOrNull
    BY LatestType DEF IInv
  <2> QED
    BY <1>3, <2>1 DEF IInv, TypeOK, Grow, NextBucket
<1>5. pc' \in [Threads -> {"idle", "bucket", "search", "locked", "growing"}]
  BY DEF IInv, TypeOK, Grow, NextBucket
<1>6. TypeOK'
  BY <1>1, <1>2, <1>4, <1>5 DEF IInv, TypeOK, tableVars, BucketCount
<1>7. /\ pc'[t] = "growing" /\ pc[t] \in {"locked", "growing"}
      /\ mCapacityUntilGrowth = 0 /\ CanGrow
      /\ \A u \in Threads \ {t} : pc'[u] = pc[u]
  BY DEF IInv, TypeOK, HoldsLock, Grow, NextBucket
<1>8. HoldsLock'
  BY <1>1, <1>2, <1>7
     DEF IInv, HoldsLock, tableVars, CanGrow, BucketCount
<1>9. GrowingRests' /\ LoadBounded'
  BY <1>1, <1>2, <1>7
     DEF IInv, GrowingRests, Growing, LoadBounded, BucketCount, tableVars
<1> QED
  BY <1>6, <1>8, <1>9 DEF IInv

(* A node is moved to its bucket of the new table. *)
LEMMA RelinkStep ==
  ASSUME IInv, NEW t \in Threads, Relink(t)
  PROVE  IInv'
<1> DEFINE n == growing.node
           b == Bucket(mMap + 1, HashToIndex(keyOf[n], NewBucketCount))
<1>1. /\ log' = log \o <<Store(NextOf(n), Latest(b)), Store(b, n)>>
      /\ UNCHANGED <<bucketCounts, published, mCapacityUntilGrowth, keyOf,
                     mInsertionMutex, loaded, reader, pc, key, rest, node,
                     clears>>
  BY DEF Relink, walkVars
<1>2. UNCHANGED <<mMap, NodeOrNull>> /\ UNCHANGED Stores
  BY <1>1 DEF mMap, NodeOrNull, Stores
<1>3. /\ BucketCount(mMap) \in Nat \ {0} /\ mMap \in Nat
      /\ NewBucketCount \in Nat \ {0}
  BY SMTT(20), SizeAssumption
     DEF IInv, TypeOK, mMap, BucketCount, NewBucketCount, GrowthFactor
<1>4. /\ \A l : Latest(l) \in NodeOrNull
      /\ n \in NodeOrNull /\ n # Null /\ NodeOrNull \subseteq Nat
  BY SMTT(20), LatestType DEF IInv, TypeOK, Relink, NodeOrNull
<1>5. Store(NextOf(n), Latest(b)) \in Stores /\ Store(b, n) \in Stores
  <2>1. keyOf[n] \in Keys
    BY <1>4 DEF IInv, TypeOK, NodeOrNull, Null
  <2>2. HashToIndex(keyOf[n], NewBucketCount) \in Nat
    BY <1>3, <2>1, HashAssumption DEF HashToIndex
  <2>3. NextOf(n) \in {"bucket", "next"} \X Nat \X Nat
    BY <1>4 DEF NextOf
  <2>4. b \in {"bucket", "next"} \X Nat \X Nat
    BY <1>3, <2>2 DEF Bucket
  <2> QED
    BY <1>4, <2>3, <2>4 DEF Store, Stores
<1>6. log' \in Seq(Stores) /\ Len(log') = Len(log) + 2
  BY <1>1, <1>5 DEF IInv, TypeOK
<1>7. Positions \subseteq Positions' /\ Len(log') \in Positions'
  BY <1>6 DEF IInv, TypeOK, Positions
<1>8. /\ seen' \in [Threads -> Positions']
      /\ loaded' \in [Threads -> SUBSET Positions']
      /\ published' \in Positions'
  BY <1>1, <1>7 DEF IInv, TypeOK, Relink
<1>9. growing' \in [bucket : 0..(BucketCount(mMap) - 1), node : NodeOrNull]
  BY <1>4 DEF IInv, TypeOK, Relink
<1>10. TypeOK'
  BY <1>1, <1>2, <1>6, <1>8, <1>9 DEF IInv, TypeOK, BucketCount
<1>11. HoldsLock'
  BY <1>1, <1>2 DEF IInv, HoldsLock, CanGrow, BucketCount
<1>12. GrowingRests' /\ LoadBounded'
  BY <1>1, <1>2
     DEF IInv, GrowingRests, Growing, LoadBounded, BucketCount, Relink
<1> QED
  BY <1>10, <1>11, <1>12 DEF IInv

(* The new table takes the place of the old one; the entries it took over
   use up the difference. *)
LEMMA PublishStep ==
  ASSUME IInv, NEW t \in Threads, Publish(t)
  PROVE  IInv'
<1> DEFINE c == BucketCount(mMap)
<1>1. /\ bucketCounts' = Append(bucketCounts, NewBucketCount)
      /\ mCapacityUntilGrowth' = MaxEntries(NewBucketCount) - MaxEntries(c)
      /\ growing' = [bucket |-> 0, node |-> Null]
      /\ pc' = [pc EXCEPT ![t] = "locked"]
      /\ published' = Len(log)
      /\ pc[t] = "growing" /\ CanGrow
      /\ UNCHANGED <<keyOf, log, mInsertionMutex, seen, loaded, reader, key,
                     rest, node, clears>>
  BY DEF Publish, walkVars, IInv, HoldsLock
<1>2. /\ c \in 1..SizeMax /\ mMap \in Nat \ {0}
      /\ NewBucketCount = 2 * c
      /\ NewBucketCount \in 1..SizeMax
  <2>1. c \in 1..SizeMax /\ c \in Nat /\ mMap \in Nat \ {0}
    BY CurrentTable DEF IInv
  <2>2. NewBucketCount = 2 * c /\ c <= SizeMax \div 2
    BY <1>1 DEF NewBucketCount, GrowthFactor, CanGrow
  <2>3. 2 * c <= SizeMax
    BY <2>1, <2>2, HalfOf, SizeAssumption
  <2> QED
    BY <2>1, <2>2, <2>3, SizeAssumption
<1>3. /\ bucketCounts' \in Seq(1..SizeMax) /\ bucketCounts' # <<>>
      /\ mMap' = mMap + 1 /\ BucketCount(mMap)' = NewBucketCount
  <2>1. bucketCounts \in Seq(1..SizeMax)
    BY DEF IInv, TypeOK
  <2>2. /\ bucketCounts' \in Seq(1..SizeMax)
        /\ Len(bucketCounts') = Len(bucketCounts) + 1
        /\ bucketCounts'[Len(bucketCounts) + 1] = NewBucketCount
    BY <1>1, <1>2, <2>1
  <2> QED
    BY <2>1, <2>2 DEF mMap, BucketCount
<1>4. /\ MaxEntries(c) \in Nat /\ MaxEntries(NewBucketCount) \in Nat
      /\ MaxEntries(c) <= MaxEntries(NewBucketCount)
  BY <1>2, SizeAssumption DEF MaxEntries, MinBucketsPerEntry
<1>5. UNCHANGED <<Positions, NodeOrNull>> /\ UNCHANGED Stores
  BY <1>1 DEF Positions, NodeOrNull, Stores
<1>6. /\ reader' \in [Threads -> (1..mMap') \cup {NoReader}]
      /\ growing' \in [bucket : 0..(NewBucketCount - 1), node : NodeOrNull]
      /\ published' \in Positions
      /\ mCapacityUntilGrowth' \in 0..MaxEntries(NewBucketCount)
      /\ pc' \in [Threads -> {"idle", "bucket", "search", "locked", "growing"}]
  <2>1. Len(keyOf) \in Nat /\ Len(log) \in Nat
    BY DEF IInv, TypeOK
  <2>2. reader' \in [Threads -> (1..mMap') \cup {NoReader}]
    BY <1>1, <1>2, <1>3, SMTT(20) DEF IInv, TypeOK
  <2>3. growing' \in [bucket : 0..(NewBucketCount - 1), node : NodeOrNull]
    BY <1>1, <1>2, <2>1, SizeAssumption DEF NodeOrNull, Null
  <2>4. published' \in Positions
    BY <1>1, <2>1 DEF Positions
  <2>5. mCapacityUntilGrowth' \in 0..MaxEntries(NewBucketCount)
    BY <1>1, <1>4
  <2>6. pc' \in [Threads ->
                 {"idle", "bucket", "search", "locked", "growing"}]
    BY <1>1 DEF IInv, TypeOK
  <2> QED
    BY <2>2, <2>3, <2>4, <2>5, <2>6
<1>7. TypeOK'
  BY <1>1, <1>3, <1>5, <1>6 DEF IInv, TypeOK
<1>8. HoldsLock'
  <2>1. mInsertionMutex = t
    BY <1>1 DEF IInv, HoldsLock
  <2>2. \A u \in Threads \ {t} :
          pc'[u] = pc[u] /\ pc[u] \in {"idle", "bucket", "search"}
    BY <1>1, <2>1, OnlyHolder
  <2>3. pc'[t] = "locked"
    BY <1>1 DEF IInv, TypeOK
  <2>4. \A u \in Threads \ {t} : mInsertionMutex' # u
    BY <1>1, <2>1
  <2> QED
    BY <1>1, <2>1, <2>2, <2>3, <2>4 DEF IInv, HoldsLock
<1>9. GrowingRests'
  BY <1>1 DEF GrowingRests
<1>10. LoadBounded'
  <2>1. mCapacityUntilGrowth = 0 /\ Len(keyOf) <= MaxEntries(c)
    BY <1>1, <1>4 DEF IInv, HoldsLock, LoadBounded
  <2>2. Len(keyOf) \in Nat
    BY DEF IInv, TypeOK
  <2> QED
    BY <1>1, <1>3, <1>4, <2>1, <2>2 DEF LoadBounded
<1> QED
  BY <1>7, <1>8, <1>9, <1>10 DEF IInv

(* A new node becomes the first of its bucket, and uses up one entry. *)
LEMMA InsertNewStep ==
  ASSUME IInv, NEW t \in Threads, InsertNew(t)
  PROVE  IInv'
<1> DEFINE n == Len(keyOf) + 1
           b == BucketOf(key[t], mMap)
<1>1. /\ keyOf' = Append(keyOf, key[t])
      /\ log' = log \o <<Store(NextOf(n), Latest(b)), StoreRelease(b, n)>>
      /\ seen' = [seen EXCEPT ![t] = Len(log')]
      /\ mCapacityUntilGrowth' = mCapacityUntilGrowth - 1
      /\ mInsertionMutex' = NoThread
      /\ pc' = [pc EXCEPT ![t] = "idle"]
      /\ key' = [key EXCEPT ![t] = NoKey]
      /\ node' = [node EXCEPT ![t] = Null]
      /\ UNCHANGED <<bucketCounts, published, growing, loaded, reader, rest,
                     clears>>
  BY DEF InsertNew, Unlock
<1>2. /\ pc[t] = "search" /\ mInsertionMutex = t /\ key[t] \in Keys
      /\ mCapacityUntilGrowth \in Nat \ {0}
      /\ Len(keyOf) \in Nat /\ keyOf \in Seq(Keys)
  BY SizeAssumption, SMTT(20)
     DEF InsertNew, Inserting, IInv, HoldsLock, TypeOK, mMap, BucketCount,
         MaxEntries, MinBucketsPerEntry
<1>3. UNCHANGED mMap /\ mMap \in 1..Len(bucketCounts)
      /\ BucketCount(mMap) \in Nat \ {0}
      /\ MaxEntries(BucketCount(mMap)) \in Nat
  BY <1>1, CurrentTable DEF IInv, mMap
<1>4. /\ keyOf' \in Seq(Keys) /\ Len(keyOf') = n
      /\ NodeOrNull \subseteq NodeOrNull' /\ n \in NodeOrNull'
      /\ Null \in NodeOrNull'
  BY <1>1, <1>2 DEF NodeOrNull, Null
<1>5. Stores \subseteq Stores'
  BY <1>4 DEF Stores
<1>6. Store(NextOf(n), Latest(b)) \in Stores' /\ StoreRelease(b, n) \in Stores'
  <2>1. Latest(b) \in NodeOrNull'
    BY <1>4, LatestType DEF IInv
  <2>2. HashToIndex(key[t], BucketCount(mMap)) \in Nat
    BY <1>2, <1>3, HashAssumption DEF HashToIndex
  <2>3. b \in {"bucket", "next"} \X Nat \X Nat
    BY <1>3, <2>2 DEF Bucket, BucketOf, IInv, TypeOK
  <2>4. NextOf(n) \in {"bucket", "next"} \X Nat \X Nat
    BY <1>2 DEF NextOf
  <2> QED
    BY <1>4, <2>1, <2>3, <2>4 DEF Store, StoreRelease, Stores
<1>7. log' \in Seq(Stores') /\ Len(log') = Len(log) + 2
  <2>1. log \in Seq(Stores')
    BY <1>5, SeqLarger DEF IInv, TypeOK
  <2> QED
    BY <1>1, <1>6, <2>1
<1>8. /\ Positions \subseteq Positions' /\ Len(log') \in Positions'
  BY <1>7 DEF IInv, TypeOK, Positions
<1>9. /\ seen' \in [Threads -> Positions']
      /\ loaded' \in [Threads -> SUBSET Positions']
      /\ published' \in Positions'
      /\ node' \in [Threads -> NodeOrNull']
      /\ growing' \in [bucket : 0..(BucketCount(mMap) - 1), node : NodeOrNull']
  BY <1>1, <1>4, <1>8 DEF IInv, TypeOK
<1>10. /\ mCapacityUntilGrowth' \in 0..MaxEntries(BucketCount(mMap))
       /\ mInsertionMutex' \in Threads \cup {NoThread}
       /\ pc' \in [Threads ->
                    {"idle", "bucket", "search", "locked", "growing"}]
       /\ key' \in [Threads -> Keys \cup {NoKey}]
  BY <1>1, <1>2, <1>3 DEF IInv, TypeOK
<1>11. TypeOK'
  BY <1>1, <1>3, <1>4, <1>7, <1>9, <1>10
     DEF IInv, TypeOK, BucketCount
<1>12. \A u \in Threads \ {t} :
         /\ pc'[u] = pc[u] /\ key'[u] = key[u] /\ node'[u] = node[u]
         /\ pc[u] \in {"idle", "bucket", "search"}
  BY <1>1, <1>2, OnlyHolder
<1>13. HoldsLock'
  BY <1>1, <1>12, NoneAssumption DEF IInv, TypeOK, HoldsLock
<1>14. GrowingRests'
  BY <1>1, <1>2, <1>12 DEF IInv, TypeOK, GrowingRests, Growing
<1>15. LoadBounded'
  BY <1>1, <1>2, <1>3, <1>4 DEF IInv, LoadBounded, BucketCount
<1> QED
  BY <1>11, <1>13, <1>14, <1>15 DEF IInv

LEMMA ClearStep ==
  ASSUME IInv, ClearNonConcurrent
  PROVE  IInv'
<1>1. /\ clears' = clears + 1 /\ clears < MaxClears
      /\ keyOf' = <<>> /\ log' = <<>> /\ published' = 0
      /\ seen' = [t \in Threads |-> 0]
      /\ loaded' = [t \in Threads |-> {}]
      /\ reader' = [t \in Threads |-> NoReader]
      /\ \A t \in Threads : pc[t] = "idle"
      /\ UNCHANGED <<bucketCounts, mCapacityUntilGrowth, mInsertionMutex,
                     growing, pc, key, rest, node>>
  BY DEF ClearNonConcurrent, walkVars
<1>2. UNCHANGED mMap /\ MaxEntries(BucketCount(mMap)) \in Nat
  BY <1>1, CurrentTable DEF IInv, mMap
<1>3. /\ 0 \in Positions' /\ log' \in Seq(Stores') /\ keyOf' \in Seq(Keys)
      /\ Null \in NodeOrNull' /\ Len(keyOf') = 0
  BY <1>1 DEF Positions, NodeOrNull, Null
<1>4. (\A t \in Threads : node[t] = Null) /\ growing.node = Null
  BY <1>1 DEF IInv, HoldsLock, GrowingRests, Growing
<1>5. /\ node' \in [Threads -> NodeOrNull']
      /\ growing' \in [bucket : 0..(BucketCount(mMap) - 1), node : NodeOrNull']
  BY <1>1, <1>3, <1>4 DEF IInv, TypeOK
<1>6. TypeOK'
  BY <1>1, <1>2, <1>3, <1>5, SizeAssumption DEF IInv, TypeOK, BucketCount
<1>7. HoldsLock' /\ GrowingRests'
  BY <1>1, <1>4 DEF IInv, HoldsLock, GrowingRests
<1>8. LoadBounded'
  BY <1>1, <1>2, <1>3 DEF IInv, TypeOK, LoadBounded, BucketCount
<1> QED
  BY <1>6, <1>7, <1>8 DEF IInv

LEMMA NextIInv ==
  ASSUME IInv, [Next]_vars
  PROVE  IInv'
<1>1. CASE UNCHANGED vars
  <2>1. UNCHANGED <<mMap, Positions, NodeOrNull>> /\ UNCHANGED Stores
    BY <1>1 DEF vars, tableVars, mMap, Positions, NodeOrNull, Stores
  <2>2. TypeOK'
    BY <1>1, <2>1 DEF vars, tableVars, walkVars, IInv, TypeOK, BucketCount
  <2>3. HoldsLock' /\ GrowingRests' /\ LoadBounded'
    BY <1>1, <2>1
       DEF vars, tableVars, walkVars, IInv, HoldsLock, GrowingRests, Growing,
           LoadBounded, CanGrow, BucketCount
  <2> QED
    BY <2>2, <2>3 DEF IInv
<1>2. CASE ClearNonConcurrent
  BY <1>2, ClearStep
<1>3. ASSUME NEW t \in Threads, Call(t)
      PROVE  IInv'
  <2>1. \/ \E k \in Keys : Lock(t, k)
        \/ Grab(t) \/ Synchronise(t) \/ \E k \in Keys : Query(t, k)
        \/ \E p \in Pairs : QueryTwo(t, p[1], p[2])
    BY <1>3, CallsAssumption DEF Call
  <2> QED
    BY <2>1, ReaderStep, LockStep
<1>4. ASSUME NEW t \in Threads, Step(t)
      PROVE  IInv'
  BY <1>4, ReaderStep, LockStep, GrowStep, RelinkStep, PublishStep,
     InsertNewStep DEF Step
<1> QED
  BY <1>1, <1>2, <1>3, <1>4 DEF Next

(* The types of the variables; in particular the number of buckets does not
   overflow, and no pointer leads to a node that is not there. *)
THEOREM TypeCorrect == Spec => []TypeOK
<1>1. IInv => TypeOK
  BY DEF IInv
<1> QED
  BY <1>1, InitIInv, NextIInv, PTL DEF Spec

(* MonomialMap.hpp:171-194: whatever the threads insert, and however often
   the map grows and is cleared, it holds no more entries than entryCount
   says, hence no more than a third of the buckets, rounded up. *)
THEOREM LoadStaysBounded == Spec => []LoadBounded
<1>1. IInv => LoadBounded
  BY DEF IInv
<1> QED
  BY <1>1, InitIInv, NextIInv, PTL DEF Spec

-----------------------------------------------------------------------------
(* The memory orders *)

(* A node is constructed once, with its first store. *)
IsBirth(n, i) ==
  /\ i \in 1..Len(log)
  /\ log[i].loc = NextOf(n)
  /\ \A j \in 1..(i - 1) : log[j].loc # NextOf(n)

Births == \A n \in Allocated : IsBirth(n, Birth(n))

(* A node's successor is stored only once the node is there, and with
   memory_order_relaxed. *)
SuccessorStores ==
  \A i \in 1..Len(log) : \A n \in Nat :
    log[i].loc = NextOf(n) => n \in Allocated /\ ~log[i].release

(* A pointer to a node is stored only once the node is there. *)
ValuesBorn ==
  \A i \in 1..Len(log) : \A n \in Allocated :
    log[i].val = n => Birth(n) <= i

(* The stores since the current table was published are those of inserts:
   they construct a node, or release a bucket. *)
StoresSincePublished ==
  ~Growing =>
    \A i \in 1..Len(log) :
      log[i].release \/ i <= published \/ \E n \in Allocated : i = Birth(n)

ReadersSynchronised ==
  \A t \in Threads : reader[t] = mMap => published <= seen[t]

HolderSynchronised ==
  \A t \in Threads : mInsertionMutex = t => seen[t] = Len(log)

OInv ==
  /\ IInv
  /\ Births
  /\ SuccessorStores
  /\ ValuesBorn
  /\ StoresSincePublished
  /\ ReadersSynchronised
  /\ HolderSynchronised
  /\ NodesSynchronised

-----------------------------------------------------------------------------

LEMMA BirthIs ==
  ASSUME Len(log) \in Nat, NEW n, NEW i, IsBirth(n, i)
  PROVE  Birth(n) = i
<1>1. ASSUME NEW j, IsBirth(n, j)
      PROVE  j = i
  <2>1. ~(j < i) /\ ~(i < j)
    BY <1>1 DEF IsBirth
  <2> QED
    BY <1>1, <2>1 DEF IsBirth
<1>2. IsBirth(n, Birth(n))
  BY DEF IsBirth, Birth
<1> QED
  BY <1>1, <1>2

(* The log only grows, and so a birth stays where it is. *)
LEMMA BirthKept ==
  ASSUME Len(log) \in Nat, Len(log)' \in Nat, Len(log) <= Len(log)',
         \A j \in 1..Len(log) : log'[j] = log[j],
         NEW n, IsBirth(n, Birth(n))
  PROVE  Birth(n)' = Birth(n) /\ IsBirth(n, Birth(n))'
<1> DEFINE i == Birth(n)
<1>1. /\ i \in 1..Len(log)'
      /\ log'[i].loc = NextOf(n)
      /\ \A j \in 1..(i - 1) : log'[j].loc # NextOf(n)
  BY DEF IsBirth
<1>2. ASSUME NEW j \in 1..Len(log)', log'[j].loc = NextOf(n),
             \A k \in 1..(j - 1) : log'[k].loc # NextOf(n)
      PROVE  j = i
  <2>1. ~(j < i) /\ ~(i < j)
    BY <1>1, <1>2
  <2> QED
    BY <1>1, <2>1
<1>3. (CHOOSE j \in 1..Len(log)' :
         /\ log'[j].loc = NextOf(n)
         /\ \A k \in 1..(j - 1) : log'[k].loc # NextOf(n)) = i
  BY <1>1, <1>2
<1>4. Birth(n)' = i
  BY <1>3 DEF Birth, NextOf
<1> QED
  BY <1>1, <1>4 DEF IsBirth, NextOf

LEMMA AcquiredBounds ==
  ASSUME TypeOK, NEW p \in Positions, NEW i \in Positions
  PROVE  /\ p <= Acquired(p, i)
         /\ i > 0 /\ log[i].release => i <= Acquired(p, i)
<1>1. Len(log) \in Nat
  BY DEF TypeOK
<1>2. {p, i} \in SUBSET (0..Len(log)) /\ {p, i} # {}
  BY DEF Positions
<1>3. \A x \in {p, i} : x <= Max({p, i})
  BY <1>1, <1>2, Largest, Zenon
<1>4. p \in Nat
  BY <1>1 DEF Positions
<1> QED
  BY <1>3, <1>4 DEF Acquired

(* What a search of the current table loads from a bucket has been
   constructed before what it has acquired by that. *)
LEMMA BucketLoadSynchronised ==
  ASSUME OInv, ~Growing, NEW t \in Threads, Table(t) = mMap,
         NEW k, NEW i \in Loadable(BucketOf(k, mMap), seen[t], {}),
         Value(i) # Null
  PROVE  Birth(Value(i)) <= Acquired(seen[t], i)
<1>1. /\ seen[t] \in Positions /\ Len(log) \in Nat /\ published \in Nat
      /\ i \in Positions
  BY LoadableType DEF OInv, IInv, TypeOK, Positions
<1>2. i \in 1..Len(log) /\ log[i].loc = BucketOf(k, mMap) /\ i # 0
  BY <1>1 DEF Loadable, Value, Positions
<1>3. Birth(Value(i)) <= i
  <2>1. Value(i) \in Allocated
    BY <1>1, ValueType DEF OInv, IInv, NodeOrNull, Null, Allocated
  <2> QED
    BY <1>2, <2>1 DEF OInv, ValuesBorn, Value
<1>4. \A n : log[i].loc # NextOf(n)
  BY <1>2 DEF BucketOf, Bucket, NextOf
<1>5. log[i].release \/ i <= published
  BY <1>2, <1>4 DEF OInv, StoresSincePublished, Births, IsBirth
<1>6. published <= seen[t] \/ i <= seen[t]
  BY <1>1, <1>2
     DEF OInv, ReadersSynchronised, HolderSynchronised, Table, Inserting
<1>7. i <= Acquired(seen[t], i)
  <2>1. seen[t] <= Acquired(seen[t], i) /\ Acquired(seen[t], i) \in Positions
    BY <1>1, AcquiredBounds, AcquiredType DEF OInv, IInv
  <2>2. CASE log[i].release
    <3>1. i > 0
      BY <1>1, <1>2 DEF Positions
    <3>2. TypeOK
      BY DEF OInv, IInv
    <3> QED
      BY <1>1, <2>2, <3>1, <3>2, AcquiredBounds, Zenon
  <2>3. CASE i <= published
    BY <1>1, <1>2, <1>6, <2>1, <2>3 DEF Positions
  <2> QED
    BY <1>5, <2>2, <2>3
<1>8. Birth(Value(i)) \in Int /\ Acquired(seen[t], i) \in Int
  <2>1. Value(i) \in Allocated
    BY <1>1, ValueType DEF OInv, IInv, NodeOrNull, Null, Allocated
  <2>2. Acquired(seen[t], i) \in Positions
    BY <1>1, AcquiredType DEF OInv, IInv
  <2>3. Birth(Value(i)) \in 1..Len(log)
    BY <2>1 DEF OInv, Births, IsBirth
  <2> QED
    BY <1>1, <2>2, <2>3 DEF Positions
<1> QED
  BY <1>1, <1>2, <1>3, <1>7, <1>8

(* And so has what it loads from a node it has synchronised with. *)
LEMMA SuccessorLoadSynchronised ==
  ASSUME OInv, ~Growing, NEW t \in Threads, Table(t) = mMap,
         NEW n \in Allocated, Birth(n) <= seen[t],
         NEW old, NEW i \in Loadable(NextOf(n), seen[t], old),
         Value(i) # Null
  PROVE  Birth(Value(i)) <= seen[t]
<1>1. /\ seen[t] \in Positions /\ Len(log) \in Nat /\ published \in Nat
      /\ i \in Positions /\ Len(keyOf) \in Nat
  BY LoadableType DEF OInv, IInv, TypeOK, Positions
<1>2. i \in 1..Len(log) /\ log[i].loc = NextOf(n) /\ i # 0
  BY <1>1 DEF Loadable, Value, Positions
<1>3. Birth(Value(i)) <= i
  <2>1. Value(i) \in Allocated
    BY <1>1, ValueType DEF OInv, IInv, NodeOrNull, Null, Allocated
  <2> QED
    BY <1>2, <2>1 DEF OInv, ValuesBorn, Value
<1>4. ~log[i].release
  BY <1>1, <1>2 DEF OInv, SuccessorStores, Allocated
<1>5. \A m : NextOf(m) = NextOf(n) => m = n
  BY DEF NextOf
<1>6. i <= published \/ i = Birth(n)
  BY <1>2, <1>4, <1>5 DEF OInv, StoresSincePublished, Births, IsBirth
<1>7. published <= seen[t] \/ i <= seen[t]
  BY <1>1, <1>2
     DEF OInv, ReadersSynchronised, HolderSynchronised, Table, Inserting
<1>8. Birth(Value(i)) \in Int
  <2>1. Value(i) \in Allocated
    BY <1>1, ValueType DEF OInv, IInv, NodeOrNull, Null, Allocated
  <2> QED
    BY <1>1, <2>1 DEF OInv, Births, IsBirth
<1> QED
  BY <1>1, <1>2, <1>3, <1>6, <1>7, <1>8 DEF Positions

-----------------------------------------------------------------------------
(* The invariant is inductive. *)

LEMMA InitOInv == Init => OInv
<1> SUFFICES ASSUME Init PROVE OInv
  OBVIOUS
<1> USE DEF Init
<1>1. Len(log) = 0 /\ Len(keyOf) = 0
  OBVIOUS
<1>2. Births /\ SuccessorStores /\ ValuesBorn /\ StoresSincePublished
  BY <1>1 DEF Births, SuccessorStores, ValuesBorn, StoresSincePublished,
              Allocated
<1>3. ReadersSynchronised /\ HolderSynchronised /\ NodesSynchronised
  BY <1>1, NoneAssumption
     DEF ReadersSynchronised, HolderSynchronised, NodesSynchronised, mMap
<1> QED
  BY <1>2, <1>3, InitIInv DEF OInv

(* What has been said of the log stays true as long as there is no store. *)
LEMMA LogKept ==
  ASSUME OInv, UNCHANGED <<log, keyOf>>
  PROVE  /\ Births' /\ SuccessorStores' /\ ValuesBorn'
         /\ UNCHANGED <<Allocated, Positions>>
         /\ \A n : Birth(n)' = Birth(n)
<1>1. UNCHANGED <<Allocated, Positions>>
  BY DEF Allocated, Positions
<1>2. \A n : Birth(n)' = Birth(n)
  BY DEF Birth, NextOf
<1> QED
  BY <1>1, <1>2
     DEF OInv, Births, IsBirth, SuccessorStores, ValuesBorn, NextOf

(* Whatever a reader does, its thread forgets nothing. *)
LEMMA ReaderSees ==
  ASSUME OInv, NEW t \in Threads,
         \/ Grab(t) \/ Synchronise(t) \/ \E k \in Keys : Query(t, k)
         \/ \E p \in Pairs : QueryTwo(t, p[1], p[2])
         \/ LoadBucket(t) \/ AdvanceAny(t) \/ Answer(t)
  PROVE  /\ \A u \in Threads \ {t} : seen'[u] = seen[u]
         /\ seen[t] <= seen'[t] /\ seen'[t] \in Positions
         /\ published <= seen'[t] \/ reader'[t] = reader[t]
<1>1. UNCHANGED log
  BY DEF Grab, Synchronise, Query, QueryTwo, LoadBucket, AdvanceAny, Advance,
         Answer, tableVars
<1>2. IInv'
  BY ReaderStep DEF OInv
<1>3. UNCHANGED Positions
  BY <1>1 DEF Positions
<1>4. /\ \A u \in Threads \ {t} : seen'[u] = seen[u]
      /\ seen[t] \in Positions /\ published \in Positions
      /\ Len(log) \in Nat
  BY DEF OInv, IInv, TypeOK, Grab, Synchronise, Query, QueryTwo, LoadBucket,
         AdvanceAny, Advance, Answer, See
<1>5. /\ seen[t] <= seen'[t] /\ seen'[t] \in Positions
      /\ published <= seen'[t] \/ reader'[t] = reader[t]
  <2>1. seen'[t] \in Positions
    BY <1>2, <1>3 DEF IInv, TypeOK
  <2>a. seen \in [Threads -> Positions]
    BY DEF OInv, IInv, TypeOK
  <2>2. CASE Grab(t)
    <3>1. {seen[t], published} \in SUBSET (0..Len(log))
      BY <1>4 DEF Positions
    <3>2. \A x \in {seen[t], published} : x <= Max({seen[t], published})
      BY <1>4, <3>1, Largest, Zenon
    <3> QED
      BY <2>1, <2>2, <2>a, <3>2 DEF Grab, See
  <2>3. CASE Synchronise(t)
    BY <1>4, <2>1, <2>3, <2>a DEF Synchronise, See, Positions
  <2>4. CASE \E p \in Pairs : QueryTwo(t, p[1], p[2])
    <3>1. PICK p \in Pairs : QueryTwo(t, p[1], p[2])
      BY <2>4
    <3>2. PICK i1 \in Loadable(BucketOf(p[1], reader[t]), seen[t], {}) :
          \E i2 \in Loadable(BucketOf(p[2], reader[t]),
                             Acquired(seen[t], i1), {}) :
            See(t, Acquired(Acquired(seen[t], i1), i2))
      BY <3>1 DEF QueryTwo
    <3>3. PICK i2 \in Loadable(BucketOf(p[2], reader[t]),
                               Acquired(seen[t], i1), {}) :
            See(t, Acquired(Acquired(seen[t], i1), i2))
      BY <3>2
    <3>4. TypeOK
      BY DEF OInv, IInv
    <3>5. i1 \in Positions /\ Acquired(seen[t], i1) \in Positions
      BY <1>4, <3>4, LoadableType, AcquiredType
    <3>6. i2 \in Positions
      BY <3>4, <3>5, LoadableType
    <3>7. /\ seen[t] <= Acquired(seen[t], i1)
          /\ Acquired(seen[t], i1) <= Acquired(Acquired(seen[t], i1), i2)
      BY <1>4, <3>4, <3>5, <3>6, AcquiredBounds, Zenon
    <3>8. seen'[t] = Acquired(Acquired(seen[t], i1), i2) /\ UNCHANGED reader
      BY <2>a, <3>1, <3>3 DEF See, QueryTwo
    <3> QED
      BY <1>4, <2>1, <3>5, <3>7, <3>8 DEF Positions
  <2>5. CASE LoadBucket(t)
    <3>1. PICK i \in Loadable(BucketOf(key[t], Table(t)), seen[t], {}) :
            See(t, Acquired(seen[t], i))
      BY <2>5 DEF LoadBucket
    <3>2. TypeOK
      BY DEF OInv, IInv
    <3>3. i \in Positions
      BY <1>4, <3>1, <3>2, LoadableType
    <3>4. seen[t] <= Acquired(seen[t], i)
      BY <1>4, <3>2, <3>3, AcquiredBounds, Zenon
    <3> QED
      BY <2>1, <2>5, <2>a, <3>1, <3>4 DEF See, LoadBucket
  <2>6. CASE (\E k \in Keys : Query(t, k)) \/ AdvanceAny(t) \/ Answer(t)
    BY <1>4, <2>1, <2>6
       DEF Query, AdvanceAny, Advance, Answer, Positions
  <2> QED
    BY <2>2, <2>3, <2>4, <2>5, <2>6
<1> QED
  BY <1>4, <1>5

LEMMA ReaderStepOrder ==
  ASSUME OInv, NEW t \in Threads,
         \/ Grab(t) \/ Synchronise(t) \/ \E k \in Keys : Query(t, k)
         \/ \E p \in Pairs : QueryTwo(t, p[1], p[2])
         \/ LoadBucket(t) \/ AdvanceAny(t) \/ Answer(t)
  PROVE  OInv'
<1>1. UNCHANGED <<bucketCounts, published, keyOf, log, mInsertionMutex>>
  BY DEF Grab, Synchronise, Query, QueryTwo, LoadBucket, AdvanceAny, Advance,
         Answer, tableVars
<1>2. IInv'
  BY ReaderStep DEF OInv
<1>3. /\ Births' /\ SuccessorStores' /\ ValuesBorn'
      /\ UNCHANGED <<Allocated, Positions>>
      /\ \A n : Birth(n)' = Birth(n)
  BY <1>1, LogKept
<1>4. UNCHANGED mMap /\ UNCHANGED Growing
  <2>1. \A u \in Threads : pc'[u] = "growing" <=> pc[u] = "growing"
    BY DEF OInv, IInv, TypeOK, Grab, Synchronise, Query, QueryTwo, LoadBucket,
           AdvanceAny, Advance, Answer, walkVars
  <2> QED
    BY <1>1, <2>1 DEF mMap, Growing
<1>5. StoresSincePublished'
  BY <1>1, <1>3, <1>4 DEF OInv, StoresSincePublished
<1>6. /\ \A u \in Threads \ {t} :
           /\ seen'[u] = seen[u] /\ reader'[u] = reader[u]
           /\ pc'[u] = pc[u] /\ node'[u] = node[u]
      /\ seen[t] \in Positions /\ published \in Positions
      /\ Len(log) \in Nat
  BY DEF OInv, IInv, TypeOK, Grab, Synchronise, Query, QueryTwo, LoadBucket,
         AdvanceAny, Advance, Answer, See, walkVars
<1>7. /\ seen[t] <= seen'[t] /\ seen'[t] \in Positions
      /\ published <= seen'[t] \/ reader'[t] = reader[t]
  BY ReaderSees
<1>8. ReadersSynchronised'
  BY <1>1, <1>4, <1>6, <1>7 DEF OInv, ReadersSynchronised, Positions
<1>9. HolderSynchronised'
  BY <1>1, <1>6, <1>7 DEF OInv, HolderSynchronised, Positions
<1>10. NodesSynchronised'
  <2> SUFFICES ASSUME NEW u \in Threads, pc'[u] = "search", node'[u] # Null,
                      Table(u)' = mMap, ~Growing
               PROVE  Birth(node'[u]) <= seen'[u]
    BY <1>3, <1>4 DEF NodesSynchronised
  <2>1. CASE u # t
    <3>1. Table(u)' = Table(u)
      BY <1>1, <1>4, <1>6, <2>1 DEF Table, Inserting
    <3> QED
      BY <1>6, <2>1, <3>1 DEF OInv, NodesSynchronised
  <2>2. CASE u = t /\ LoadBucket(t)
    <3>1. PICK i \in Loadable(BucketOf(key[t], Table(t)), seen[t], {}) :
            /\ node' = [node EXCEPT ![t] = Value(i)]
            /\ See(t, Acquired(seen[t], i))
      BY <2>2 DEF LoadBucket
    <3>2. Table(t) = mMap
      BY <1>1, <1>4, <2>2 DEF Table, Inserting, LoadBucket
    <3>3. node'[t] = Value(i) /\ seen'[t] = Acquired(seen[t], i)
      BY <3>1 DEF OInv, IInv, TypeOK, See
    <3>4. Value(i) # Null
      BY <2>2, <3>3
    <3>5. Birth(Value(i)) <= Acquired(seen[t], i)
      BY <3>1, <3>2, <3>4, BucketLoadSynchronised
    <3> QED
      BY <2>2, <3>3, <3>5
  <2>3. CASE u = t /\ AdvanceAny(t)
    <3>1. PICK i : Advance(t, i)
      BY <2>3 DEF AdvanceAny
    <3>2. Table(t) = mMap
      BY <1>1, <1>4, <2>3, <3>1 DEF Table, Inserting, Advance
    <3>3. /\ node'[t] = Value(i) /\ seen'[t] = seen[t]
          /\ node[t] # Null /\ pc[t] = "search"
          /\ i \in Loadable(NextOf(node[t]), seen[t], loaded[t])
      BY <3>1 DEF OInv, IInv, TypeOK, Advance
    <3>4. Birth(node[t]) <= seen[t]
      BY <3>2, <3>3 DEF OInv, NodesSynchronised
    <3>5. node[t] \in Allocated
      BY <3>3 DEF OInv, IInv, TypeOK, NodeOrNull, Null, Allocated
    <3>6. Value(i) # Null
      BY <2>3, <3>3
    <3> QED
      BY <2>3, <3>2, <3>3, <3>4, <3>5, <3>6, SuccessorLoadSynchronised
  <2>4. CASE u = t /\ ~LoadBucket(t) /\ ~AdvanceAny(t)
    BY <2>4 DEF OInv, IInv, TypeOK, HoldsLock, Grab, Synchronise, Query,
                QueryTwo, Answer, Null, walkVars
  <2> QED
    BY <2>1, <2>2, <2>3, <2>4
<1> QED
  BY <1>2, <1>3, <1>5, <1>8, <1>9, <1>10 DEF OInv

LEMMA LockStepOrder ==
  ASSUME OInv, NEW t \in Threads,
         \/ \E k \in Keys : Lock(t, k)
         \/ GrowThrows(t) \/ InsertSearch(t) \/ InsertPresent(t)
  PROVE  OInv'
<1>1. UNCHANGED <<bucketCounts, published, keyOf, log, reader>>
  BY DEF Lock, GrowThrows, InsertSearch, InsertPresent, tableVars
<1>2. IInv'
  BY LockStep DEF OInv
<1>3. /\ Births' /\ SuccessorStores' /\ ValuesBorn'
      /\ UNCHANGED <<Allocated, Positions>>
      /\ \A n : Birth(n)' = Birth(n)
  BY <1>1, LogKept
<1>4. UNCHANGED mMap /\ UNCHANGED Growing
  <2>1. \A u \in Threads : pc'[u] = "growing" <=> pc[u] = "growing"
    BY DEF OInv, IInv, TypeOK, Lock, GrowThrows, InsertSearch, InsertPresent,
           Unlock
  <2> QED
    BY <1>1, <2>1 DEF mMap, Growing
<1>5. StoresSincePublished'
  BY <1>1, <1>3, <1>4 DEF OInv, StoresSincePublished
<1>6. /\ \A u \in Threads \ {t} :
           /\ seen'[u] = seen[u] /\ pc'[u] = pc[u] /\ node'[u] = node[u]
           /\ mInsertionMutex' = u <=> mInsertionMutex = u
      /\ seen'[t] = seen[t] \/ seen'[t] = Len(log)
      /\ mInsertionMutex' = t => seen'[t] = Len(log)
      /\ pc'[t] # "search"
  <2> USE NoneAssumption DEF OInv, IInv, TypeOK
  <2>1. CASE \E k \in Keys : Lock(t, k)
    BY <2>1 DEF Lock, See, walkVars
  <2>2. CASE GrowThrows(t)
    BY <2>2 DEF GrowThrows, Unlock, HoldsLock
  <2>3. CASE InsertPresent(t)
    BY <2>3 DEF InsertPresent, Unlock, Inserting
  <2>4. CASE InsertSearch(t)
    BY <2>4 DEF InsertSearch, walkVars, HolderSynchronised
  <2> QED
    BY <2>1, <2>2, <2>3, <2>4
<1>0. Len(log) \in Nat /\ published \in Positions /\ seen[t] \in Positions
  BY DEF OInv, IInv, TypeOK
<1>7. ReadersSynchronised'
  BY <1>0, <1>1, <1>4, <1>6 DEF OInv, ReadersSynchronised, Positions
<1>8. HolderSynchronised'
  BY <1>1, <1>6 DEF OInv, HolderSynchronised
<1>9. NodesSynchronised'
  BY <1>1, <1>3, <1>4, <1>6 DEF OInv, NodesSynchronised, Table, Inserting
<1> QED
  BY <1>2, <1>3, <1>5, <1>7, <1>8, <1>9 DEF OInv

LEMMA GrowStepOrder ==
  ASSUME OInv, NEW t \in Threads, Grow(t) \/ NextBucket(t)
  PROVE  OInv'
<1>1. /\ UNCHANGED <<bucketCounts, published, keyOf, log, mInsertionMutex,
                     seen, reader>>
      /\ pc'[t] = "growing"
  BY DEF Grow, NextBucket, tableVars, OInv, IInv, TypeOK
<1>2. IInv'
  BY GrowStep DEF OInv
<1>3. Births' /\ SuccessorStores' /\ ValuesBorn'
  BY <1>1, LogKept
<1>4. Growing' /\ UNCHANGED mMap
  BY <1>1 DEF Growing, mMap
<1>5. StoresSincePublished' /\ NodesSynchronised'
  BY <1>4 DEF StoresSincePublished, NodesSynchronised
<1>6. ReadersSynchronised' /\ HolderSynchronised'
  BY <1>1, <1>4 DEF OInv, ReadersSynchronised, HolderSynchronised
<1> QED
  BY <1>2, <1>3, <1>5, <1>6 DEF OInv

(* The nodes that are relinked are there already. *)
LEMMA RelinkStepOrder ==
  ASSUME OInv, NEW t \in Threads, Relink(t)
  PROVE  OInv'
<1> DEFINE n == growing.node
           b == Bucket(mMap + 1, HashToIndex(keyOf[n], NewBucketCount))
           s1 == Store(NextOf(n), Latest(b))
           s2 == Store(b, n)
<1>1. /\ log' = log \o <<s1, s2>>
      /\ seen' = [seen EXCEPT ![t] = Len(log')]
      /\ pc[t] = "growing" /\ n # Null
      /\ UNCHANGED <<bucketCounts, published, keyOf, mInsertionMutex, reader,
                     pc>>
  BY DEF Relink
<1>2. IInv'
  BY RelinkStep DEF OInv
<1>3. TypeOK /\ TypeOK' /\ log \in Seq(Stores) /\ Len(log) \in Nat
  BY <1>2 DEF OInv, IInv, TypeOK
<1>4. /\ Len(log') = Len(log) + 2
      /\ \A j \in 1..Len(log) : log'[j] = log[j]
      /\ log'[Len(log) + 1] = s1 /\ log'[Len(log) + 2] = s2
  BY <1>1, <1>3
<1>5. UNCHANGED Allocated /\ n \in Allocated /\ UNCHANGED mMap
  BY <1>1, <1>3, SMTT(20) DEF Allocated, TypeOK, NodeOrNull, Null, mMap
<1>6. \A m \in Allocated : Birth(m)' = Birth(m) /\ IsBirth(m, Birth(m))'
  BY <1>3, <1>4, BirthKept DEF OInv, Births
<1>7. Births'
  BY <1>5, <1>6 DEF Births
<1>8. SuccessorStores'
  <2> SUFFICES ASSUME NEW i \in 1..(Len(log) + 2), NEW m \in Nat,
                      log'[i].loc = NextOf(m)
               PROVE  m \in Allocated /\ ~log'[i].release
    BY <1>4, <1>5 DEF SuccessorStores, NextOf
  <2>1. CASE i \in 1..Len(log)
    BY <1>4, <2>1 DEF OInv, SuccessorStores
  <2>2. CASE i = Len(log) + 1
    BY <1>4, <1>5, <2>2 DEF Store, NextOf
  <2>3. CASE i = Len(log) + 2
    BY <1>4, <2>3 DEF Store, NextOf, Bucket
  <2> QED
    BY <1>3, <2>1, <2>2, <2>3
<1>9. ValuesBorn'
  <2> SUFFICES ASSUME NEW i \in 1..(Len(log) + 2), NEW m \in Allocated,
                      log'[i].val = m
               PROVE  Birth(m) <= i
    BY <1>4, <1>5, <1>6 DEF ValuesBorn
  <2>1. CASE i \in 1..Len(log)
    BY <1>4, <2>1 DEF OInv, ValuesBorn
  <2>2. CASE i \notin 1..Len(log)
    <3>1. Birth(m) \in 1..Len(log)
      BY DEF OInv, Births, IsBirth
    <3> QED
      BY <1>3, <2>2, <3>1
  <2> QED
    BY <2>1, <2>2
<1>10. Growing'
  BY <1>1 DEF Growing
<1>11. StoresSincePublished' /\ NodesSynchronised'
  BY <1>10 DEF StoresSincePublished, NodesSynchronised
<1>12. seen \in [Threads -> Positions] /\ published \in Positions
  BY DEF OInv, IInv, TypeOK
<1>13. ReadersSynchronised'
  BY <1>1, <1>3, <1>4, <1>5, <1>12 DEF OInv, ReadersSynchronised, Positions
<1>14. HolderSynchronised'
  <2>1. mInsertionMutex = t
    BY <1>1 DEF OInv, IInv, HoldsLock
  <2> QED
    BY <1>1, <1>12, <2>1 DEF HolderSynchronised
<1> QED
  BY <1>2, <1>7, <1>8, <1>9, <1>11, <1>13, <1>14 DEF OInv

(* No Reader is of the table that is being published. *)
LEMMA PublishStepOrder ==
  ASSUME OInv, NEW t \in Threads, Publish(t)
  PROVE  OInv'
<1>1. /\ bucketCounts' = Append(bucketCounts, NewBucketCount)
      /\ published' = Len(log)
      /\ pc' = [pc EXCEPT ![t] = "locked"]
      /\ UNCHANGED <<keyOf, log, mInsertionMutex, seen, reader, node>>
  BY DEF Publish, walkVars
<1>2. IInv'
  BY PublishStep DEF OInv
<1>3. Births' /\ SuccessorStores' /\ ValuesBorn' /\ UNCHANGED Allocated
  BY <1>1, LogKept
<1>4. StoresSincePublished'
  BY <1>1 DEF StoresSincePublished
<1>5. mMap' = mMap + 1 /\ mMap \in Nat
  BY <1>1 DEF OInv, IInv, TypeOK, mMap
<1>6. \A u \in Threads : reader[u] # mMap'
  BY <1>5, NoneAssumption DEF OInv, IInv, TypeOK
<1>7. ReadersSynchronised' /\ HolderSynchronised'
  BY <1>1, <1>6 DEF OInv, ReadersSynchronised, HolderSynchronised
<1>8. NodesSynchronised'
  <2>1. mInsertionMutex = t /\ pc'[t] = "locked"
    BY <1>1 DEF OInv, IInv, HoldsLock, TypeOK, Publish
  <2>2. \A u \in Threads : pc'[u] = "search" => Table(u)' # mMap'
    BY <1>1, <1>6, <2>1 DEF Table, Inserting
  <2> QED
    BY <2>2 DEF NodesSynchronised
<1> QED
  BY <1>2, <1>3, <1>4, <1>7, <1>8 DEF OInv

(* The new node has not been pointed to before. *)
LEMMA InsertNewStepOrder ==
  ASSUME OInv, NEW t \in Threads, InsertNew(t)
  PROVE  OInv'
<1>0. PICK n \in Nat : n = Len(keyOf) + 1
  BY DEF OInv, IInv, TypeOK
<1> DEFINE b == BucketOf(key[t], mMap)
           s1 == Store(NextOf(n), Latest(b))
           s2 == StoreRelease(b, n)
<1>1. /\ keyOf' = Append(keyOf, key[t])
      /\ log' = log \o <<s1, s2>>
      /\ seen' = [seen EXCEPT ![t] = Len(log')]
      /\ mInsertionMutex' = NoThread
      /\ pc' = [pc EXCEPT ![t] = "idle"]
      /\ node' = [node EXCEPT ![t] = Null]
      /\ pc[t] = "search" /\ mInsertionMutex = t
      /\ UNCHANGED <<bucketCounts, published, reader>>
  BY <1>0 DEF InsertNew, Unlock, Inserting
<1>2. IInv'
  BY InsertNewStep DEF OInv
<1>3. /\ TypeOK /\ TypeOK' /\ log \in Seq(Stores) /\ Len(log) \in Nat
      /\ keyOf \in Seq(Keys) /\ Len(keyOf) \in Nat
  BY SMTT(20), <1>2 DEF OInv, IInv, TypeOK
<1>4. /\ Len(log') = Len(log) + 2
      /\ \A j \in 1..Len(log) : log'[j] = log[j]
      /\ log'[Len(log) + 1] = s1 /\ log'[Len(log) + 2] = s2
  BY <1>1, <1>3
<1>5. Allocated' = Allocated \cup {n} /\ n \notin Allocated /\ UNCHANGED mMap
  BY <1>0, <1>1, <1>3 DEF Allocated, mMap
<1>6. \A m \in Allocated : Birth(m)' = Birth(m) /\ IsBirth(m, Birth(m))'
  BY <1>3, <1>4, BirthKept DEF OInv, Births
<1>7. Birth(n)' = Len(log) + 1 /\ IsBirth(n, Birth(n))'
  <2>1. \A j \in 1..Len(log) : log[j].loc # NextOf(n)
    BY <1>3, <1>5 DEF OInv, SuccessorStores
  <2> DEFINE i == Len(log) + 1
  <2>2. /\ i \in 1..Len(log') /\ log'[i].loc = NextOf(n)
        /\ \A j \in 1..(i - 1) : log'[j].loc # NextOf(n)
    BY <1>3, <1>4, <2>1 DEF Store
  <2>3. ASSUME NEW j \in 1..Len(log'), log'[j].loc = NextOf(n),
               \A k \in 1..(j - 1) : log'[k].loc # NextOf(n)
        PROVE  j = i
    <3>1. ~(j < i) /\ ~(i < j)
      BY <1>3, <2>2, <2>3
    <3> QED
      BY <1>3, <2>2, <3>1
  <2>4. (CHOOSE j \in 1..Len(log') :
           /\ log'[j].loc = NextOf(n)
           /\ \A k \in 1..(j - 1) : log'[k].loc # NextOf(n)) = i
    BY <2>2, <2>3
  <2>5. Birth(n)' = i
    BY <2>4 DEF Birth, NextOf
  <2> QED
    BY <2>2, <2>5 DEF IsBirth, NextOf
<1>8. Births'
  BY <1>5, <1>6, <1>7 DEF Births
<1>9. SuccessorStores'
  <2> SUFFICES ASSUME NEW i \in 1..(Len(log) + 2), NEW m \in Nat,
                      log'[i].loc = NextOf(m)
               PROVE  m \in Allocated' /\ ~log'[i].release
    BY <1>4 DEF SuccessorStores, NextOf
  <2>1. CASE i \in 1..Len(log)
    BY <1>4, <1>5, <2>1 DEF OInv, SuccessorStores
  <2>2. CASE i = Len(log) + 1
    BY <1>4, <1>5, <2>2 DEF Store, NextOf
  <2>3. CASE i = Len(log) + 2
    BY <1>4, <2>3 DEF StoreRelease, NextOf, BucketOf, Bucket
  <2> QED
    BY <1>3, <2>1, <2>2, <2>3
<1>10. ValuesBorn'
  <2> SUFFICES ASSUME NEW i \in 1..(Len(log) + 2), NEW m \in Allocated',
                      log'[i].val = m
               PROVE  Birth(m)' <= i
    BY <1>4 DEF ValuesBorn
  <2>1. CASE i \in 1..Len(log)
    <3>1. log[i].val \in 0..Len(keyOf)
      <4>1. log[i] \in Stores
        BY <1>3, <2>1, ElementOfSeq
      <4> QED
        BY <4>1 DEF Stores, NodeOrNull
    <3>2. m \in Allocated
      BY <1>0, <1>3, <1>4, <1>5, <2>1, <3>1 DEF Allocated
    <3> QED
      BY <1>4, <1>6, <2>1, <3>2 DEF OInv, ValuesBorn
  <2>2. CASE i \notin 1..Len(log)
    <3>1. CASE m \in Allocated
      <4>1. Birth(m) \in 1..Len(log)
        BY <3>1 DEF OInv, Births, IsBirth
      <4> QED
        BY <1>3, <1>6, <2>2, <3>1, <4>1
    <3>2. CASE m = n
      BY <1>3, <1>7, <2>2, <3>2
    <3> QED
      BY <1>5, <3>1, <3>2
  <2> QED
    BY <2>1, <2>2
<1>11. UNCHANGED Growing
  BY <1>1 DEF OInv, IInv, TypeOK, Growing
<1>12. StoresSincePublished'
  <2> SUFFICES ASSUME ~Growing, NEW i \in 1..(Len(log) + 2)
               PROVE  \/ log'[i].release \/ i <= published
                      \/ \E m \in Allocated' : i = Birth(m)'
    BY <1>1, <1>4, <1>11 DEF StoresSincePublished
  <2>1. CASE i \in 1..Len(log)
    BY <1>4, <1>5, <1>6, <2>1 DEF OInv, StoresSincePublished
  <2>2. CASE i = Len(log) + 1
    BY <1>5, <1>7, <2>2
  <2>3. CASE i = Len(log) + 2
    BY <1>4, <2>3 DEF StoreRelease
  <2> QED
    BY <1>3, <2>1, <2>2, <2>3
<1>13. seen \in [Threads -> Positions] /\ published \in Positions
  BY DEF OInv, IInv, TypeOK
<1>14. ReadersSynchronised'
  BY <1>1, <1>3, <1>4, <1>5, <1>13 DEF OInv, ReadersSynchronised, Positions
<1>15. HolderSynchronised'
  BY <1>1, NoneAssumption DEF HolderSynchronised
<1>16. NodesSynchronised'
  <2> SUFFICES ASSUME NEW u \in Threads, pc'[u] = "search", node'[u] # Null,
                      Table(u)' = mMap, ~Growing
               PROVE  Birth(node[u])' <= seen'[u]
    BY <1>1, <1>5, <1>11
       DEF OInv, IInv, TypeOK, NodesSynchronised, Birth, NextOf
  <2>1. u # t /\ pc[u] = "search" /\ node'[u] = node[u] /\ seen'[u] = seen[u]
    BY <1>1, <1>13 DEF OInv, IInv, TypeOK
  <2>2. Table(u) = mMap
    BY <1>1, <2>1, NoneAssumption DEF Table, Inserting
  <2>3. node[u] \in Allocated
    BY <2>1 DEF OInv, IInv, TypeOK, NodeOrNull, Null, Allocated
  <2> QED
    BY <1>6, <2>1, <2>2, <2>3 DEF OInv, NodesSynchronised
<1> QED
  BY <1>2, <1>8, <1>9, <1>10, <1>12, <1>14, <1>15, <1>16 DEF OInv

LEMMA ClearStepOrder ==
  ASSUME OInv, ClearNonConcurrent
  PROVE  OInv'
<1>1. /\ keyOf' = <<>> /\ log' = <<>> /\ published' = 0
      /\ seen' = [t \in Threads |-> 0]
      /\ reader' = [t \in Threads |-> NoReader]
      /\ \A t \in Threads : pc[t] = "idle"
      /\ UNCHANGED <<bucketCounts, mInsertionMutex, pc>>
  BY DEF ClearNonConcurrent
<1>2. IInv'
  BY ClearStep DEF OInv
<1>3. Len(log') = 0 /\ Len(keyOf') = 0
  BY <1>1
<1>4. Births' /\ SuccessorStores' /\ ValuesBorn' /\ StoresSincePublished'
  BY <1>3 DEF Births, SuccessorStores, ValuesBorn, StoresSincePublished,
              Allocated
<1>5. ReadersSynchronised' /\ HolderSynchronised' /\ NodesSynchronised'
  BY <1>1, <1>3
     DEF ReadersSynchronised, HolderSynchronised, NodesSynchronised
<1> QED
  BY <1>2, <1>4, <1>5 DEF OInv

LEMMA NextOInv ==
  ASSUME OInv, [Next]_vars
  PROVE  OInv'
<1>1. CASE UNCHANGED vars
  <2>1. IInv'
    BY <1>1, NextIInv DEF OInv
  <2>2. /\ Births' /\ SuccessorStores' /\ ValuesBorn'
        /\ UNCHANGED <<Allocated, Positions>>
        /\ \A n : Birth(n)' = Birth(n)
    BY <1>1, LogKept DEF vars, tableVars
  <2>3. UNCHANGED mMap /\ UNCHANGED Growing
    BY <1>1 DEF vars, tableVars, mMap, Growing
  <2>4. StoresSincePublished' /\ ReadersSynchronised' /\ HolderSynchronised'
    BY <1>1, <2>2, <2>3
       DEF vars, tableVars, OInv, StoresSincePublished, ReadersSynchronised,
           HolderSynchronised
  <2>5. NodesSynchronised'
    BY <1>1, <2>2, <2>3
       DEF vars, walkVars, OInv, NodesSynchronised, Table, Inserting
  <2> QED
    BY <2>1, <2>2, <2>4, <2>5 DEF OInv
<1>2. CASE ClearNonConcurrent
  BY <1>2, ClearStepOrder
<1>3. ASSUME NEW t \in Threads, Call(t)
      PROVE  OInv'
  <2>1. \/ \E k \in Keys : Lock(t, k)
        \/ Grab(t) \/ Synchronise(t) \/ \E k \in Keys : Query(t, k)
        \/ \E p \in Pairs : QueryTwo(t, p[1], p[2])
    BY <1>3, CallsAssumption DEF Call
  <2> QED
    BY <2>1, ReaderStepOrder, LockStepOrder
<1>4. ASSUME NEW t \in Threads, Step(t)
      PROVE  OInv'
  BY <1>4, ReaderStepOrder, LockStepOrder, GrowStepOrder, RelinkStepOrder,
     PublishStepOrder, InsertNewStepOrder DEF Step
<1> QED
  BY <1>1, <1>2, <1>3, <1>4 DEF Next

(* FixedSizeMonomialMap.h:219-222, MonomialMap.hpp:185-188: the release of a
   bucket by insert, and the lock and the load of mMap, synchronise a thread
   with every node that it comes to in the current table; the relaxed stores
   of the rehashing constructor are no exception unless it runs. *)
THEOREM OrdersSuffice == Spec => []NodesSynchronised
<1>1. OInv => NodesSynchronised
  BY DEF OInv
<1> QED
  BY <1>1, InitOInv, NextOInv, PTL DEF Spec

-----------------------------------------------------------------------------
(* Chains.  A chain is what every closed set that holds its first node has *)
(* in common, so that what is reached is argued about without induction:   *)
(* to show that a chain keeps clear of a node, name a closed set that does.*)

(* n is on the chain that starts from m, as the latest stores have it. *)
Leads(m, n) == \A S \in SUBSET NodeOrNull : m \in S /\ Closed(S) => n \in S

InBucket(i, bucketCount) == {n \in Allocated : HashToIndex(keyOf[n], bucketCount) = i}

(* Only the table that is being built is stored to ahead of mMap. *)
NoTableAhead ==
  \A i \in 1..Len(log) : \A table, x \in Nat :
    log[i].loc = Bucket(table, x) => table <= mMap \/ (Growing /\ table = mMap + 1)

(* A thread synchronises with a node and the bucket that leads to it at once. *)
Whole(p) == p # 0 => \A n \in Nat : log[p].loc # NextOf(n)

SeenWhole ==
  Whole(Len(log)) /\ Whole(published) /\ \A t \in Threads : Whole(seen[t])

BirthsPaired ==
  ~Growing =>
    \A n \in Allocated :
      Birth(n) > published =>
        /\ Birth(n) < Len(log)
        /\ log[Birth(n) + 1].loc = BucketOf(keyOf[n], mMap)

(* A bucket's store leads to the nodes that were there when it was made. *)
BucketsLead ==
  ~Growing =>
    \A x \in 0..(BucketCount(mMap) - 1), i \in Positions :
      /\ i = 0 \/ log[i].loc = Bucket(mMap, x)
      /\ \A j \in 1..published : i < j => log[j].loc # Bucket(mMap, x)
      => \A n \in InBucket(x, BucketCount(mMap)) :
           Birth(n) <= published \/ Birth(n) <= i => Leads(Value(i), n)

(* Chains do not leave their buckets, nor come back to a node. *)
BucketsPure ==
  ~Growing =>
    \A x \in 0..(BucketCount(mMap) - 1) :
      /\ Closed({Null} \cup InBucket(x, BucketCount(mMap)))
      /\ Latest(Bucket(mMap, x)) \in {Null} \cup InBucket(x, BucketCount(mMap))

Acyclic == \A n \in Allocated : ~Leads(Latest(NextOf(n)), n)

(* The nodes the rehashing constructor has moved. *)
Moved ==
  {n \in Allocated :
     LET i == HashToIndex(keyOf[n], BucketCount(mMap))
     IN  \/ i < growing.bucket
         \/ i = growing.bucket /\ ~Leads(growing.node, n)}

MovedAreThere ==
  Growing =>
    \A x \in 0..(NewBucketCount - 1) :
      LET moved == Moved \cap InBucket(x, NewBucketCount)
          head == Latest(Bucket(mMap + 1, x))
      IN  /\ Closed({Null} \cup moved)
          /\ head \in {Null} \cup moved
          /\ \A n \in moved : Leads(head, n)

OthersRemain ==
  Growing =>
    /\ \A n \in Allocated :
         Leads(growing.node, n) => n \in InBucket(growing.bucket, BucketCount(mMap))
    /\ \A x \in 0..(BucketCount(mMap) - 1) :
         x > growing.bucket =>
           LET nodes == InBucket(x, BucketCount(mMap))
               head == Latest(Bucket(mMap, x))
           IN  /\ Closed({Null} \cup nodes)
               /\ head \in {Null} \cup nodes
               /\ \A n \in nodes : Leads(head, n)

(* A search has the nodes of its key that its thread has synchronised with
   still before it. *)
SearchLeads ==
  \A t \in Threads :
    pc[t] = "search" /\ Table(t) = mMap /\ ~Growing =>
      \A n \in Allocated :
        keyOf[n] = key[t] /\ Birth(n) <= seen[t] => Leads(node[t], n)

CapacityExact ==
  clears = 0 => MaxEntries(BucketCount(mMap)) - mCapacityUntilGrowth = Len(keyOf)

ChainInv ==
  /\ OInv
  /\ NoTableAhead
  /\ SeenWhole
  /\ BirthsPaired
  /\ BucketsLead
  /\ BucketsPure
  /\ Acyclic
  /\ MovedAreThere
  /\ OthersRemain
  /\ SearchLeads
  /\ OneNodePerKey
  /\ CapacityExact

-----------------------------------------------------------------------------
(* The latest store of a place, in any log *)

LastIn(l, loc, p) == Max({0} \cup {i \in 1..p : l[i].loc = loc})
At(l, i, loc) == l[i].loc = loc

LEMMA LastInFound ==
  ASSUME NEW l, NEW loc, NEW p \in Nat
  PROVE  LET i == LastIn(l, loc, p)
         IN  /\ i \in 0..p
             /\ i = 0 \/ At(l, i, loc)
             /\ \A j \in 1..p : i < j => ~At(l, j, loc)
<1> DEFINE S == {0} \cup {i \in 1..p : At(l, i, loc)}
<1>1. S \in SUBSET (0..p) /\ S # {}
  OBVIOUS
<1>2. Max(S) \in S /\ \A x \in S : x <= Max(S)
  BY <1>1, Largest, Zenon
<1>3. Max(S) \in 0..p
  BY <1>1, <1>2
<1>4. ASSUME NEW j \in 1..p, Max(S) < j, At(l, j, loc)
      PROVE  FALSE
  BY <1>2, <1>3, <1>4
<1>5. LastIn(l, loc, p) = Max(S)
  BY DEF LastIn, At
<1> QED
  BY <1>2, <1>3, <1>4, <1>5

LEMMA LastInIs ==
  ASSUME NEW l, NEW loc, NEW p \in Nat, NEW i \in 0..p, i = 0 \/ At(l, i, loc),
         \A j \in 1..p : i < j => ~At(l, j, loc)
  PROVE  LastIn(l, loc, p) = i
<1>1. /\ LastIn(l, loc, p) \in 0..p
      /\ LastIn(l, loc, p) = 0 \/ At(l, LastIn(l, loc, p), loc)
      /\ \A j \in 1..p : LastIn(l, loc, p) < j => ~At(l, j, loc)
  BY LastInFound
<1>2. ~(LastIn(l, loc, p) < i) /\ ~(i < LastIn(l, loc, p))
  BY <1>1
<1> QED
  BY <1>1, <1>2

LEMMA LastInAfter ==
  ASSUME NEW n \in Nat, NEW l, NEW r, NEW loc, \A j \in 1..n : r[j] = l[j]
  PROVE  /\ At(r, n + 2, loc) => LastIn(r, loc, n + 2) = n + 2
         /\ ~At(r, n + 2, loc) /\ At(r, n + 1, loc) => LastIn(r, loc, n + 2) = n + 1
         /\ ~At(r, n + 2, loc) /\ ~At(r, n + 1, loc) =>
              LastIn(r, loc, n + 2) = LastIn(l, loc, n)
<1> DEFINE i == LastIn(l, loc, n)
<1>1. /\ i \in 0..n
      /\ i = 0 \/ At(l, i, loc)
      /\ \A j \in 1..n : i < j => ~At(l, j, loc)
  BY LastInFound
<1>2. n + 2 \in Nat /\ n + 2 \in 0..(n + 2) /\ n + 1 \in 0..(n + 2) /\ i \in 0..(n + 2)
  BY <1>1
<1>3. ASSUME At(r, n + 2, loc)
      PROVE  LastIn(r, loc, n + 2) = n + 2
  <2>1. \A j \in 1..(n + 2) : n + 2 < j => ~At(r, j, loc)
    OBVIOUS
  <2> QED
    BY <1>2, <1>3, <2>1, LastInIs
<1>4. ASSUME ~At(r, n + 2, loc), At(r, n + 1, loc)
      PROVE  LastIn(r, loc, n + 2) = n + 1
  <2>1. \A j \in 1..(n + 2) : n + 1 < j => ~At(r, j, loc)
    BY <1>4
  <2> QED
    BY <1>2, <1>4, <2>1, LastInIs
<1>5. ASSUME ~At(r, n + 2, loc), ~At(r, n + 1, loc)
      PROVE  LastIn(r, loc, n + 2) = i
  <2>1. \A j \in 1..n : At(r, j, loc) <=> At(l, j, loc)
    BY DEF At
  <2>2. \A j \in 1..(n + 2) : i < j => ~At(r, j, loc)
    BY <1>1, <1>5, <2>1
  <2>3. i = 0 \/ At(r, i, loc)
    BY <1>1, <2>1
  <2> HIDE DEF i
  <2> QED
    BY <1>2, <2>2, <2>3, LastInIs
<1> QED
  BY <1>3, <1>4, <1>5

LEMMA LastStoreFound ==
  ASSUME NEW loc, NEW p \in Nat
  PROVE  LET i == LastStore(loc, p)
         IN  /\ i \in 0..p
             /\ i = 0 \/ log[i].loc = loc
             /\ \A j \in 1..p : i < j => log[j].loc # loc
<1>1. LastStore(loc, p) = LastIn(log, loc, p)
  BY DEF LastStore, LastIn
<1> QED
  BY <1>1, LastInFound DEF At

(* The effect of two stores *)
LEMMA LatestAfter ==
  ASSUME TypeOK, NEW s1, NEW s2, log' = log \o <<s1, s2>>, NEW loc
  PROVE  Latest(loc)' = IF s2.loc = loc THEN s2.val
                        ELSE IF s1.loc = loc THEN s1.val ELSE Latest(loc)
<1>1. PICK n, l, r :
        /\ n \in Nat /\ n = Len(log) /\ l = log /\ r = log'
  <2>1. Len(log) \in Nat
    BY DEF TypeOK
  <2> QED
    BY <2>1
<1>2. /\ Len(log') = n + 2
      /\ \A j \in 1..n : r[j] = l[j]
      /\ r[n + 1] = s1 /\ r[n + 2] = s2
  <2>1. log \in Seq(Stores)
    BY DEF TypeOK
  <2> QED
    BY <1>1, <2>1
<1>3. LastIn(r, loc, n + 2) =
        IF s2.loc = loc THEN n + 2
        ELSE IF s1.loc = loc THEN n + 1 ELSE LastIn(l, loc, n)
  <2>1. n \in Nat /\ \A j \in 1..n : r[j] = l[j]
    BY <1>1, <1>2
  <2>2. /\ At(r, n + 2, loc) => LastIn(r, loc, n + 2) = n + 2
        /\ ~At(r, n + 2, loc) /\ At(r, n + 1, loc) => LastIn(r, loc, n + 2) = n + 1
        /\ ~At(r, n + 2, loc) /\ ~At(r, n + 1, loc) =>
             LastIn(r, loc, n + 2) = LastIn(l, loc, n)
    BY <2>1, LastInAfter, ZenonT(40)
  <2> QED
    BY <1>2, <2>2 DEF At
<1>4. LastIn(l, loc, n) \in 0..n
  BY <1>1, LastInFound
<1>5. LastStore(loc, Len(log)) = LastIn(l, loc, n)
  BY <1>1 DEF LastStore, LastIn
<1>6. LastStore(loc, Len(log))' = LastIn(r, loc, n + 2)
  BY <1>1, <1>2 DEF LastStore, LastIn
<1>7. /\ Latest(loc) = IF LastIn(l, loc, n) = 0 THEN Null ELSE l[LastIn(l, loc, n)].val
      /\ Latest(loc)' = IF LastIn(r, loc, n + 2) = 0 THEN Null
                        ELSE r[LastIn(r, loc, n + 2)].val
  BY <1>1, <1>5, <1>6 DEF Latest, Value, Null
<1> QED
  BY <1>1, <1>2, <1>3, <1>4, <1>7

-----------------------------------------------------------------------------
(* Chains *)

LEMMA SuccessorType ==
  ASSUME TypeOK, NEW n
  PROVE  Latest(NextOf(n)) \in NodeOrNull /\ Null \in NodeOrNull
BY LatestType DEF TypeOK, NodeOrNull, Null

LEMMA ChainIsWhatLeads ==
  ASSUME NEW m, NEW n \in Allocated, TypeOK
  PROVE  n \in Chain(m) <=> Leads(m, n)
<1>1. \A S \in SUBSET NodeOrNull : n \notin S <=> S \in SUBSET (NodeOrNull \ {n})
  OBVIOUS
<1> QED
  BY <1>1 DEF Chain, Leads

LEMMA LeadsToItself == \A m : Leads(m, m)
BY DEF Leads

(* A chain is followed from node to node, and ends with null. *)
LEMMA LeadsOn ==
  ASSUME TypeOK, NEW m \in NodeOrNull, NEW n, m # n, Leads(m, n), n # Null
  PROVE  m # Null /\ Leads(Latest(NextOf(m)), n)
<1>1. m # Null
  <2>1. {Null} \in SUBSET NodeOrNull /\ Closed({Null})
    BY SuccessorType DEF Closed
  <2> QED
    BY <2>1 DEF Leads
<1> SUFFICES ASSUME NEW S \in SUBSET NodeOrNull, Latest(NextOf(m)) \in S, Closed(S)
             PROVE  n \in S
  BY <1>1 DEF Leads
<1>2. Closed(S \cup {m}) /\ S \cup {m} \in SUBSET NodeOrNull
  BY DEF Closed
<1> QED
  BY <1>2 DEF Leads

LEMMA LeadsFrom ==
  ASSUME NEW m, m # Null, NEW n, Leads(Latest(NextOf(m)), n)
  PROVE  Leads(m, n)
BY DEF Leads, Closed

LEMMA NullLeadsNowhere ==
  ASSUME TypeOK, NEW n, n # Null
  PROVE  ~Leads(Null, n)
BY LeadsOn, SuccessorType

(* A chain does not change if a closed set it lies in does not. *)
LEMMA LeadsKept ==
  ASSUME TypeOK, NodeOrNull \subseteq NodeOrNull',
         NEW C \in SUBSET NodeOrNull, Closed(C),
         \A x \in C \ {Null} : Latest(NextOf(x))' = Latest(NextOf(x)),
         NEW m \in C, NEW n
  PROVE  Closed(C)' /\ (Leads(m, n)' <=> Leads(m, n))
<1>1. Null' = Null
  BY DEF Null
<1>2. Closed(C)'
  BY <1>1 DEF Closed, NextOf
<1>3. ASSUME Leads(m, n)
      PROVE  Leads(m, n)'
  <2> SUFFICES ASSUME NEW S \in SUBSET NodeOrNull', m \in S, Closed(S)'
               PROVE  n \in S
    BY DEF Leads
  <2>1. S \cap C \in SUBSET NodeOrNull /\ Closed(S \cap C)
    BY <1>1 DEF Closed, NextOf
  <2> QED
    BY <1>3, <2>1 DEF Leads
<1>4. ASSUME Leads(m, n)'
      PROVE  Leads(m, n)
  <2> SUFFICES ASSUME NEW S \in SUBSET NodeOrNull, m \in S, Closed(S)
               PROVE  n \in S
    BY DEF Leads
  <2>1. S \cap C \in SUBSET NodeOrNull' /\ Closed(S \cap C)'
    BY <1>1 DEF Closed, NextOf
  <2> QED
    BY <1>4, <2>1 DEF Leads
<1> QED
  BY <1>2, <1>3, <1>4

-----------------------------------------------------------------------------
(* What follows from the invariant *)

LEMMA LatestOf ==
  ASSUME TypeOK, NEW loc
  PROVE  \E i \in Positions :
           /\ i = LastStore(loc, Len(log)) /\ Latest(loc) = Value(i)
           /\ i = 0 \/ log[i].loc = loc
           /\ \A j \in 1..Len(log) : i < j => log[j].loc # loc
<1>1. Len(log) \in Nat
  BY DEF TypeOK
<1> QED
  BY <1>1, LastStoreFound DEF Latest, Positions

LEMMA IndexType ==
  ASSUME TypeOK, NEW k \in Keys
  PROVE  /\ HashToIndex(k, BucketCount(mMap)) \in 0..(BucketCount(mMap) - 1)
         /\ NewBucketCount \in Nat
         /\ HashToIndex(k, NewBucketCount) \in 0..(NewBucketCount - 1)
<1>1. BucketCount(mMap) \in Nat \ {0}
  BY CurrentTable
<1>2. NewBucketCount \in Nat \ {0}
  BY <1>1 DEF NewBucketCount, GrowthFactor
<1>3. Hash[k] \in Nat
  BY HashAssumption
<1> QED
  BY <1>1, <1>2, <1>3 DEF HashToIndex

LEMMA KeyOfNode ==
  ASSUME TypeOK, NEW n \in Allocated
  PROVE  keyOf[n] \in Keys /\ n \in Nat /\ n # Null /\ n \in NodeOrNull
BY DEF TypeOK, Allocated, Null, NodeOrNull

LEMMA BirthType ==
  ASSUME OInv, NEW n \in Allocated
  PROVE  /\ Birth(n) \in 1..Len(log) /\ Birth(n) \in Nat
         /\ log[Birth(n)].loc = NextOf(n)
<1>1. Len(log) \in Nat
  BY DEF OInv, IInv, TypeOK
<1> QED
  BY <1>1 DEF OInv, Births, IsBirth

(* The holder of the lock, and nobody else, grows the map. *)
LEMMA HolderNotGrowing ==
  ASSUME IInv, NEW t \in Threads, mInsertionMutex = t, pc[t] # "growing"
  PROVE  ~Growing
BY OnlyHolder DEF Growing

(* A bucket of the current table leads to all of its nodes. *)
LEMMA CurrentLeads ==
  ASSUME ChainInv, ~Growing, NEW x \in 0..(BucketCount(mMap) - 1),
         NEW n \in InBucket(x, BucketCount(mMap))
  PROVE  Leads(Latest(Bucket(mMap, x)), n)
<1> DEFINE b == Bucket(mMap, x)
<1>1. TypeOK /\ OInv /\ Len(log) \in Nat /\ published \in Nat /\ published <= Len(log)
  BY DEF ChainInv, OInv, IInv, TypeOK, Positions
<1>2. PICK i \in Positions :
        /\ Latest(b) = Value(i)
        /\ i = 0 \/ log[i].loc = b
        /\ \A j \in 1..Len(log) : i < j => log[j].loc # b
  BY <1>1, LatestOf
<1>3. n \in Allocated /\ b = BucketOf(keyOf[n], mMap)
  BY DEF InBucket, BucketOf
<1>4. Birth(n) \in Nat
  BY <1>1, <1>3, BirthType
<1>5. \A j \in 1..published : i < j => log[j].loc # b
  BY <1>1, <1>2
<1>6. Birth(n) <= published \/ Birth(n) <= i
  <2>1. CASE Birth(n) > published
    <3>1. Birth(n) < Len(log) /\ log[Birth(n) + 1].loc = b
      BY <1>3, <2>1 DEF ChainInv, BirthsPaired
    <3> QED
      BY <1>1, <1>2, <1>4, <3>1 DEF Positions
  <2> QED
    BY <1>1, <1>4, <2>1
<1> QED
  BY <1>2, <1>5, <1>6 DEF ChainInv, BucketsLead

(* Whoever searches the current table has seen how it was published. *)
LEMMA SeenSincePublished ==
  ASSUME OInv, NEW t \in Threads, Table(t) = mMap
  PROVE  published <= seen[t]
<1>1. published <= Len(log)
  BY DEF OInv, IInv, TypeOK, Positions
<1> QED
  BY <1>1 DEF OInv, ReadersSynchronised, HolderSynchronised, Table, Inserting

(* What a search loads from a bucket leads to the nodes that it has to find. *)
LEMMA BucketLoadLeads ==
  ASSUME ChainInv, ~Growing, NEW t \in Threads, Table(t) = mMap,
         NEW n \in Allocated, NEW i \in Loadable(BucketOf(keyOf[n], mMap), seen[t], {}),
         Birth(n) <= Acquired(seen[t], i)
  PROVE  Leads(Value(i), n)
<1> DEFINE x == HashToIndex(keyOf[n], BucketCount(mMap))
           b == Bucket(mMap, x)
<1>1. /\ TypeOK /\ OInv /\ Len(log) \in Nat /\ published \in Nat
      /\ seen[t] \in Nat /\ seen[t] \in Positions /\ seen[t] <= Len(log)
  BY DEF ChainInv, OInv, IInv, TypeOK, Positions
<1>2. i \in Positions /\ i \in Nat /\ b = BucketOf(keyOf[n], mMap)
  BY <1>1, LoadableType DEF Positions, BucketOf
<1>3. /\ published <= seen[t] /\ Birth(n) \in Nat /\ Birth(n) # 0
      /\ log[Birth(n)].loc = NextOf(n)
  BY <1>1, SeenSincePublished, BirthType
<1>4. x \in 0..(BucketCount(mMap) - 1) /\ n \in InBucket(x, BucketCount(mMap))
      /\ n \in Nat
  BY <1>1, IndexType, KeyOfNode DEF InBucket
<1>5. /\ i = 0 \/ log[i].loc = b
      /\ LastStore(b, seen[t]) <= i
  BY <1>2 DEF Loadable
<1>6. \A j \in 1..seen[t] : i < j => log[j].loc # b
  <2>1. /\ LastStore(b, seen[t]) \in 0..seen[t]
        /\ \A j \in 1..seen[t] : LastStore(b, seen[t]) < j => log[j].loc # b
    BY <1>1, LastStoreFound
  <2> QED
    BY <1>1, <1>2, <1>5, <2>1
<1>7. Birth(n) <= published \/ Birth(n) <= i
  <2> SUFFICES ASSUME Birth(n) > published
               PROVE  Birth(n) <= i
    BY <1>1, <1>3
  <2>1. log[Birth(n) + 1].loc = b
    BY <1>2 DEF ChainInv, BirthsPaired
  <2>2. Acquired(seen[t], i) = seen[t] \/ Acquired(seen[t], i) = i
    <3>1. {seen[t], i} \in SUBSET (0..Len(log)) /\ {seen[t], i} # {}
      BY <1>1, <1>2 DEF Positions
    <3>2. Max({seen[t], i}) \in {seen[t], i}
      BY <1>1, <3>1, Largest, Zenon
    <3> QED
      BY <3>2 DEF Acquired
  <2>3. CASE Birth(n) <= seen[t]
    <3>1. seen[t] # Birth(n)
      BY <1>3, <1>4, <2>3 DEF ChainInv, SeenWhole, Whole
    <3>2. Birth(n) + 1 \in 1..seen[t]
      BY <1>1, <1>3, <2>3, <3>1
    <3> QED
      BY <1>2, <1>3, <1>6, <2>1, <3>2
  <2> QED
    BY <2>2, <2>3
<1>8. \A j \in 1..published : i < j => log[j].loc # b
  BY <1>1, <1>3, <1>6
<1> QED
  BY <1>2, <1>4, <1>5, <1>7, <1>8 DEF ChainInv, BucketsLead

(* A search of the current table loads the latest successor of a node. *)
LEMMA SuccessorLoadLatest ==
  ASSUME OInv, ~Growing, NEW t \in Threads, Table(t) = mMap,
         NEW n \in Allocated, Birth(n) <= seen[t],
         NEW old, NEW i \in Loadable(NextOf(n), seen[t], old)
  PROVE  Value(i) = Latest(NextOf(n))
<1> DEFINE loc == NextOf(n)
<1>1. /\ TypeOK /\ Len(log) \in Nat /\ published \in Nat
      /\ seen[t] \in Nat /\ seen[t] \in Positions /\ seen[t] <= Len(log)
  BY DEF OInv, IInv, TypeOK, Positions
<1>2. i \in Positions /\ i \in Nat
  BY <1>1, LoadableType DEF Positions
<1>3. PICK e \in Positions :
        /\ e = LastStore(loc, Len(log)) /\ Latest(loc) = Value(e)
        /\ e = 0 \/ log[e].loc = loc
        /\ \A j \in 1..Len(log) : e < j => log[j].loc # loc
  BY <1>1, LatestOf
<1>4. published <= seen[t] /\ Birth(n) \in 1..Len(log) /\ log[Birth(n)].loc = loc
  BY SeenSincePublished, BirthType
<1>5. e \in 1..Len(log) /\ log[e].loc = loc
  BY <1>1, <1>3, <1>4 DEF Positions
<1>6. e <= seen[t]
  <2>1. n \in Nat /\ ~log[e].release
    BY <1>1, <1>5, KeyOfNode DEF OInv, SuccessorStores
  <2>2. \A m : NextOf(m) = loc => m = n
    BY DEF NextOf
  <2>3. e <= published \/ e = Birth(n)
    BY <1>5, <2>1, <2>2, BirthType DEF OInv, StoresSincePublished
  <2> QED
    BY <1>1, <1>4, <1>5, <2>3
<1>7. /\ LastStore(loc, seen[t]) \in 0..seen[t]
      /\ \A j \in 1..seen[t] : LastStore(loc, seen[t]) < j => log[j].loc # loc
  BY <1>1, LastStoreFound
<1>8. e <= LastStore(loc, seen[t])
  BY <1>1, <1>5, <1>6, <1>7
<1>9. LastStore(loc, seen[t]) <= i /\ (i = 0 \/ log[i].loc = loc)
  BY DEF Loadable
<1>10. i = e
  <2>1. e <= i /\ i # 0
    BY <1>1, <1>2, <1>5, <1>7, <1>8, <1>9
  <2>2. i \in 1..Len(log)
    BY <1>1, <1>2, <2>1 DEF Positions
  <2> QED
    BY <1>2, <1>3, <1>5, <1>9, <2>1, <2>2
<1> QED
  BY <1>3, <1>10

-----------------------------------------------------------------------------
(* The invariant is inductive. *)

LEMMA InitChainInv == Init => ChainInv
<1> SUFFICES ASSUME Init PROVE ChainInv
  OBVIOUS
<1>1. /\ Len(log) = 0 /\ Allocated = {} /\ published = 0 /\ log = <<>>
      /\ \A t \in Threads : seen[t] = 0 /\ pc[t] = "idle"
      /\ ~Growing
  BY DEF Init, Allocated, Growing
<1>2. OInv /\ TypeOK
  BY InitOInv DEF OInv, IInv
<1>3. \A loc : Latest(loc) = Null
  <2> SUFFICES ASSUME NEW loc PROVE Latest(loc) = Null
    OBVIOUS
  <2>1. PICK i \in Positions : Latest(loc) = Value(i)
    BY <1>2, LatestOf
  <2> QED
    BY <1>1, <2>1 DEF Positions, Value
<1>4. NoTableAhead /\ SeenWhole /\ BirthsPaired
  BY <1>1 DEF NoTableAhead, SeenWhole, Whole, BirthsPaired
<1>5. \A x, c : InBucket(x, c) = {}
  BY <1>1 DEF InBucket
<1>6. BucketsLead /\ BucketsPure /\ Acyclic
  BY <1>1, <1>3, <1>5 DEF BucketsLead, BucketsPure, Acyclic, Closed
<1>7. MovedAreThere /\ OthersRemain /\ SearchLeads /\ OneNodePerKey
  BY <1>1 DEF MovedAreThere, OthersRemain, SearchLeads, OneNodePerKey
<1>8. CapacityExact
  <2>1. Len(keyOf) = 0 /\ mCapacityUntilGrowth = MaxEntries(BucketCount(mMap))
    BY DEF Init, mMap, BucketCount
  <2>2. MaxEntries(BucketCount(mMap)) \in Nat
    BY <1>2, CurrentTable
  <2> QED
    BY <2>1, <2>2 DEF CapacityExact
<1> QED
  BY <1>2, <1>4, <1>6, <1>7, <1>8 DEF ChainInv

(* The chains are as they were as long as there is no store. *)
LEMMA ChainsKept ==
  ASSUME UNCHANGED <<log, keyOf>>
  PROVE  /\ UNCHANGED <<Allocated, NodeOrNull, Positions>>
         /\ \A loc : Latest(loc)' = Latest(loc)
         /\ \A i : Value(i)' = Value(i)
         /\ \A n : Birth(n)' = Birth(n)
         /\ \A p : Whole(p)' <=> Whole(p)
         /\ \A S : Closed(S)' <=> Closed(S)
         /\ \A m, n : Leads(m, n)' <=> Leads(m, n)
         /\ \A i, c : InBucket(i, c)' = InBucket(i, c)
<1>1. UNCHANGED <<Allocated, NodeOrNull, Positions>>
  BY DEF Allocated, NodeOrNull, Positions
<1>2. \A i : Value(i)' = Value(i)
  BY DEF Value, Null
<1>3. \A loc : Latest(loc)' = Latest(loc)
  BY DEF Latest, Value, Null, LastStore
<1>4. \A S : Closed(S)' <=> Closed(S)
  BY <1>3 DEF Closed, NextOf, Null
<1>5. \A m, n : Leads(m, n)' <=> Leads(m, n)
  BY <1>1, <1>4 DEF Leads
<1>6. \A n : Birth(n)' = Birth(n)
  BY DEF Birth, NextOf
<1>7. \A i, c : InBucket(i, c)' = InBucket(i, c)
  BY <1>1 DEF InBucket, HashToIndex
<1>8. \A p : Whole(p)' <=> Whole(p)
  BY DEF Whole, NextOf
<1> QED
  BY <1>1, <1>2, <1>3, <1>4, <1>5, <1>6, <1>7, <1>8

(* And so is what is said of them. *)
LEMMA StructureKept ==
  ASSUME ChainInv, UNCHANGED <<tableVars, growing, clears>>, UNCHANGED Growing
  PROVE  /\ NoTableAhead' /\ BirthsPaired' /\ BucketsLead' /\ BucketsPure'
         /\ Acyclic' /\ MovedAreThere' /\ OthersRemain' /\ OneNodePerKey'
         /\ CapacityExact'
<1>1. UNCHANGED <<log, keyOf, bucketCounts, published, mCapacityUntilGrowth>>
  BY DEF tableVars
<1>2. /\ UNCHANGED <<Allocated, NodeOrNull, Positions>>
      /\ \A loc : Latest(loc)' = Latest(loc)
      /\ \A i : Value(i)' = Value(i)
      /\ \A n : Birth(n)' = Birth(n)
      /\ \A S : Closed(S)' <=> Closed(S)
      /\ \A m, n : Leads(m, n)' <=> Leads(m, n)
      /\ \A i, c : InBucket(i, c)' = InBucket(i, c)
  BY <1>1, ChainsKept
<1>3. UNCHANGED <<mMap, BucketCount(mMap), NewBucketCount, MaxEntries(BucketCount(mMap))>>
  BY <1>1 DEF mMap, BucketCount, NewBucketCount, MaxEntries
<1>4. NoTableAhead'
  BY <1>1, <1>3 DEF ChainInv, NoTableAhead, Bucket
<1>5. BirthsPaired'
  <2>1. \A n : BucketOf(keyOf[n], mMap)' = BucketOf(keyOf[n], mMap)
    BY <1>1, <1>3 DEF BucketOf, Bucket, HashToIndex, BucketCount
  <2> QED
    BY <1>1, <1>2, <1>3, <2>1 DEF ChainInv, BirthsPaired
<1>6. BucketsLead'
  BY <1>1, <1>2, <1>3 DEF ChainInv, BucketsLead, Bucket
<1>7. BucketsPure' /\ Acyclic'
  BY <1>1, <1>2, <1>3 DEF ChainInv, BucketsPure, Acyclic, Bucket, NextOf, Null
<1>8. Moved' = Moved
  BY <1>1, <1>2, <1>3 DEF Moved, HashToIndex
<1>9. MovedAreThere'
  BY <1>1, <1>2, <1>3, <1>8 DEF ChainInv, MovedAreThere, Bucket, Null
<1>10. OthersRemain'
  BY <1>1, <1>2, <1>3 DEF ChainInv, OthersRemain, Bucket, Null
<1>11. OneNodePerKey' /\ CapacityExact'
  BY <1>1, <1>2, <1>3 DEF ChainInv, OneNodePerKey, CapacityExact
<1> QED
  BY <1>4, <1>5, <1>6, <1>7, <1>9, <1>10, <1>11

LEMMA AcquiredWhole ==
  ASSUME ChainInv, NEW p \in Positions, Whole(p), NEW i \in Positions
  PROVE  Whole(Acquired(p, i))
<1>1. Len(log) \in Nat /\ TypeOK /\ OInv
  BY DEF ChainInv, OInv, IInv, TypeOK
<1>2. CASE i > 0 /\ log[i].release
  <2>1. Whole(i)
    BY <1>1, <1>2 DEF OInv, SuccessorStores, Positions, Whole
  <2>2. Max({p, i}) \in {p, i}
    <3>1. {p, i} \in SUBSET (0..Len(log)) /\ {p, i} # {}
      BY DEF Positions
    <3> QED
      BY <1>1, <3>1, Largest, Zenon
  <2> QED
    BY <1>2, <2>1, <2>2 DEF Acquired
<1>3. CASE ~(i > 0 /\ log[i].release)
  BY <1>3 DEF Acquired
<1> QED
  BY <1>2, <1>3

LEMMA ReaderStepChain ==
  ASSUME ChainInv, NEW t \in Threads,
         \/ Grab(t) \/ Synchronise(t) \/ \E k \in Keys : Query(t, k)
         \/ \E p \in Pairs : QueryTwo(t, p[1], p[2])
         \/ LoadBucket(t) \/ AdvanceAny(t) \/ Answer(t)
  PROVE  ChainInv'
<1>1. UNCHANGED <<tableVars, growing, clears, mInsertionMutex>>
  BY DEF Grab, Synchronise, Query, QueryTwo, LoadBucket, AdvanceAny, Advance, Answer
<1>2. OInv /\ OInv' /\ IInv /\ TypeOK
  BY ReaderStepOrder DEF ChainInv, OInv, IInv
<1>3. UNCHANGED Growing
  <2>1. \A u \in Threads : pc'[u] = "growing" <=> pc[u] = "growing"
    BY <1>2 DEF TypeOK, Grab, Synchronise, Query, QueryTwo, LoadBucket,
                AdvanceAny, Advance, Answer, walkVars
  <2> QED
    BY <2>1 DEF Growing
<1>4. /\ NoTableAhead' /\ BirthsPaired' /\ BucketsLead' /\ BucketsPure'
      /\ Acyclic' /\ MovedAreThere' /\ OthersRemain' /\ OneNodePerKey'
      /\ CapacityExact'
  BY <1>1, <1>3, StructureKept
<1>5. /\ \A u \in Threads \ {t} :
           /\ seen'[u] = seen[u] /\ reader'[u] = reader[u] /\ key'[u] = key[u]
           /\ pc'[u] = pc[u] /\ node'[u] = node[u]
      /\ seen \in [Threads -> Positions] /\ published \in Positions
      /\ Len(log) \in Nat
  BY <1>2 DEF TypeOK, Grab, Synchronise, Query, QueryTwo, LoadBucket,
              AdvanceAny, Advance, Answer, See, walkVars
<1>6. Whole(seen'[t])
  <2>0. Whole(seen[t]) /\ Whole(published) /\ Whole(Len(log)) /\ seen[t] \in Positions
    BY <1>5 DEF ChainInv, SeenWhole
  <2>1. CASE Grab(t)
    <3>1. {seen[t], published} \in SUBSET (0..Len(log))
      BY <1>5, <2>0 DEF Positions
    <3>2. Max({seen[t], published}) \in {seen[t], published}
      BY <1>5, <3>1, Largest, Zenon
    <3>3. seen'[t] = Max({seen[t], published})
      BY <1>5, <2>1 DEF Grab, See
    <3> QED
      BY <2>0, <3>2, <3>3
  <2>2. CASE Synchronise(t)
    BY <1>5, <2>0, <2>2 DEF Synchronise, See
  <2>3. CASE \E p \in Pairs : QueryTwo(t, p[1], p[2])
    <3>1. PICK p \in Pairs : QueryTwo(t, p[1], p[2])
      BY <2>3
    <3>2. PICK i1 \in Loadable(BucketOf(p[1], reader[t]), seen[t], {}) :
          \E i2 \in Loadable(BucketOf(p[2], reader[t]), Acquired(seen[t], i1), {}) :
            See(t, Acquired(Acquired(seen[t], i1), i2))
      BY <3>1 DEF QueryTwo
    <3>3. PICK i2 \in Loadable(BucketOf(p[2], reader[t]), Acquired(seen[t], i1), {}) :
            See(t, Acquired(Acquired(seen[t], i1), i2))
      BY <3>2
    <3>4. i1 \in Positions /\ Acquired(seen[t], i1) \in Positions
      BY <1>2, <2>0, LoadableType, AcquiredType
    <3>5. i2 \in Positions
      BY <1>2, <3>4, LoadableType
    <3>6. Whole(Acquired(seen[t], i1))
      BY <2>0, <3>4, AcquiredWhole
    <3>7. Whole(Acquired(Acquired(seen[t], i1), i2))
      BY <3>4, <3>5, <3>6, AcquiredWhole
    <3> QED
      BY <1>5, <3>3, <3>7 DEF See
  <2>4. CASE LoadBucket(t)
    <3>1. PICK i \in Loadable(BucketOf(key[t], Table(t)), seen[t], {}) :
            See(t, Acquired(seen[t], i))
      BY <2>4 DEF LoadBucket
    <3>2. Whole(Acquired(seen[t], i))
      BY <1>2, <2>0, LoadableType, AcquiredWhole
    <3> QED
      BY <1>5, <3>1, <3>2 DEF See
  <2>5. CASE (\E k \in Keys : Query(t, k)) \/ AdvanceAny(t) \/ Answer(t)
    BY <2>0, <2>5 DEF Query, AdvanceAny, Advance, Answer
  <2> QED
    BY <2>1, <2>2, <2>3, <2>4, <2>5
<1>7. /\ UNCHANGED <<Allocated, mMap>>
      /\ \A n : Birth(n)' = Birth(n)
      /\ \A p : Whole(p)' <=> Whole(p)
      /\ \A m, n : Leads(m, n)' <=> Leads(m, n)
      /\ UNCHANGED <<keyOf, log, published>>
  BY <1>1, ChainsKept DEF tableVars, mMap
<1>8. SeenWhole'
  BY <1>5, <1>6, <1>7 DEF ChainInv, SeenWhole
<1>9. SearchLeads'
  <2> SUFFICES ASSUME NEW u \in Threads, pc'[u] = "search", Table(u)' = mMap, ~Growing,
                      NEW n \in Allocated, keyOf[n] = key'[u], Birth(n) <= seen'[u]
               PROVE  Leads(node'[u], n)
    BY <1>3, <1>7 DEF SearchLeads
  <2>1. CASE u # t
    <3>1. Table(u)' = Table(u)
      BY <1>1, <1>5, <1>7, <2>1 DEF Table, Inserting
    <3> QED
      BY <1>5, <2>1, <3>1 DEF ChainInv, SearchLeads
  <2>2. CASE u = t /\ LoadBucket(t)
    <3>1. PICK i \in Loadable(BucketOf(key[t], Table(t)), seen[t], {}) :
            /\ node' = [node EXCEPT ![t] = Value(i)]
            /\ See(t, Acquired(seen[t], i))
      BY <2>2 DEF LoadBucket
    <3>2. Table(t) = mMap /\ key'[t] = key[t]
      BY <1>1, <1>7, <2>2 DEF Table, Inserting, LoadBucket
    <3>3. node'[t] = Value(i) /\ seen'[t] = Acquired(seen[t], i)
      BY <1>2, <3>1 DEF TypeOK, See
    <3>4. i \in Loadable(BucketOf(keyOf[n], mMap), seen[t], {})
      BY <2>2, <3>1, <3>2
    <3> QED
      BY <2>2, <3>2, <3>3, <3>4, BucketLoadLeads
  <2>3. CASE u = t /\ AdvanceAny(t)
    <3>1. PICK i : Advance(t, i)
      BY <2>3 DEF AdvanceAny
    <3>2. Table(t) = mMap /\ key'[t] = key[t] /\ seen'[t] = seen[t]
      BY <1>1, <1>7, <2>3, <3>1 DEF Table, Inserting, Advance
    <3>3. /\ node'[t] = Value(i) /\ node[t] # Null /\ pc[t] = "search" /\ ~Matches(t)
          /\ i \in Loadable(NextOf(node[t]), seen[t], loaded[t])
      BY <1>2, <3>1 DEF TypeOK, Advance
    <3>4. Birth(node[t]) <= seen[t]
      BY <1>2, <3>2, <3>3 DEF OInv, NodesSynchronised
    <3>5. node[t] \in Allocated /\ node[t] \in NodeOrNull
      BY <1>2, <3>3 DEF TypeOK, NodeOrNull, Null, Allocated
    <3>6. node'[t] = Latest(NextOf(node[t]))
      BY <1>2, <3>2, <3>3, <3>4, <3>5, SuccessorLoadLatest
    <3>7. Leads(node[t], n)
      BY <2>3, <3>2, <3>3 DEF ChainInv, SearchLeads
    <3>8. n # node[t] /\ n # Null
      BY <1>2, <2>3, <3>2, <3>3, KeyOfNode DEF Matches, Holds
    <3> QED
      BY <1>2, <2>3, <3>5, <3>6, <3>7, <3>8, LeadsOn
  <2>4. CASE u = t /\ ~LoadBucket(t) /\ ~AdvanceAny(t)
    BY <1>2, <2>4 DEF TypeOK, Grab, Synchronise, Query, QueryTwo, Answer, walkVars
  <2> QED
    BY <2>1, <2>2, <2>3, <2>4
<1> QED
  BY <1>2, <1>4, <1>8, <1>9 DEF ChainInv

LEMMA LockStepChain ==
  ASSUME ChainInv, NEW t \in Threads,
         \/ \E k \in Keys : Lock(t, k)
         \/ GrowThrows(t) \/ InsertSearch(t) \/ InsertPresent(t)
  PROVE  ChainInv'
<1>1. UNCHANGED <<tableVars, growing, clears, reader>>
  BY DEF Lock, GrowThrows, InsertSearch, InsertPresent
<1>2. OInv /\ OInv' /\ IInv /\ TypeOK
  BY LockStepOrder DEF ChainInv, OInv, IInv
<1>3. UNCHANGED Growing
  <2>1. \A u \in Threads : pc'[u] = "growing" <=> pc[u] = "growing"
    BY <1>2 DEF TypeOK, Lock, GrowThrows, InsertSearch, InsertPresent, Unlock
  <2> QED
    BY <2>1 DEF Growing
<1>4. /\ NoTableAhead' /\ BirthsPaired' /\ BucketsLead' /\ BucketsPure'
      /\ Acyclic' /\ MovedAreThere' /\ OthersRemain' /\ OneNodePerKey'
      /\ CapacityExact'
  BY <1>1, <1>3, StructureKept
<1>5. /\ \A u \in Threads \ {t} :
           /\ seen'[u] = seen[u] /\ pc'[u] = pc[u] /\ node'[u] = node[u]
           /\ key'[u] = key[u]
           /\ mInsertionMutex' = u <=> mInsertionMutex = u
      /\ seen'[t] = seen[t] \/ seen'[t] = Len(log)
      /\ pc'[t] # "search"
  <2> USE <1>2, NoneAssumption DEF OInv, IInv, TypeOK
  <2>1. CASE \E k \in Keys : Lock(t, k)
    BY <2>1 DEF Lock, See, walkVars
  <2>2. CASE GrowThrows(t)
    BY <2>2 DEF GrowThrows, Unlock, HoldsLock
  <2>3. CASE InsertPresent(t)
    BY <2>3 DEF InsertPresent, Unlock, Inserting
  <2>4. CASE InsertSearch(t)
    BY <2>4 DEF InsertSearch, walkVars, HolderSynchronised
  <2> QED
    BY <2>1, <2>2, <2>3, <2>4
<1>6. /\ UNCHANGED <<Allocated, mMap>>
      /\ \A n : Birth(n)' = Birth(n)
      /\ \A p : Whole(p)' <=> Whole(p)
      /\ \A m, n : Leads(m, n)' <=> Leads(m, n)
      /\ UNCHANGED <<keyOf, log, published>>
  BY <1>1, ChainsKept DEF tableVars, mMap
<1>7. SeenWhole'
  BY <1>5, <1>6 DEF ChainInv, SeenWhole
<1>8. SearchLeads'
  BY <1>1, <1>3, <1>5, <1>6 DEF ChainInv, SearchLeads, Table, Inserting
<1> QED
  BY <1>2, <1>4, <1>7, <1>8 DEF ChainInv

(* The constructor has moved no node yet. *)
LEMMA GrowStepChain ==
  ASSUME ChainInv, NEW t \in Threads, Grow(t)
  PROVE  ChainInv'
<1>1. /\ UNCHANGED <<tableVars, clears, seen>>
      /\ pc[t] = "locked" /\ pc'[t] = "growing"
      /\ growing' = [bucket |-> 0, node |-> Latest(Bucket(mMap, 0))]
  BY DEF Grow, ChainInv, OInv, IInv, TypeOK
<1>2. OInv /\ OInv' /\ IInv /\ TypeOK
  BY GrowStepOrder DEF ChainInv, OInv, IInv
<1>3. ~Growing /\ Growing'
  <2>1. mInsertionMutex = t
    BY <1>1, <1>2 DEF IInv, HoldsLock
  <2> QED
    BY <1>1, <1>2, <2>1, HolderNotGrowing DEF Growing
<1>4. /\ UNCHANGED <<Allocated, NodeOrNull, Positions>>
      /\ \A loc : Latest(loc)' = Latest(loc)
      /\ \A p : Whole(p)' <=> Whole(p)
      /\ \A S : Closed(S)' <=> Closed(S)
      /\ \A m, n : Leads(m, n)' <=> Leads(m, n)
      /\ \A i, c : InBucket(i, c)' = InBucket(i, c)
  BY <1>1, ChainsKept DEF tableVars
<1>5. UNCHANGED <<log, keyOf, published, mMap, BucketCount(mMap), NewBucketCount,
                  MaxEntries(BucketCount(mMap)), mCapacityUntilGrowth>>
  BY <1>1 DEF tableVars, mMap, BucketCount, NewBucketCount, MaxEntries
<1>6. /\ mMap \in Nat /\ Len(log) \in Nat
      /\ 0 \in 0..(BucketCount(mMap) - 1)
      /\ BucketCount(mMap) \in Nat
  BY <1>2, CurrentTable DEF TypeOK
<1>7. NoTableAhead'
  BY <1>3, <1>5 DEF ChainInv, NoTableAhead, Bucket
<1>8. SeenWhole' /\ Acyclic' /\ OneNodePerKey' /\ CapacityExact'
  BY <1>1, <1>4, <1>5
     DEF ChainInv, SeenWhole, Acyclic, OneNodePerKey, CapacityExact, NextOf
<1>9. BirthsPaired' /\ BucketsLead' /\ BucketsPure' /\ SearchLeads'
  BY <1>3 DEF BirthsPaired, BucketsLead, BucketsPure, SearchLeads
<1>10. Moved' = {}
  <2> SUFFICES ASSUME NEW n \in Moved'
               PROVE  FALSE
    OBVIOUS
  <2>1. /\ n \in Allocated
        /\ \/ HashToIndex(keyOf[n], BucketCount(mMap)) < 0
           \/ /\ HashToIndex(keyOf[n], BucketCount(mMap)) = 0
              /\ ~Leads(Latest(Bucket(mMap, 0)), n)
    BY <1>1, <1>4, <1>5 DEF Moved, HashToIndex
  <2>2. HashToIndex(keyOf[n], BucketCount(mMap)) \in 0..(BucketCount(mMap) - 1)
    BY <1>2, <2>1, KeyOfNode, IndexType
  <2>3. n \in InBucket(0, BucketCount(mMap)) /\ ~Leads(Latest(Bucket(mMap, 0)), n)
    BY <1>6, <2>1, <2>2 DEF InBucket
  <2> QED
    BY <1>3, <1>6, <2>3, CurrentLeads
<1>11. MovedAreThere'
  <2>1. \A x \in Nat : Latest(Bucket(mMap + 1, x)) = Null
    <3> SUFFICES ASSUME NEW x \in Nat
                 PROVE  Latest(Bucket(mMap + 1, x)) = Null
      OBVIOUS
    <3>1. PICK i \in Positions :
            /\ Latest(Bucket(mMap + 1, x)) = Value(i)
            /\ i = 0 \/ log[i].loc = Bucket(mMap + 1, x)
      BY <1>2, LatestOf
    <3>2. i = 0
      BY <1>3, <1>6, <3>1 DEF ChainInv, NoTableAhead, Positions
    <3> QED
      BY <3>1, <3>2 DEF Value
  <2>2. NewBucketCount \in Nat
    BY <1>6 DEF NewBucketCount, GrowthFactor
  <2> QED
    BY <1>4, <1>5, <1>10, <2>1, <2>2 DEF MovedAreThere, Closed, Bucket, Null
<1>12. OthersRemain'
  <2>1. ASSUME NEW n \in Allocated, Leads(Latest(Bucket(mMap, 0)), n)
        PROVE  n \in InBucket(0, BucketCount(mMap))
    <3>1. /\ Closed({Null} \cup InBucket(0, BucketCount(mMap)))
          /\ Latest(Bucket(mMap, 0)) \in {Null} \cup InBucket(0, BucketCount(mMap))
      BY <1>3, <1>6 DEF ChainInv, BucketsPure
    <3>2. {Null} \cup InBucket(0, BucketCount(mMap)) \in SUBSET NodeOrNull
      BY <1>2, KeyOfNode, SuccessorType DEF InBucket
    <3> QED
      BY <1>2, <2>1, <3>1, <3>2, KeyOfNode DEF Leads
  <2>2. \A x \in 0..(BucketCount(mMap) - 1) :
          /\ Closed({Null} \cup InBucket(x, BucketCount(mMap)))
          /\ Latest(Bucket(mMap, x)) \in {Null} \cup InBucket(x, BucketCount(mMap))
          /\ \A n \in InBucket(x, BucketCount(mMap)) : Leads(Latest(Bucket(mMap, x)), n)
    BY <1>3, CurrentLeads DEF ChainInv, BucketsPure
  <2> QED
    BY <1>1, <1>4, <1>5, <2>1, <2>2 DEF OthersRemain, Bucket, Null
<1> QED
  BY <1>2, <1>7, <1>8, <1>9, <1>11, <1>12 DEF ChainInv

(* The nodes of the bucket that has been taken apart have all been moved. *)
LEMMA NextBucketStepChain ==
  ASSUME ChainInv, NEW t \in Threads, NextBucket(t)
  PROVE  ChainInv'
<1>0. PICK g : g = growing.bucket
  OBVIOUS
<1>1. /\ UNCHANGED <<tableVars, clears, seen, pc>>
      /\ pc[t] = "growing"
      /\ growing.node = Null /\ g + 1 < BucketCount(mMap)
      /\ growing' = [bucket |-> g + 1, node |-> Latest(Bucket(mMap, g + 1))]
  BY <1>0 DEF NextBucket
<1>2. OInv /\ OInv' /\ IInv /\ TypeOK
  BY GrowStepOrder DEF ChainInv, OInv, IInv
<1>3. Growing /\ Growing'
  BY <1>1 DEF Growing
<1>4. /\ UNCHANGED <<Allocated, NodeOrNull, Positions>>
      /\ \A loc : Latest(loc)' = Latest(loc)
      /\ \A p : Whole(p)' <=> Whole(p)
      /\ \A S : Closed(S)' <=> Closed(S)
      /\ \A m, n : Leads(m, n)' <=> Leads(m, n)
      /\ \A i, c : InBucket(i, c)' = InBucket(i, c)
  BY <1>1, ChainsKept DEF tableVars
<1>5. UNCHANGED <<log, keyOf, published, mMap, BucketCount(mMap), NewBucketCount,
                  MaxEntries(BucketCount(mMap)), mCapacityUntilGrowth>>
  BY <1>1 DEF tableVars, mMap, BucketCount, NewBucketCount, MaxEntries
<1>6. /\ mMap \in Nat /\ Len(log) \in Nat /\ g \in Nat
      /\ BucketCount(mMap) \in Nat
      /\ g + 1 \in 0..(BucketCount(mMap) - 1)
  <2>1. BucketCount(mMap) \in Nat /\ mMap \in Nat
    BY <1>2, CurrentTable
  <2>2. g \in 0..(BucketCount(mMap) - 1)
    BY <1>0, <1>2 DEF TypeOK
  <2> QED
    BY <1>1, <1>2, <2>1, <2>2 DEF TypeOK
<1>7. NoTableAhead'
  BY <1>3, <1>5 DEF ChainInv, NoTableAhead, Bucket
<1>8. SeenWhole' /\ Acyclic' /\ OneNodePerKey' /\ CapacityExact'
  BY <1>1, <1>4, <1>5
     DEF ChainInv, SeenWhole, Acyclic, OneNodePerKey, CapacityExact, NextOf
<1>9. BirthsPaired' /\ BucketsLead' /\ BucketsPure' /\ SearchLeads'
  BY <1>3 DEF BirthsPaired, BucketsLead, BucketsPure, SearchLeads
<1>10. \A x \in 0..(BucketCount(mMap) - 1) :
         x > g =>
           /\ Closed({Null} \cup InBucket(x, BucketCount(mMap)))
           /\ Latest(Bucket(mMap, x)) \in {Null} \cup InBucket(x, BucketCount(mMap))
           /\ \A n \in InBucket(x, BucketCount(mMap)) : Leads(Latest(Bucket(mMap, x)), n)
  BY <1>0, <1>3 DEF ChainInv, OthersRemain
<1>11. Moved' = Moved
  <2>1. ASSUME NEW n \in Allocated
        PROVE  n \in Moved' <=> n \in Moved
    <3> DEFINE i == HashToIndex(keyOf[n], BucketCount(mMap))
    <3>1. i \in 0..(BucketCount(mMap) - 1)
      BY <1>2, KeyOfNode, IndexType
    <3>2. ~Leads(growing.node, n)
      BY <1>1, <1>2, KeyOfNode, NullLeadsNowhere
    <3>3. ASSUME i = g + 1
          PROVE  Leads(Latest(Bucket(mMap, g + 1)), n)
      <4>1. n \in InBucket(g + 1, BucketCount(mMap))
        BY <3>3 DEF InBucket
      <4> HIDE DEF i
      <4>2. g + 1 > g
        BY <1>6
      <4> QED
        BY <1>6, <1>10, <4>1, <4>2
    <3>4. n \in Moved' <=> i < g + 1 \/ (i = g + 1 /\ ~Leads(Latest(Bucket(mMap, g + 1)), n))
      BY <1>1, <1>4, <1>5 DEF Moved, HashToIndex
    <3>5. n \in Moved <=> i < g \/ (i = g /\ ~Leads(growing.node, n))
      BY <1>0 DEF Moved
    <3> HIDE DEF i
    <3> QED
      BY <1>6, <3>1, <3>2, <3>3, <3>4, <3>5
  <2>2. Moved \subseteq Allocated /\ Moved' \subseteq Allocated
    BY <1>4 DEF Moved
  <2> QED
    BY <2>1, <2>2
<1>12. MovedAreThere'
  BY <1>3, <1>4, <1>5, <1>11 DEF ChainInv, MovedAreThere, Bucket, Null
<1>13. OthersRemain'
  <2>1. ASSUME NEW n \in Allocated, Leads(Latest(Bucket(mMap, g + 1)), n)
        PROVE  n \in InBucket(g + 1, BucketCount(mMap))
    <3>1. /\ Closed({Null} \cup InBucket(g + 1, BucketCount(mMap)))
          /\ Latest(Bucket(mMap, g + 1)) \in
               {Null} \cup InBucket(g + 1, BucketCount(mMap))
      BY <1>6, <1>10
    <3>2. {Null} \cup InBucket(g + 1, BucketCount(mMap)) \in SUBSET NodeOrNull
      BY <1>2, KeyOfNode, SuccessorType DEF InBucket
    <3> QED
      BY <1>2, <2>1, <3>1, <3>2, KeyOfNode DEF Leads
  <2>2. \A x \in 0..(BucketCount(mMap) - 1) : x > g + 1 => x > g
    BY <1>6
  <2>3. growing'.bucket = g + 1 /\ growing'.node = Latest(Bucket(mMap, g + 1))
    BY <1>1
  <2> QED
    BY <1>4, <1>5, <1>10, <2>1, <2>2, <2>3 DEF OthersRemain, Bucket, Null
<1> QED
  BY <1>2, <1>7, <1>8, <1>9, <1>12, <1>13 DEF ChainInv

(* The node that is moved leaves a chain that does not come back to it for
   one that leads to nodes that have been moved. *)
LEMMA RelinkStepChain ==
  ASSUME ChainInv, NEW t \in Threads, Relink(t)
  PROVE  ChainInv'
<1>0. PICK n0, s, j, b, g, c, c2 :
        /\ n0 = growing.node /\ s = Latest(NextOf(n0))
        /\ j = HashToIndex(keyOf[n0], NewBucketCount)
        /\ b = Bucket(mMap + 1, j)
        /\ g = growing.bucket /\ c = BucketCount(mMap) /\ c2 = NewBucketCount
  OBVIOUS
<1>1. /\ log' = log \o <<Store(NextOf(n0), Latest(b)), Store(b, n0)>>
      /\ seen' = [seen EXCEPT ![t] = Len(log')]
      /\ pc[t] = "growing" /\ n0 # Null
      /\ growing' = [growing EXCEPT !.node = s]
      /\ UNCHANGED <<bucketCounts, published, keyOf, mCapacityUntilGrowth, clears, pc>>
  BY <1>0 DEF Relink
<1>2. OInv /\ OInv' /\ IInv /\ TypeOK /\ TypeOK'
  BY RelinkStepOrder DEF ChainInv, OInv, IInv
<1>3. Growing /\ Growing'
  BY <1>1 DEF Growing
<1>4. /\ Len(log) \in Nat /\ log \in Seq(Stores) /\ seen \in [Threads -> Positions]
      /\ published \in Positions /\ mMap \in Nat /\ g \in Nat
      /\ growing'.bucket = g /\ growing'.node = s
  BY <1>0, <1>1, <1>2, CurrentTable, SMTT(20) DEF TypeOK
<1>5. /\ Len(log') = Len(log) + 2
      /\ \A i \in 1..Len(log) : log'[i] = log[i]
      /\ log'[Len(log) + 1] = Store(NextOf(n0), Latest(b))
      /\ log'[Len(log) + 2] = Store(b, n0)
  BY <1>1, <1>4
<1>6. /\ UNCHANGED <<Allocated, NodeOrNull, mMap>>
      /\ BucketCount(mMap)' = c /\ NewBucketCount' = c2
      /\ \A i, d : InBucket(i, d)' = InBucket(i, d)
      /\ n0 \in Allocated /\ n0 \in NodeOrNull /\ Null \in NodeOrNull
  <2>1. UNCHANGED <<Allocated, NodeOrNull, mMap>>
    BY <1>1 DEF Allocated, NodeOrNull, mMap
  <2>2. BucketCount(mMap)' = c /\ NewBucketCount' = c2
    BY <1>0, <1>1, <2>1 DEF NewBucketCount, BucketCount
  <2>3. \A i, d : InBucket(i, d)' = InBucket(i, d)
    BY <1>1, <2>1 DEF InBucket, HashToIndex
  <2>4. n0 \in Allocated /\ n0 \in NodeOrNull /\ Null \in NodeOrNull
    <3>1. n0 \in NodeOrNull
      BY <1>0, <1>2 DEF TypeOK
    <3>2. Len(keyOf) \in Nat
      BY <1>2 DEF TypeOK
    <3> QED
      BY <1>1, <3>1, <3>2 DEF Allocated, NodeOrNull, Null
  <2> QED
    BY <2>1, <2>2, <2>3, <2>4
<1>7. \A loc : Latest(loc)' = IF b = loc THEN n0
                              ELSE IF NextOf(n0) = loc THEN Latest(b) ELSE Latest(loc)
  <2> SUFFICES ASSUME NEW loc
               PROVE  Latest(loc)' = IF b = loc THEN n0
                        ELSE IF NextOf(n0) = loc THEN Latest(b) ELSE Latest(loc)
    OBVIOUS
  <2>1. PICK s1, s2 : /\ s1 = Store(NextOf(n0), Latest(b)) /\ s2 = Store(b, n0)
                      /\ log' = log \o <<s1, s2>>
    BY <1>1
  <2>2. Latest(loc)' = IF s2.loc = loc THEN s2.val
                       ELSE IF s1.loc = loc THEN s1.val ELSE Latest(loc)
    BY <1>2, <2>1, LatestAfter
  <2> QED
    BY <2>1, <2>2 DEF Store
<1>8. /\ Latest(NextOf(n0))' = Latest(b) /\ Latest(b)' = n0
      /\ \A n : n # n0 => Latest(NextOf(n))' = Latest(NextOf(n))
      /\ \A table, x : Bucket(table, x) # b =>
           Latest(Bucket(table, x))' = Latest(Bucket(table, x))
  BY <1>0, <1>7 DEF Bucket, NextOf
<1>9. /\ j \in 0..(c2 - 1) /\ c2 \in Nat /\ c \in Nat
      /\ n0 \in InBucket(g, c) /\ n0 \in InBucket(j, c2)
  <2>1. j \in 0..(c2 - 1) /\ c2 \in Nat /\ c \in Nat
    BY <1>0, <1>2, <1>6, KeyOfNode, IndexType, CurrentTable
  <2>2. n0 \in InBucket(g, c)
    BY <1>0, <1>3, <1>6, LeadsToItself DEF ChainInv, OthersRemain
  <2> QED
    BY <1>0, <1>6, <2>1, <2>2 DEF InBucket
(* A closed set without the node *)
<1>10. ASSUME NEW C \in SUBSET NodeOrNull, Closed(C), n0 \notin C
       PROVE  Closed(C)' /\ \A m \in C : \A n : Leads(m, n)' <=> Leads(m, n)
  <2>1. \A x \in C \ {Null} : Latest(NextOf(x))' = Latest(NextOf(x))
    BY <1>8, <1>10
  <2>2. NodeOrNull \subseteq NodeOrNull'
    BY <1>6
  <2>3. \A m \in C : \A n : Closed(C)' /\ (Leads(m, n)' <=> Leads(m, n))
    BY <1>2, <1>10, <2>1, <2>2, LeadsKept
  <2>4. Closed(C)'
    BY <1>10, <2>1 DEF Closed, NextOf, Null
  <2> QED
    BY <2>3, <2>4
<1>11. \A n : Leads(s, n)' <=> Leads(s, n)
  <2>0. PICK C : C = {x \in NodeOrNull : Leads(s, x)}
    OBVIOUS
  <2>1. s \in C
    BY <1>0, <1>2, <2>0, LeadsToItself, SuccessorType
  <2>2. Closed(C)
    <3> SUFFICES ASSUME NEW x \in C \ {Null}
                 PROVE  Latest(NextOf(x)) \in C
      BY DEF Closed
    <3>1. Latest(NextOf(x)) \in NodeOrNull
      BY <1>2, SuccessorType
    <3> QED
      BY <2>0, <3>1 DEF Leads, Closed
  <2>3. n0 \notin C
    BY <1>0, <1>6, <2>0 DEF ChainInv, Acyclic
  <2>4. C \in SUBSET NodeOrNull
    BY <2>0
  <2> QED
    BY <1>10, <2>1, <2>2, <2>3, <2>4
<1>12. \A n \in Allocated : Leads(n0, n) <=> n = n0 \/ Leads(s, n)
  BY <1>0, <1>1, <1>2, <1>6, LeadsToItself, LeadsOn, LeadsFrom, KeyOfNode
<1>13. n0 \notin Moved /\ Moved' = Moved \cup {n0}
  <2>0. \A n : n \in Moved <=>
                 /\ n \in Allocated
                 /\ \/ HashToIndex(keyOf[n], c) < g
                    \/ HashToIndex(keyOf[n], c) = g /\ ~Leads(n0, n)
    BY <1>0 DEF Moved
  <2>1. \A n : n \in Moved' <=>
                 /\ n \in Allocated
                 /\ \/ HashToIndex(keyOf[n], c) < g
                    \/ HashToIndex(keyOf[n], c) = g /\ ~Leads(s, n)
    <3>1. \A n : n \in Moved' <=>
                 /\ n \in Allocated
                 /\ \/ HashToIndex(keyOf[n], c) < g
                    \/ HashToIndex(keyOf[n], c) = g /\ ~Leads(s, n)'
      BY <1>1, <1>4, <1>6 DEF Moved, HashToIndex
    <3> QED
      BY <1>11, <3>1
  <2>2. HashToIndex(keyOf[n0], c) = g /\ ~Leads(s, n0)
    BY <1>0, <1>6, <1>9 DEF InBucket, ChainInv, Acyclic
  <2>3. n0 \notin Moved
    BY <1>4, <2>0, <2>2, LeadsToItself
  <2>4. \A n : n \in Moved' <=> n \in Moved \/ n = n0
    BY <1>6, <1>12, <2>0, <2>1, <2>2
  <2> QED
    BY <2>3, <2>4
(* The chains of the new table as they were *)
<1>a. PICK K : K = [x \in 0..(c2 - 1) |-> {Null} \cup (Moved \cap InBucket(x, c2))]
  OBVIOUS
<1>14. \A x \in 0..(c2 - 1) :
         /\ K[x] = {Null} \cup (Moved \cap InBucket(x, c2))
         /\ K[x] \in SUBSET NodeOrNull /\ Closed(K[x]) /\ n0 \notin K[x]
         /\ Latest(Bucket(mMap + 1, x)) \in K[x]
         /\ \A n \in K[x] \ {Null} : Leads(Latest(Bucket(mMap + 1, x)), n)
  <2> TAKE x \in 0..(c2 - 1)
  <2>0. K[x] = {Null} \cup (Moved \cap InBucket(x, c2))
    BY <1>a
  <2>1. K[x] \in SUBSET NodeOrNull
    BY <1>2, <1>6, <2>0, KeyOfNode DEF InBucket
  <2>2. /\ Closed(K[x]) /\ Latest(Bucket(mMap + 1, x)) \in K[x]
        /\ \A n \in K[x] \ {Null} : Leads(Latest(Bucket(mMap + 1, x)), n)
    BY <1>0, <1>3, <2>0 DEF ChainInv, MovedAreThere
  <2> QED
    BY <1>1, <1>13, <2>0, <2>1, <2>2
<1>15. \A x \in 0..(c2 - 1) :
         /\ Closed(K[x])'
         /\ \A m \in K[x] : \A n : Leads(m, n)' <=> Leads(m, n)
  BY <1>10, <1>14
<1>16. MovedAreThere'
  <2> SUFFICES ASSUME NEW x \in 0..(c2 - 1)
               PROVE  /\ Closed({Null} \cup (Moved \cap InBucket(x, c2)))'
                      /\ Latest(Bucket(mMap + 1, x))' \in {Null} \cup (Moved' \cap InBucket(x, c2))
                      /\ \A n \in Moved' \cap InBucket(x, c2) :
                           Leads(Latest(Bucket(mMap + 1, x)), n)'
    BY <1>3, <1>6 DEF MovedAreThere, Bucket, Null
  <2>1. PICK N, h : N = Moved' \cap InBucket(x, c2) /\ h = Latest(Bucket(mMap + 1, x))'
    OBVIOUS
  <2>2. CASE x = j
    <3>0. Bucket(mMap + 1, x) = b /\ Bucket(mMap + 1, x)' = b
      BY <1>0, <1>6, <2>2 DEF Bucket
    <3>1. n0 \in N /\ {Null} \cup N = K[x] \cup {n0}
      BY <1>9, <1>13, <1>14, <2>1, <2>2
    <3>2. h = n0
      BY <1>8, <2>1, <3>0
    <3>3. Latest(NextOf(n0))' = Latest(b) /\ Latest(b) \in K[x]
      BY <1>8, <1>14, <3>0
    <3>4. Closed({Null} \cup N)'
      <4>1. Closed(K[x])'
        BY <1>15
      <4>2. \A S : Closed(S)' <=> \A n \in S \ {Null} : Latest(NextOf(n))' \in S
        BY DEF Closed, NextOf, Null
      <4> QED
        BY <3>1, <3>3, <4>1, <4>2
    <3>5. ASSUME NEW n \in N
          PROVE  Leads(n0, n)'
      <4>1. CASE n = n0
        BY <4>1 DEF Leads
      <4>2. CASE n # n0
        <5>1. n # Null
          BY <1>2, <1>6, <2>1, KeyOfNode DEF InBucket
        <5>2. Leads(Latest(b), n)
          BY <1>14, <3>0, <3>1, <4>2, <5>1
        <5>3. PICK e : e = Latest(b)
          OBVIOUS
        <5>4. Leads(e, n)'
          BY <1>15, <3>3, <5>2, <5>3
        <5>5. Latest(NextOf(n0))' = e
          BY <3>3, <5>3
        <5> QED
          BY <1>1, <5>4, <5>5 DEF Leads, Closed, NextOf, Null
      <4> QED
        BY <4>1, <4>2
    <3> QED
      BY <1>6, <2>1, <3>1, <3>2, <3>4, <3>5 DEF Null
  <2>3. CASE x # j
    <3>1. Bucket(mMap + 1, x) # b /\ Bucket(mMap + 1, x)' = Bucket(mMap + 1, x)
      BY <1>0, <1>6, <2>3 DEF Bucket
    <3>2. {Null} \cup N = K[x]
      BY <1>9, <1>13, <1>14, <2>1, <2>3 DEF InBucket
    <3>3. h = Latest(Bucket(mMap + 1, x))
      BY <1>8, <2>1, <3>1
    <3>4. \A n \in N : n # Null
      BY <1>2, <1>6, <2>1, KeyOfNode DEF InBucket
    <3>5. Closed({Null} \cup N)' /\ h \in {Null} \cup N /\ \A n \in N : Leads(h, n)'
      BY <1>14, <1>15, <3>2, <3>3, <3>4 DEF Null
    <3> QED
      BY <1>6, <2>1, <3>5 DEF Null
  <2> QED
    BY <2>2, <2>3
<1>17. OthersRemain'
  <2>1. \A n \in Allocated : Leads(s, n)' => n \in InBucket(g, c)
    BY <1>0, <1>3, <1>11, <1>12 DEF ChainInv, OthersRemain
  <2>2. ASSUME NEW x \in 0..(c - 1), x > g, NEW N, N = InBucket(x, c),
               NEW h, h = Latest(Bucket(mMap, x))
        PROVE  /\ h = Latest(Bucket(mMap, x))'
               /\ Closed({Null} \cup N)' /\ h \in {Null} \cup N
               /\ \A n \in N : Leads(h, n)'
    <3>1. Bucket(mMap, x) # b
      BY <1>0, <1>4 DEF Bucket
    <3>2. h = Latest(Bucket(mMap, x))'
      BY <1>6, <1>8, <2>2, <3>1 DEF Bucket
    <3>3. /\ Closed({Null} \cup N) /\ h \in {Null} \cup N
          /\ \A n \in N : Leads(h, n)
      BY <1>0, <1>3, <2>2 DEF ChainInv, OthersRemain
    <3>4. PICK C : C = {Null} \cup N
      OBVIOUS
    <3>5. C \in SUBSET NodeOrNull /\ n0 \notin C
      BY <1>1, <1>2, <1>4, <1>6, <1>9, <2>2, <3>4, KeyOfNode DEF InBucket
    <3>6. Closed(C)' /\ \A m \in C : \A n : Leads(m, n)' <=> Leads(m, n)
      BY <1>10, <3>3, <3>4, <3>5
    <3> QED
      BY <3>2, <3>3, <3>4, <3>6
  <2> SUFFICES ASSUME NEW x \in 0..(c - 1), x > g
               PROVE  /\ Closed({Null} \cup InBucket(x, c))'
                      /\ Latest(Bucket(mMap, x))' \in {Null} \cup InBucket(x, c)
                      /\ \A n \in InBucket(x, c) : Leads(Latest(Bucket(mMap, x)), n)'
    BY <1>4, <1>6, <2>1 DEF OthersRemain, Bucket, Null
  <2>3. PICK N, h : N = InBucket(x, c) /\ h = Latest(Bucket(mMap, x))
    OBVIOUS
  <2>4. /\ h = Latest(Bucket(mMap, x))'
        /\ Closed({Null} \cup N)' /\ h \in {Null} \cup N
        /\ \A n \in N : Leads(h, n)'
    BY <2>2, <2>3
  <2>5. N = InBucket(x, c)'
    BY <1>6, <2>3
  <2> QED
    BY <2>3, <2>4, <2>5 DEF Null
<1>18. Acyclic'
  <2> SUFFICES ASSUME NEW n \in Allocated
               PROVE  ~Leads(Latest(NextOf(n)), n)'
    BY <1>6 DEF Acyclic
  <2>0. PICK e : e = Latest(NextOf(n))'
    OBVIOUS
  <2>1. CASE n = n0
    <3>1. e \in K[j] /\ Closed(K[j])' /\ K[j] \in SUBSET NodeOrNull' /\ n \notin K[j]
      BY <1>0, <1>6, <1>8, <1>9, <1>14, <1>15, <2>0, <2>1
    <3> QED
      BY <2>0, <3>1 DEF Leads
  <2>2. CASE n # n0
    <3>1. e = Latest(NextOf(n))
      BY <1>8, <2>0, <2>2
    <3>2. PICK S \in SUBSET NodeOrNull : e \in S /\ Closed(S) /\ n \notin S
      BY <3>1 DEF ChainInv, Acyclic, Leads
    <3>3. /\ K[j] \in SUBSET NodeOrNull /\ Closed(K[j]) /\ n0 \notin K[j] /\ Closed(K[j])'
          /\ Latest(NextOf(n0))' \in K[j]
      BY <1>0, <1>8, <1>9, <1>14, <1>15
    <3>4. CASE n \in K[j]
      <4>1. PICK C : C = S \cap K[j]
        OBVIOUS
      <4>2. n # Null
        BY <1>2, KeyOfNode
      <4>3. e \in C /\ C \in SUBSET NodeOrNull /\ Closed(C) /\ n0 \notin C /\ n \notin C
        BY <3>1, <3>2, <3>3, <3>4, <4>1, <4>2 DEF Closed
      <4>4. Closed(C)'
        BY <1>10, <4>3
      <4> QED
        BY <1>6, <2>0, <4>3, <4>4 DEF Leads
    <3>5. CASE n \notin K[j]
      <4>1. PICK C : C = S \cup K[j]
        OBVIOUS
      <4>2. e \in C /\ C \in SUBSET NodeOrNull' /\ n \notin C
        BY <1>6, <3>2, <3>3, <3>5, <4>1
      <4>3. Closed(C)'
        BY <1>8, <3>2, <3>3, <4>1 DEF Closed, NextOf, Null
      <4> QED
        BY <2>0, <4>2, <4>3 DEF Leads
    <3> QED
      BY <3>4, <3>5
  <2> QED
    BY <2>1, <2>2
<1>19. NoTableAhead'
  <2> SUFFICES ASSUME NEW i \in 1..(Len(log) + 2), NEW table \in Nat, NEW x \in Nat,
                      log'[i].loc = Bucket(table, x)
               PROVE  table <= mMap \/ table = mMap + 1
    BY <1>3, <1>5, <1>6 DEF NoTableAhead, Bucket
  <2>1. CASE i \in 1..Len(log)
    BY <1>5, <2>1 DEF ChainInv, NoTableAhead
  <2>2. CASE i = Len(log) + 1
    BY <1>5, <2>2 DEF Store, NextOf, Bucket
  <2>3. CASE i = Len(log) + 2
    BY <1>0, <1>5, <2>3 DEF Store, Bucket
  <2> QED
    BY <1>4, <2>1, <2>2, <2>3
<1>20. SeenWhole'
  <2>1. \A p \in 0..Len(log) : Whole(p) => Whole(p)'
    BY <1>5 DEF Whole, NextOf
  <2>2. Whole(Len(log))'
    BY <1>0, <1>5 DEF Whole, Store, NextOf, Bucket
  <2>3. Whole(published)'
    BY <1>1, <1>4, <2>1 DEF ChainInv, SeenWhole, Positions
  <2>4. ASSUME NEW u \in Threads
        PROVE  Whole(seen[u])'
    <3>1. seen'[u] = seen[u] \/ seen'[u] = Len(log')
      BY <1>1, <1>4
    <3>2. seen[u] \in 0..Len(log) /\ Whole(seen[u])
      BY <1>4 DEF ChainInv, SeenWhole, Positions
    <3>3. PICK p : p = seen'[u]
      OBVIOUS
    <3>4. Whole(p)'
      BY <2>1, <2>2, <3>1, <3>2, <3>3
    <3> QED
      BY <3>3, <3>4
  <2> QED
    BY <2>2, <2>3, <2>4 DEF SeenWhole
<1>21. BirthsPaired' /\ BucketsLead' /\ BucketsPure' /\ SearchLeads'
  BY <1>3 DEF BirthsPaired, BucketsLead, BucketsPure, SearchLeads
<1>22. OneNodePerKey' /\ CapacityExact'
  <2>1. MaxEntries(BucketCount(mMap))' = MaxEntries(BucketCount(mMap))
    BY <1>0, <1>6 DEF MaxEntries
  <2> QED
    BY <1>1, <1>6, <2>1 DEF ChainInv, OneNodePerKey, CapacityExact
<1> QED
  BY <1>2, <1>16, <1>17, <1>18, <1>19, <1>20, <1>21, <1>22 DEF ChainInv

(* Every node has been moved. *)
LEMMA PublishStepChain ==
  ASSUME ChainInv, NEW t \in Threads, Publish(t)
  PROVE  ChainInv'
<1>0. PICK c, c2, m : /\ c = BucketCount(mMap) /\ c2 = NewBucketCount /\ m = mMap + 1
  OBVIOUS
<1>1. /\ bucketCounts' = Append(bucketCounts, c2)
      /\ mCapacityUntilGrowth' = MaxEntries(c2) - MaxEntries(c)
      /\ published' = Len(log)
      /\ pc' = [pc EXCEPT ![t] = "locked"]
      /\ pc[t] = "growing" /\ growing.node = Null /\ growing.bucket + 1 = c
      /\ UNCHANGED <<keyOf, log, mInsertionMutex, seen, reader, clears>>
  BY <1>0 DEF Publish, walkVars
<1>2. OInv /\ OInv' /\ IInv /\ TypeOK
  BY PublishStepOrder DEF ChainInv, OInv, IInv
<1>3. /\ Len(log) \in Nat /\ mMap \in Nat /\ m \in Nat
      /\ mMap' = m /\ BucketCount(mMap)' = c2
      /\ c \in Nat /\ c2 \in Nat /\ MaxEntries(c) \in Nat /\ MaxEntries(c2) \in Nat
  <2>1. mMap \in Nat /\ c \in Nat /\ MaxEntries(c) \in Nat
    BY <1>0, <1>2, CurrentTable
  <2>2. bucketCounts \in Seq(1..SizeMax)
    BY <1>2 DEF TypeOK
  <2>3. mMap' = m /\ BucketCount(mMap)' = c2
    BY <1>0, <1>1, <2>2 DEF mMap, BucketCount
  <2>4. c2 = 2 * c
    BY <1>0 DEF NewBucketCount, GrowthFactor
  <2>5. MaxEntries(c2) \in Nat
    BY <2>1, <2>4 DEF MaxEntries, MinBucketsPerEntry
  <2> QED
    BY <1>0, <1>2, <2>1, <2>3, <2>4, <2>5, SMTT(20) DEF TypeOK
<1>4. Growing /\ ~Growing' /\ mInsertionMutex = t /\ mCapacityUntilGrowth = 0
  <2>1. Growing /\ mInsertionMutex = t /\ mCapacityUntilGrowth = 0
    BY <1>1, <1>2 DEF Growing, IInv, HoldsLock
  <2>2. \A u \in Threads : pc'[u] # "growing"
    BY <1>1, <1>2, <2>1, OnlyHolder DEF TypeOK
  <2> QED
    BY <2>1, <2>2 DEF Growing
<1>5. /\ UNCHANGED <<Allocated, NodeOrNull, Positions>>
      /\ \A loc : Latest(loc)' = Latest(loc)
      /\ \A i : Value(i)' = Value(i)
      /\ \A n : Birth(n)' = Birth(n)
      /\ \A p : Whole(p)' <=> Whole(p)
      /\ \A S : Closed(S)' <=> Closed(S)
      /\ \A d, n : Leads(d, n)' <=> Leads(d, n)
      /\ \A i, d : InBucket(i, d)' = InBucket(i, d)
  BY <1>1, ChainsKept
<1>6. NoTableAhead'
  BY <1>0, <1>1, <1>3, SMTT(20) DEF ChainInv, NoTableAhead, Bucket
<1>7. SeenWhole'
  BY <1>1, <1>5 DEF ChainInv, SeenWhole
<1>8. BirthsPaired'
  <2>1. \A n \in Allocated : ~(Birth(n) > Len(log))
    BY <1>2, <1>3, BirthType
  <2> QED
    BY <1>1, <1>5, <2>1 DEF BirthsPaired
<1>9. Moved = Allocated
  <2>1. ASSUME NEW n \in Allocated
        PROVE  n \in Moved
    <3>1. HashToIndex(keyOf[n], c) \in 0..(c - 1)
      BY <1>0, <1>2, KeyOfNode, IndexType
    <3>2. ~Leads(growing.node, n)
      BY <1>1, <1>2, KeyOfNode, NullLeadsNowhere
    <3>3. growing.bucket \in Nat
      BY <1>0, <1>2, <1>3 DEF TypeOK
    <3>4. HashToIndex(keyOf[n], c) < growing.bucket \/ HashToIndex(keyOf[n], c) = growing.bucket
      BY <1>1, <1>3, <3>1, <3>3
    <3> QED
      BY <1>0, <3>2, <3>4 DEF Moved
  <2> QED
    BY <2>1 DEF Moved
<1>10. \A x \in 0..(c2 - 1) :
         /\ Closed({Null} \cup InBucket(x, c2))
         /\ Latest(Bucket(m, x)) \in {Null} \cup InBucket(x, c2)
         /\ \A n \in InBucket(x, c2) : Leads(Latest(Bucket(m, x)), n)
  <2> TAKE x \in 0..(c2 - 1)
  <2>1. Moved \cap InBucket(x, c2) = InBucket(x, c2)
    BY <1>9 DEF InBucket
  <2> QED
    BY <1>0, <1>4, <2>1 DEF ChainInv, MovedAreThere
<1>11. BucketsLead'
  <2> SUFFICES ASSUME NEW x \in 0..(c2 - 1), NEW i \in Positions,
                      i = 0 \/ log[i].loc = Bucket(m, x),
                      \A j \in 1..Len(log) : i < j => log[j].loc # Bucket(m, x),
                      NEW n \in InBucket(x, c2)
               PROVE  Leads(Value(i), n)
    BY <1>1, <1>3, <1>5 DEF BucketsLead, Bucket
  <2>1. LastStore(Bucket(m, x), Len(log)) = i
    <3>1. LastIn(log, Bucket(m, x), Len(log)) = i
      BY <1>3, LastInIs DEF At, Positions
    <3> QED
      BY <3>1 DEF LastIn, LastStore
  <2>2. Latest(Bucket(m, x)) = Value(i)
    BY <2>1 DEF Latest
  <2> QED
    BY <1>10, <2>2
<1>12. BucketsPure'
  BY <1>3, <1>5, <1>10 DEF BucketsPure, Bucket, Null
<1>13. Acyclic' /\ OneNodePerKey'
  BY <1>1, <1>5 DEF ChainInv, Acyclic, OneNodePerKey, NextOf
<1>14. MovedAreThere' /\ OthersRemain'
  BY <1>4 DEF MovedAreThere, OthersRemain
<1>15. SearchLeads'
  <2>1. \A u \in Threads : reader[u] # m
    BY <1>0, <1>2, <1>3, NoneAssumption DEF TypeOK
  <2>2. \A u \in Threads : pc'[u] = "search" => Table(u)' # m
    BY <1>1, <1>2, <1>4, <2>1 DEF TypeOK, Table, Inserting
  <2> QED
    BY <1>3, <2>2 DEF SearchLeads
<1>16. CapacityExact'
  BY <1>0, <1>1, <1>3, <1>4 DEF ChainInv, CapacityExact
<1> QED
  BY <1>2, <1>6, <1>7, <1>8, <1>11, <1>12, <1>13, <1>14, <1>15, <1>16 DEF ChainInv

(* The new node leads to the others of its bucket, and none leads to it. *)
LEMMA InsertNewStepChain ==
  ASSUME ChainInv, NEW t \in Threads, InsertNew(t)
  PROVE  ChainInv'
<1>0. PICK n0, k, b, x0, c, len :
        /\ n0 = Len(keyOf) + 1 /\ k = key[t] /\ b = BucketOf(k, mMap)
        /\ c = BucketCount(mMap) /\ x0 = HashToIndex(k, c)
        /\ len = Len(log)
  OBVIOUS
<1>1. /\ keyOf' = Append(keyOf, k)
      /\ log' = log \o <<Store(NextOf(n0), Latest(b)), StoreRelease(b, n0)>>
      /\ seen' = [seen EXCEPT ![t] = Len(log')]
      /\ mCapacityUntilGrowth' = mCapacityUntilGrowth - 1
      /\ mInsertionMutex' = NoThread
      /\ pc' = [pc EXCEPT ![t] = "idle"]
      /\ key' = [key EXCEPT ![t] = NoKey]
      /\ node' = [node EXCEPT ![t] = Null]
      /\ pc[t] = "search" /\ mInsertionMutex = t /\ node[t] = Null
      /\ UNCHANGED <<bucketCounts, published, reader, clears, growing>>
  BY <1>0 DEF InsertNew, Unlock, Inserting
<1>2. OInv /\ OInv' /\ IInv /\ TypeOK /\ TypeOK'
  BY InsertNewStepOrder DEF ChainInv, OInv, IInv
<1>3. ~Growing /\ ~Growing'
  <2>1. ~Growing
    BY <1>1, <1>2, HolderNotGrowing
  <2> QED
    BY <1>1, <1>2, <2>1 DEF Growing, TypeOK
<1>4. /\ len \in Nat /\ log \in Seq(Stores) /\ keyOf \in Seq(Keys)
      /\ n0 \in Nat /\ n0 # Null /\ k \in Keys
      /\ seen \in [Threads -> Positions] /\ published \in Positions
      /\ mMap \in Nat /\ c \in Nat /\ x0 \in 0..(c - 1)
      /\ b = Bucket(mMap, x0)
      /\ Table(t) = mMap
  <2>1. k \in Keys
    BY <1>0, <1>1, <1>2 DEF IInv, HoldsLock
  <2>2. mMap \in Nat /\ c \in Nat /\ x0 \in 0..(c - 1)
    BY <1>0, <1>2, <2>1, CurrentTable, IndexType
  <2>3. b = Bucket(mMap, x0)
    BY <1>0 DEF BucketOf
  <2>4. Len(keyOf) \in Nat
    BY <1>2 DEF TypeOK
  <2> QED
    BY <1>0, <1>1, <1>2, <2>1, <2>2, <2>3, <2>4, SMTT(20) DEF TypeOK, Null, Table, Inserting
<1>5. /\ Len(log') = len + 2
      /\ \A i \in 1..len : log'[i] = log[i]
      /\ log'[len + 1] = Store(NextOf(n0), Latest(b))
      /\ log'[len + 2] = StoreRelease(b, n0)
  BY <1>0, <1>1, <1>4
<1>6. /\ Allocated' = Allocated \cup {n0} /\ n0 \notin Allocated
      /\ NodeOrNull' = NodeOrNull \cup {n0} /\ n0 \notin NodeOrNull
      /\ keyOf'[n0] = k /\ \A n \in Allocated : keyOf'[n] = keyOf[n]
      /\ mMap' = mMap /\ BucketCount(mMap)' = c
      /\ Len(keyOf') = Len(keyOf) + 1
  <2>1. Len(keyOf') = n0 /\ keyOf'[n0] = k /\ \A n \in 1..Len(keyOf) : keyOf'[n] = keyOf[n]
    BY <1>0, <1>1, <1>4
  <2>2. mMap' = mMap /\ BucketCount(mMap)' = c
    BY <1>0, <1>1 DEF mMap, BucketCount
  <2> QED
    BY <1>0, <1>4, <2>1, <2>2 DEF Allocated, NodeOrNull
<1>7. /\ \A n \in Allocated : Birth(n)' = Birth(n)
      /\ Birth(n0)' = len + 1
      /\ \A n \in Allocated : Birth(n) \in 1..len /\ Birth(n) \in Nat
  <2>1. \A n \in Allocated : Birth(n)' = Birth(n)
    BY <1>0, <1>2, <1>4, <1>5, BirthKept DEF OInv, Births
  <2>2. \A n \in Allocated : Birth(n) \in 1..len /\ Birth(n) \in Nat
    BY <1>0, <1>2, BirthType
  <2>3. Birth(n0)' = len + 1
    <3>1. n0 \in Allocated'
      BY <1>6
    <3>2. PICK i : i = Birth(n0)'
      OBVIOUS
    <3>3. /\ i \in 1..(len + 2) /\ log'[i].loc = NextOf(n0)
          /\ \A j \in 1..(i - 1) : log'[j].loc # NextOf(n0)
      BY <1>2, <1>5, <3>1, <3>2 DEF OInv, Births, IsBirth, NextOf
    <3>4. i \notin 1..len
      BY <1>0, <1>2, <1>4, <1>5, <1>6, <3>3 DEF OInv, SuccessorStores
    <3>5. i # len + 2
      BY <1>4, <1>5, <3>3 DEF StoreRelease, NextOf, Bucket
    <3> QED
      BY <1>4, <3>2, <3>3, <3>4, <3>5
  <2> QED
    BY <2>1, <2>2, <2>3
<1>8. /\ Latest(NextOf(n0))' = Latest(b) /\ Latest(b)' = n0
      /\ \A n : n # n0 => Latest(NextOf(n))' = Latest(NextOf(n))
      /\ \A table, x : Bucket(table, x) # b =>
           Latest(Bucket(table, x))' = Latest(Bucket(table, x))
  <2>1. \A loc : Latest(loc)' = IF b = loc THEN n0
                                ELSE IF NextOf(n0) = loc THEN Latest(b) ELSE Latest(loc)
    <3> SUFFICES ASSUME NEW loc
                 PROVE  Latest(loc)' = IF b = loc THEN n0
                          ELSE IF NextOf(n0) = loc THEN Latest(b) ELSE Latest(loc)
      OBVIOUS
    <3>1. PICK s1, s2 : /\ s1 = Store(NextOf(n0), Latest(b)) /\ s2 = StoreRelease(b, n0)
                        /\ log' = log \o <<s1, s2>>
      BY <1>1
    <3>2. Latest(loc)' = IF s2.loc = loc THEN s2.val
                         ELSE IF s1.loc = loc THEN s1.val ELSE Latest(loc)
      BY <1>2, <3>1, LatestAfter
    <3> QED
      BY <3>1, <3>2 DEF Store, StoreRelease
  <2> QED
    BY <1>4, <2>1 DEF Bucket, NextOf
(* The nodes that were there lead where they did. *)
<1>9. /\ Closed(NodeOrNull) /\ Latest(b) \in NodeOrNull /\ Null \in NodeOrNull
      /\ \A m \in NodeOrNull : \A n : Leads(m, n)' <=> Leads(m, n)
  <2>1. Closed(NodeOrNull)
    BY <1>2, LatestType DEF Closed
  <2>2. NodeOrNull \subseteq NodeOrNull'
    BY <1>6
  <2>3. PICK C : C = NodeOrNull
    OBVIOUS
  <2>4. \A x \in C \ {Null} : Latest(NextOf(x))' = Latest(NextOf(x))
    BY <1>6, <1>8, <2>3
  <2>5. \A m \in C : \A n : Leads(m, n)' <=> Leads(m, n)
    BY <1>2, <2>1, <2>2, <2>3, <2>4, LeadsKept
  <2> QED
    BY <1>2, <2>1, <2>3, <2>5, LatestType, SuccessorType
<1>10. Leads(n0, n0)' /\ \A n : Leads(Latest(b), n) => Leads(n0, n)'
  <2>1. Leads(n0, n0)'
    BY DEF Leads
  <2>2. PICK e : e = Latest(b)
    OBVIOUS
  <2>3. \A n : Leads(e, n) => Leads(e, n)'
    BY <1>9, <2>2
  <2>4. \A n : Leads(e, n)' => Leads(n0, n)'
    BY <1>4, <1>8, <2>2 DEF Leads, Closed, NextOf, Null
  <2> QED
    BY <2>1, <2>2, <2>3, <2>4
<1>11. \A x : /\ InBucket(x, c)' = InBucket(x, c) \cup (IF x = x0 THEN {n0} ELSE {})
              /\ InBucket(x, c) \subseteq Allocated
  BY <1>0, <1>6 DEF InBucket, HashToIndex
<1>12. NoTableAhead'
  <2> SUFFICES ASSUME NEW i \in 1..(len + 2), NEW table \in Nat, NEW x \in Nat,
                      log'[i].loc = Bucket(table, x)
               PROVE  table <= mMap
    BY <1>3, <1>5, <1>6 DEF NoTableAhead, Bucket
  <2>1. CASE i \in 1..len
    BY <1>0, <1>3, <1>5, <2>1 DEF ChainInv, NoTableAhead
  <2>2. CASE i = len + 1
    BY <1>5, <2>2 DEF Store, NextOf, Bucket
  <2>3. CASE i = len + 2
    BY <1>4, <1>5, <2>3 DEF StoreRelease, Bucket
  <2> QED
    BY <1>4, <2>1, <2>2, <2>3
<1>13. SeenWhole'
  <2>1. \A p \in 0..len : Whole(p) => Whole(p)'
    BY <1>5 DEF Whole, NextOf
  <2>2. Whole(Len(log))'
    BY <1>4, <1>5 DEF Whole, StoreRelease, NextOf, Bucket
  <2>3. Whole(published)'
    BY <1>0, <1>1, <1>4, <2>1 DEF ChainInv, SeenWhole, Positions
  <2>4. ASSUME NEW u \in Threads
        PROVE  Whole(seen[u])'
    <3>1. seen'[u] = seen[u] \/ seen'[u] = Len(log')
      BY <1>1, <1>4
    <3>2. seen[u] \in 0..len /\ Whole(seen[u])
      BY <1>0, <1>4 DEF ChainInv, SeenWhole, Positions
    <3>3. PICK p : p = seen'[u]
      OBVIOUS
    <3>4. Whole(p)'
      BY <2>1, <2>2, <3>1, <3>2, <3>3
    <3> QED
      BY <3>3, <3>4
  <2> QED
    BY <2>2, <2>3, <2>4 DEF SeenWhole
<1>14. BirthsPaired'
  <2> SUFFICES ASSUME NEW n \in Allocated', Birth(n)' > published
               PROVE  /\ Birth(n)' < len + 2
                      /\ log'[Birth(n)' + 1].loc = BucketOf(keyOf[n], mMap)'
    BY <1>1, <1>5 DEF BirthsPaired
  <2>1. CASE n \in Allocated
    <3>1. Birth(n) < len /\ log[Birth(n) + 1].loc = BucketOf(keyOf[n], mMap)
      BY <1>0, <1>3, <1>7, <2>1 DEF ChainInv, BirthsPaired
    <3>2. Birth(n) + 1 \in 1..len
      BY <1>4, <1>7, <2>1, <3>1
    <3>3. BucketOf(keyOf[n], mMap)' = BucketOf(keyOf[n], mMap)
      BY <1>0, <1>6, <2>1 DEF BucketOf, Bucket, HashToIndex
    <3> QED
      BY <1>4, <1>5, <1>7, <2>1, <3>1, <3>2, <3>3
  <2>2. CASE n = n0
    <3>1. BucketOf(keyOf[n], mMap)' = b
      BY <1>0, <1>6, <2>2 DEF BucketOf, Bucket, HashToIndex
    <3>2. log'[len + 2].loc = b
      BY <1>5 DEF StoreRelease
    <3> QED
      BY <1>4, <1>7, <2>2, <3>1, <3>2
  <2> QED
    BY <1>6, <2>1, <2>2
<1>15. BucketsLead'
  <2> SUFFICES ASSUME NEW x \in 0..(c - 1), NEW i \in 0..(len + 2),
                      i = 0 \/ log'[i].loc = Bucket(mMap, x),
                      \A j \in 1..published : i < j => log'[j].loc # Bucket(mMap, x),
                      NEW n \in InBucket(x, c)',
                      Birth(n)' <= published \/ Birth(n)' <= i
               PROVE  Leads(Value(i), n)'
    BY <1>1, <1>5, <1>6 DEF BucketsLead, Bucket, Positions
  <2>1. CASE i \in 0..len
    <3>1. i = 0 \/ log[i].loc = Bucket(mMap, x)
      BY <1>5, <2>1
    <3>2. \A j \in 1..published : i < j => log[j].loc # Bucket(mMap, x)
      BY <1>0, <1>4, <1>5, SMTT(20) DEF Positions
    <3>3. n \in Allocated /\ n \in InBucket(x, c)
      BY <1>0, <1>4, <1>6, <1>7, <1>11, <2>1 DEF Positions
    <3>4. PICK v : v = Value(i)
      OBVIOUS
    <3>5. Leads(v, n)
      BY <1>0, <1>3, <1>7, <2>1, <3>1, <3>2, <3>3, <3>4 DEF ChainInv, BucketsLead, Positions
    <3>6. v \in NodeOrNull
      BY <1>0, <1>2, <2>1, <3>4, ValueType DEF Positions
    <3>7. Value(i)' = v
      BY <1>5, <2>1, <3>4 DEF Value, Null
    <3> QED
      BY <1>9, <3>5, <3>6, <3>7
  <2>2. CASE i = len + 1
    BY <1>4, <1>5, <2>2 DEF Store, NextOf, Bucket
  <2>3. CASE i = len + 2
    <3>1. x = x0
      BY <1>4, <1>5, <2>3 DEF StoreRelease, Bucket
    <3>2. Value(i)' = n0
      BY <1>4, <1>5, <2>3 DEF StoreRelease, Value
    <3>3. n = n0 \/ Leads(Latest(b), n)
      BY <1>0, <1>3, <1>4, <1>11, <3>1, CurrentLeads
    <3> QED
      BY <1>10, <3>2, <3>3
  <2> QED
    BY <1>4, <2>1, <2>2, <2>3
<1>16. BucketsPure'
  <2> SUFFICES ASSUME NEW x \in 0..(c - 1)
               PROVE  /\ Closed({Null} \cup InBucket(x, c))'
                      /\ Latest(Bucket(mMap, x))' \in ({Null} \cup InBucket(x, c))'
    BY <1>6 DEF BucketsPure
  <2>1. PICK N, M : /\ N = {Null} \cup InBucket(x, c)
                    /\ M = N \cup (IF x = x0 THEN {n0} ELSE {})
    OBVIOUS
  <2>2. M = ({Null} \cup InBucket(x, c))'
    BY <1>11, <2>1 DEF Null
  <2>3. Closed(N) /\ Latest(Bucket(mMap, x)) \in N /\ n0 \notin N
    BY <1>0, <1>3, <1>4, <1>6, <1>11, <2>1 DEF ChainInv, BucketsPure
  <2>4. \A n \in N \ {Null} : Latest(NextOf(n))' \in N
    BY <1>8, <2>3 DEF Closed
  <2>5. x = x0 => Latest(NextOf(n0))' \in N
    BY <1>4, <1>8, <2>3
  <2>6. Closed(M)'
    BY <2>1, <2>4, <2>5 DEF Closed, NextOf, Null
  <2>7. Latest(Bucket(mMap, x))' \in M
    <3>1. Bucket(mMap, x)' = Bucket(mMap, x) /\ (Bucket(mMap, x) = b <=> x = x0)
      BY <1>4, <1>6 DEF Bucket
    <3>2. Latest(Bucket(mMap, x))' = IF x = x0 THEN n0 ELSE Latest(Bucket(mMap, x))
      BY <1>8, <3>1
    <3> QED
      BY <2>1, <2>3, <3>2
  <2> QED
    BY <2>2, <2>6, <2>7
<1>17. Acyclic'
  <2> SUFFICES ASSUME NEW n \in Allocated'
               PROVE  ~Leads(Latest(NextOf(n)), n)'
    BY DEF Acyclic
  <2>0. PICK e : e = Latest(NextOf(n))'
    OBVIOUS
  <2>1. CASE n = n0
    <3>1. e \in NodeOrNull
      BY <1>8, <1>9, <2>0, <2>1
    <3>2. ~Leads(e, n0)
      BY <1>6, <1>9, <3>1 DEF Leads
    <3> QED
      BY <1>9, <2>0, <2>1, <3>1, <3>2
  <2>2. CASE n \in Allocated
    <3>1. e = Latest(NextOf(n)) /\ e \in NodeOrNull
      BY <1>2, <1>6, <1>8, <2>0, <2>2, SuccessorType
    <3>2. ~Leads(e, n)
      BY <2>2, <3>1 DEF ChainInv, Acyclic
    <3> QED
      BY <1>9, <2>0, <3>1, <3>2
  <2> QED
    BY <1>6, <2>1, <2>2
<1>18. MovedAreThere' /\ OthersRemain'
  BY <1>3 DEF MovedAreThere, OthersRemain
<1>19. SearchLeads'
  <2> SUFFICES ASSUME NEW u \in Threads, pc'[u] = "search", Table(u)' = mMap',
                      NEW n \in Allocated', keyOf'[n] = key'[u], Birth(n)' <= seen'[u]
               PROVE  Leads(node[u], n)'
    BY DEF SearchLeads
  <2>1. /\ u # t /\ pc[u] = "search" /\ node'[u] = node[u] /\ key'[u] = key[u]
        /\ seen'[u] = seen[u]
    BY <1>1, <1>2 DEF TypeOK
  <2>2. Table(u) = mMap
    BY <1>1, <1>6, <2>1, NoneAssumption DEF Table, Inserting
  <2>3. n \in Allocated
    BY <1>0, <1>4, <1>6, <1>7, <2>1 DEF Positions
  <2>4. PICK m : m = node[u]
    OBVIOUS
  <2>5. m \in NodeOrNull
    BY <1>2, <2>4 DEF TypeOK
  <2>6. Leads(m, n)
    BY <1>3, <1>6, <1>7, <2>1, <2>2, <2>3, <2>4 DEF ChainInv, SearchLeads
  <2> QED
    BY <1>9, <2>1, <2>4, <2>5, <2>6
<1>20. OneNodePerKey'
  <2>1. ASSUME NEW m \in Allocated, keyOf[m] = k
        PROVE  FALSE
    <3>1. Birth(m) <= seen[t]
      BY <1>0, <1>1, <1>2, <1>4, <1>7 DEF OInv, HolderSynchronised
    <3>2. Leads(Null, m)
      BY <1>0, <1>1, <1>3, <1>4, <2>1, <3>1 DEF ChainInv, SearchLeads
    <3> QED
      BY <1>2, <3>2, KeyOfNode, NullLeadsNowhere
  <2> QED
    BY <1>6, <2>1 DEF ChainInv, OneNodePerKey
<1>21. CapacityExact'
  <2>1. MaxEntries(BucketCount(mMap))' = MaxEntries(c)
    BY <1>6 DEF MaxEntries
  <2>2. mCapacityUntilGrowth \in Int /\ MaxEntries(c) \in Int /\ Len(keyOf) \in Nat
    BY <1>0, <1>2, CurrentTable, SMTT(20) DEF TypeOK
  <2> QED
    BY SMTT(20), <1>0, <1>1, <1>6, <2>1, <2>2 DEF ChainInv, CapacityExact
<1> QED
  BY <1>2, <1>12, <1>13, <1>14, <1>15, <1>16, <1>17, <1>18, <1>19, <1>20, <1>21 DEF ChainInv

LEMMA ClearStepChain ==
  ASSUME ChainInv, ClearNonConcurrent
  PROVE  ChainInv'
<1>1. /\ keyOf' = <<>> /\ log' = <<>> /\ published' = 0 /\ clears' = clears + 1
      /\ seen' = [t \in Threads |-> 0]
      /\ \A t \in Threads : pc[t] = "idle"
      /\ UNCHANGED pc
  BY DEF ClearNonConcurrent
<1>2. OInv' /\ TypeOK /\ TypeOK'
  BY ClearStepOrder DEF ChainInv, OInv, IInv
<1>3. Len(log') = 0 /\ Allocated' = {} /\ Positions' = {0} /\ ~Growing'
  BY <1>1 DEF Allocated, Positions, Growing
<1>4. \A loc : Latest(loc)' = Null
  <2> SUFFICES ASSUME NEW loc
               PROVE  Latest(loc)' = Null
    OBVIOUS
  <2>1. PICK l : l = log'
    OBVIOUS
  <2>2. LastIn(l, loc, 0) = 0
    BY LastInFound
  <2>3. LastStore(loc, Len(log))' = LastIn(l, loc, 0)
    BY <1>3, <2>1 DEF LastStore, LastIn
  <2> QED
    BY <2>2, <2>3 DEF Latest, Value, Null
<1>5. NoTableAhead' /\ SeenWhole' /\ BirthsPaired'
  BY <1>1, <1>3 DEF NoTableAhead, SeenWhole, Whole, BirthsPaired
<1>6. \A x, c : InBucket(x, c)' = {}
  BY <1>3 DEF InBucket
<1>7. BucketsLead' /\ Acyclic' /\ OneNodePerKey'
  BY <1>3, <1>6 DEF BucketsLead, Acyclic, OneNodePerKey
<1>8. BucketsPure'
  <2>1. \A x, c : ({Null} \cup InBucket(x, c))' = {Null}
    BY <1>6 DEF Null
  <2> QED
    BY <1>3, <1>4, <1>6, <2>1 DEF BucketsPure, Closed, Null
<1>9. MovedAreThere' /\ OthersRemain' /\ SearchLeads'
  BY <1>3 DEF MovedAreThere, OthersRemain, SearchLeads
<1>10. CapacityExact'
  BY <1>1, <1>2 DEF CapacityExact, TypeOK
<1> QED
  BY <1>2, <1>5, <1>7, <1>8, <1>9, <1>10 DEF ChainInv

LEMMA NextChainInv ==
  ASSUME ChainInv, [Next]_vars
  PROVE  ChainInv'
<1>1. CASE UNCHANGED vars
  <2>1. OInv'
    BY <1>1, NextOInv DEF ChainInv
  <2>2. UNCHANGED <<tableVars, growing, clears, pc, mInsertionMutex, reader, key, node, seen>>
    BY <1>1 DEF vars, walkVars
  <2>3. UNCHANGED Growing
    BY <2>2 DEF Growing
  <2>4. /\ NoTableAhead' /\ BirthsPaired' /\ BucketsLead' /\ BucketsPure'
        /\ Acyclic' /\ MovedAreThere' /\ OthersRemain' /\ OneNodePerKey'
        /\ CapacityExact'
    BY <2>2, <2>3, StructureKept
  <2>5. /\ UNCHANGED <<Allocated, mMap>>
        /\ \A n : Birth(n)' = Birth(n)
        /\ \A p : Whole(p)' <=> Whole(p)
        /\ \A m, n : Leads(m, n)' <=> Leads(m, n)
        /\ UNCHANGED <<keyOf, log, published>>
    BY <2>2, ChainsKept DEF tableVars, mMap
  <2>6. SeenWhole'
    BY <2>2, <2>5 DEF ChainInv, SeenWhole
  <2>7. SearchLeads'
    BY <2>2, <2>3, <2>5 DEF ChainInv, SearchLeads, Table, Inserting
  <2> QED
    BY <2>1, <2>4, <2>6, <2>7 DEF ChainInv
<1>2. CASE ClearNonConcurrent
  BY <1>2, ClearStepChain
<1>3. ASSUME NEW t \in Threads, Call(t)
      PROVE  ChainInv'
  <2>1. \/ \E k \in Keys : Lock(t, k)
        \/ Grab(t) \/ Synchronise(t) \/ \E k \in Keys : Query(t, k)
        \/ \E p \in Pairs : QueryTwo(t, p[1], p[2])
    BY <1>3, CallsAssumption DEF Call
  <2> QED
    BY <2>1, ReaderStepChain, LockStepChain
<1>4. ASSUME NEW t \in Threads, Step(t)
      PROVE  ChainInv'
  BY <1>4, ReaderStepChain, LockStepChain, GrowStepChain, NextBucketStepChain,
     RelinkStepChain, PublishStepChain, InsertNewStepChain DEF Step
<1> QED
  BY <1>1, <1>2, <1>3, <1>4 DEF Next

-----------------------------------------------------------------------------
(* MonomialMap.hpp:130-158, 198, FixedSizeMonomialMap.h:108-121, 196-222: no
   sequence of inserts and growths loses, duplicates or miscounts an entry, and
   no search, by whichever thread and whatever it overlaps, misses one that it
   has reason to see. *)
THEOREM EntriesAreThere == Spec => []EntriesAreFound
<1>1. ChainInv => EntriesAreFound
  <2> SUFFICES ASSUME ChainInv PROVE EntriesAreFound
    OBVIOUS
  <2>1. OInv /\ TypeOK
    BY DEF ChainInv, OInv, IInv
  <2>2. EntriesComplete
    <3> SUFFICES ASSUME ~Growing
                 PROVE  /\ \A i \in 0..(BucketCount(mMap) - 1) :
                              Chain(Latest(Bucket(mMap, i))) = InBucket(i, BucketCount(mMap))
                        /\ \A n \in Allocated : n \notin Chain(Latest(NextOf(n)))
      BY DEF EntriesComplete, InBucket
    <3>1. ASSUME NEW i \in 0..(BucketCount(mMap) - 1)
          PROVE  Chain(Latest(Bucket(mMap, i))) = InBucket(i, BucketCount(mMap))
      <4> DEFINE N == InBucket(i, BucketCount(mMap))
      <4>1. ASSUME NEW n \in N
            PROVE  n \in Chain(Latest(Bucket(mMap, i)))
        <5>1. n \in Allocated
          BY DEF InBucket
        <5> QED
          BY <2>1, <5>1, CurrentLeads, ChainIsWhatLeads
      <4>2. ASSUME NEW n \in Chain(Latest(Bucket(mMap, i)))
            PROVE  n \in N
        <5>1. n \in Allocated
          BY DEF Chain
        <5>2. Leads(Latest(Bucket(mMap, i)), n)
          BY <2>1, <5>1, ChainIsWhatLeads
        <5>3. Closed({Null} \cup N) /\ Latest(Bucket(mMap, i)) \in {Null} \cup N
          BY DEF ChainInv, BucketsPure
        <5>4. {Null} \cup N \in SUBSET NodeOrNull
          BY <2>1, KeyOfNode, SuccessorType DEF InBucket
        <5> QED
          BY <2>1, <5>1, <5>2, <5>3, <5>4, KeyOfNode DEF Leads
      <4> QED
        BY <4>1, <4>2
    <3>2. \A n \in Allocated : n \notin Chain(Latest(NextOf(n)))
      BY <2>1, ChainIsWhatLeads DEF ChainInv, Acyclic
    <3> QED
      BY <3>1, <3>2
  <2>3. EntryCountExact
    BY DEF ChainInv, CapacityExact, EntryCountExact
  <2>4. MissIsAccurate
    <3> SUFFICES ASSUME NEW t \in Threads, pc[t] = "search", node[t] = Null,
                        Table(t) = mMap, ~Growing,
                        NEW n \in Allocated, keyOf[n] = key[t]
                 PROVE  Birth(n) > seen[t]
      BY DEF MissIsAccurate
    <3>1. ~Leads(node[t], n)
      BY <2>1, KeyOfNode, NullLeadsNowhere
    <3>2. ~(Birth(n) <= seen[t])
      BY <3>1 DEF ChainInv, SearchLeads
    <3>3. Birth(n) \in Nat /\ seen[t] \in Nat
      BY <2>1, BirthType DEF TypeOK, Positions
    <3> QED
      BY <3>2, <3>3
  <2> QED
    BY <2>2, <2>3, <2>4 DEF EntriesAreFound, ChainInv
<1> QED
  BY <1>1, InitChainInv, NextChainInv, PTL DEF Spec

-----------------------------------------------------------------------------
(* Step by step *)

(* The abstract map *)
Entries == {keyOf[n] : n \in Allocated}
Stale == [t \in Threads |-> Growing \/ reader[t] # mMap]
KnownBy(t) == {keyOf[n] : n \in {m \in Allocated : Birth(m) <= seen[t]}}
Known == [t \in Threads |-> KnownBy(t)]
AskedBy(t) == IF pc[t] \in {"bucket", "search"} /\ ~Inserting(t) THEN key[t] ELSE NoKey
Asked == [t \in Threads |-> AskedBy(t)]
Outcomes == [t \in Threads |-> Outcome(t)]

AbstractVars == <<Entries, Growing, Stale, Known, Asked, Outcomes>>

LEMMA InitMaps == Init => Promised!Init
<1> SUFFICES ASSUME Init PROVE Promised!Init
  OBVIOUS
<1>1. Allocated = {} /\ Growing = FALSE
  BY DEF Init, Allocated, Growing
<1>2. Entries = {} /\ \A t \in Threads : KnownBy(t) = {}
  BY <1>1 DEF Entries, KnownBy
<1>3. \A t \in Threads : AskedBy(t) = NoKey /\ Outcome(t) = "none" /\ reader[t] # mMap
  <2>1. mMap \in Nat
    BY DEF Init, mMap
  <2> SUFFICES ASSUME NEW t \in Threads
               PROVE  AskedBy(t) = NoKey /\ Outcome(t) = "none" /\ reader[t] # mMap
    OBVIOUS
  <2>2. pc[t] = "idle" /\ reader[t] = NoReader
    BY DEF Init
  <2>3. AskedBy(t) = NoKey /\ Outcome(t) = "none"
    BY <2>2 DEF AskedBy, Outcome, Searching
  <2> QED
    BY <2>1, <2>2, <2>3, NoneAssumption
<1>4. Stale = [t \in Threads |-> TRUE]
  BY <1>3 DEF Stale
<1> QED
  BY <1>1, <1>2, <1>3, <1>4
     DEF Promised!Init, Entries, Stale, Known, KnownBy, Asked, AskedBy, Outcomes

-----------------------------------------------------------------------------
(* What becomes of the abstract map *)

(* A thread that has seen more knows more. *)
LEMMA ThreadLearns ==
  ASSUME OInv, OInv', UNCHANGED <<keyOf, log>>, NEW t \in Threads,
         \A u \in Threads \ {t} : seen'[u] = seen[u], seen[t] <= seen'[t]
  PROVE  UNCHANGED Entries /\ Promised!Learns(t)
<1>1. UNCHANGED Allocated /\ \A n : Birth(n)' = Birth(n)
  BY LogKept
<1>2. UNCHANGED Entries
  BY <1>1 DEF Entries
<1>3. PICK E, new : E = Entries /\ new = KnownBy(t)'
  OBVIOUS
<1>4. new \in SUBSET E
  BY <1>1, <1>3 DEF Entries, KnownBy
<1>5. KnownBy(t) \cup new = new
  <2>1. /\ \A n \in Allocated : Birth(n) \in Nat
        /\ seen[t] \in Nat /\ seen'[t] \in Nat
    <3>1. seen[t] \in Positions /\ seen'[t] \in Positions' /\ Len(log) \in Nat
      BY DEF OInv, IInv, TypeOK
    <3> QED
      BY <3>1, BirthType DEF Positions
  <2>2. \A n \in Allocated : Birth(n) <= seen[t] => Birth(n) <= seen'[t]
    BY <2>1
  <2> QED
    BY <1>1, <1>3, <2>2 DEF KnownBy
<1>6. \A u \in Threads \ {t} : KnownBy(u)' = KnownBy(u)
  BY <1>1 DEF KnownBy
<1>7. Known' = [Known EXCEPT ![t] = @ \cup new]
  BY <1>3, <1>5, <1>6 DEF Known
<1>8. Promised!Learns(t) <=>
        \E s \in SUBSET Entries : Known' = [Known EXCEPT ![t] = @ \cup s]
  BY DEF Promised!Learns, Entries, Known, KnownBy
<1> QED
  BY <1>2, <1>3, <1>4, <1>7, <1>8

LEMMA StaleKept ==
  ASSUME UNCHANGED <<bucketCounts, reader>>, UNCHANGED Growing
  PROVE  UNCHANGED Stale
BY DEF Stale, mMap

(* What a thread asks, and has found out, depends on what it does alone. *)
LEMMA ThreadKept ==
  ASSUME UNCHANGED keyOf, NEW u \in Threads,
         pc'[u] = pc[u], key'[u] = key[u], node'[u] = node[u],
         mInsertionMutex' = u <=> mInsertionMutex = u
  PROVE  AskedBy(u)' = AskedBy(u) /\ Outcome(u)' = Outcome(u)
<1>1. Inserting(u)' <=> Inserting(u)
  BY DEF Inserting
<1>2. Matches(u)' <=> Matches(u)
  BY DEF Matches, Holds, Null
<1>3. AskedBy(u)' = AskedBy(u)
  BY <1>1 DEF AskedBy
<1>4. Outcome(u)' = Outcome(u)
  BY <1>1, <1>2 DEF Outcome, Searching, Null
<1> QED
  BY <1>3, <1>4

-----------------------------------------------------------------------------
(* The steps of the abstract map, with its variables' names *)

LEMMA AbstractSteps ==
  ASSUME NEW t \in Threads
  PROVE  /\ /\ Promised!Learns(t)
            /\ UNCHANGED <<Entries, Growing, Stale, Asked, Outcomes>>
            => Promised!Synchronise(t)
         /\ /\ Promised!Learns(t)
            /\ Stale' = [Stale EXCEPT ![t] = Growing]
            /\ UNCHANGED <<Entries, Growing, Asked, Outcomes>>
            => Promised!Refresh(t)
         /\ \A k \in Keys :
              /\ k \notin Entries /\ ~Growing
              /\ Entries' = Entries \cup {k}
              /\ Known' = [Known EXCEPT ![t] = Entries']
              /\ UNCHANGED <<Growing, Stale, Asked, Outcomes>>
              => Promised!Put(t, k)
         /\ \A k \in Keys :
              /\ Asked[t] = NoKey \/ Outcomes[t] # "none"
              /\ Asked' = [Asked EXCEPT ![t] = k]
              /\ Outcomes' = [Outcomes EXCEPT ![t] = "none"]
              /\ Promised!Learns(t)
              /\ UNCHANGED <<Entries, Growing, Stale>>
              => Promised!Ask(t, k)
         /\ /\ Asked[t] \in Entries /\ Outcomes[t] = "none"
            /\ Outcomes' = [Outcomes EXCEPT ![t] = "hit"]
            /\ Promised!Learns(t)
            /\ UNCHANGED <<Entries, Growing, Stale, Asked>>
            => Promised!Hit(t)
         /\ /\ Asked[t] # NoKey /\ Outcomes[t] = "none"
            /\ Promised!Learns(t)
            /\ Stale'[t] \/ Asked'[t] \notin Known'[t]
            /\ Outcomes' = [Outcomes EXCEPT ![t] = "miss"]
            /\ UNCHANGED <<Entries, Growing, Stale, Asked>>
            => Promised!Miss(t)
         /\ /\ Outcomes[t] # "none"
            /\ Asked' = [Asked EXCEPT ![t] = NoKey]
            /\ Outcomes' = [Outcomes EXCEPT ![t] = "none"]
            /\ UNCHANGED <<Entries, Growing, Stale, Known>>
            => Promised!Return(t)
<1> USE DEF Entries, Stale, Known, KnownBy, Asked, AskedBy, Outcomes
<1>1. /\ Promised!Learns(t)
      /\ UNCHANGED <<Entries, Growing, Stale, Asked, Outcomes>>
      => Promised!Synchronise(t)
  BY DEF Promised!Synchronise
<1>2. /\ Promised!Learns(t)
      /\ Stale' = [Stale EXCEPT ![t] = Growing]
      /\ UNCHANGED <<Entries, Growing, Asked, Outcomes>>
      => Promised!Refresh(t)
  BY DEF Promised!Refresh
<1>3. ASSUME NEW k \in Keys
      PROVE  /\ k \notin Entries /\ ~Growing
             /\ Entries' = Entries \cup {k}
             /\ Known' = [Known EXCEPT ![t] = Entries']
             /\ UNCHANGED <<Growing, Stale, Asked, Outcomes>>
             => Promised!Put(t, k)
  BY DEF Promised!Put
<1>4. ASSUME NEW k \in Keys
      PROVE  /\ Asked[t] = NoKey \/ Outcomes[t] # "none"
             /\ Asked' = [Asked EXCEPT ![t] = k]
             /\ Outcomes' = [Outcomes EXCEPT ![t] = "none"]
             /\ Promised!Learns(t)
             /\ UNCHANGED <<Entries, Growing, Stale>>
             => Promised!Ask(t, k)
  BY DEF Promised!Ask
<1>5. /\ Asked[t] \in Entries /\ Outcomes[t] = "none"
      /\ Outcomes' = [Outcomes EXCEPT ![t] = "hit"]
      /\ Promised!Learns(t)
      /\ UNCHANGED <<Entries, Growing, Stale, Asked>>
      => Promised!Hit(t)
  BY DEF Promised!Hit
<1>6. /\ Asked[t] # NoKey /\ Outcomes[t] = "none"
      /\ Promised!Learns(t)
      /\ Stale'[t] \/ Asked'[t] \notin Known'[t]
      /\ Outcomes' = [Outcomes EXCEPT ![t] = "miss"]
      /\ UNCHANGED <<Entries, Growing, Stale, Asked>>
      => Promised!Miss(t)
  BY DEF Promised!Miss, Promised!MayMiss
<1>7. /\ Outcomes[t] # "none"
      /\ Asked' = [Asked EXCEPT ![t] = NoKey]
      /\ Outcomes' = [Outcomes EXCEPT ![t] = "none"]
      /\ UNCHANGED <<Entries, Growing, Stale, Known>>
      => Promised!Return(t)
  BY DEF Promised!Return
<1> QED
  BY <1>1, <1>2, <1>3, <1>4, <1>5, <1>6, <1>7

LEMMA AbstractTableSteps ==
  /\ /\ ~Growing /\ Growing'
     /\ Stale' = [t \in Threads |-> TRUE]
     /\ UNCHANGED <<Entries, Known, Asked, Outcomes>>
     => Promised!StartGrowth
  /\ /\ Growing /\ ~Growing'
     /\ UNCHANGED <<Entries, Stale, Known, Asked, Outcomes>>
     => Promised!EndGrowth
  /\ /\ \A t \in Threads : Asked[t] = NoKey
     /\ Entries' = {}
     /\ Known' = [t \in Threads |-> {}]
     /\ Stale' = [t \in Threads |-> TRUE]
     /\ UNCHANGED <<Growing, Asked, Outcomes>>
     => Promised!Clear
<1> USE DEF Entries, Stale, Known, KnownBy, Asked, AskedBy, Outcomes
<1>1. /\ ~Growing /\ Growing'
      /\ Stale' = [t \in Threads |-> TRUE]
      /\ UNCHANGED <<Entries, Known, Asked, Outcomes>>
      => Promised!StartGrowth
  BY DEF Promised!StartGrowth, Growing
<1>2. /\ Growing /\ ~Growing'
      /\ UNCHANGED <<Entries, Stale, Known, Asked, Outcomes>>
      => Promised!EndGrowth
  BY DEF Promised!EndGrowth, Growing
<1>3. /\ \A t \in Threads : Asked[t] = NoKey
      /\ Entries' = {}
      /\ Known' = [t \in Threads |-> {}]
      /\ Stale' = [t \in Threads |-> TRUE]
      /\ UNCHANGED <<Growing, Asked, Outcomes>>
      => Promised!Clear
  BY DEF Promised!Clear
<1> QED
  BY <1>1, <1>2, <1>3

LEMMA AbstractNext ==
  ASSUME NEW t \in Threads
  PROVE  /\ Promised!Synchronise(t) => Promised!Next
         /\ Promised!Refresh(t) => Promised!Next
         /\ \A k \in Keys : Promised!Put(t, k) => Promised!Next
         /\ \A k \in Keys : Promised!Ask(t, k) => Promised!Next
         /\ Promised!Hit(t) => Promised!Next
         /\ Promised!Miss(t) => Promised!Next
         /\ Promised!Return(t) => Promised!Next
         /\ Promised!StartGrowth => Promised!Next
         /\ Promised!EndGrowth => Promised!Next
         /\ Promised!Clear => Promised!Next
BY DEF Promised!Next

-----------------------------------------------------------------------------
(* Every step maps to a step or a stutter. *)

LEMMA ReaderStepMaps ==
  ASSUME ChainInv, NEW t \in Threads,
         \/ Grab(t) \/ Synchronise(t) \/ \E k \in Keys : Query(t, k)
         \/ \E p \in Pairs : QueryTwo(t, p[1], p[2])
         \/ LoadBucket(t) \/ AdvanceAny(t) \/ Answer(t)
  PROVE  Promised!Next
<1>1. /\ UNCHANGED <<bucketCounts, published, keyOf, log, mInsertionMutex>>
      /\ Inserting(t)' <=> Inserting(t)
      /\ UNCHANGED mMap
  BY DEF Grab, Synchronise, Query, QueryTwo, LoadBucket, AdvanceAny, Advance, Answer,
         tableVars, Inserting, mMap
<1>2. /\ ChainInv' /\ OInv /\ OInv' /\ IInv /\ TypeOK
  BY ReaderStepChain DEF ChainInv, OInv, IInv
<1>3. UNCHANGED Entries /\ Promised!Learns(t)
  BY <1>1, <1>2, ReaderSees, ThreadLearns
<1>4. UNCHANGED Growing
  <2>1. \A u \in Threads : pc'[u] = "growing" <=> pc[u] = "growing"
    BY <1>2 DEF TypeOK, Grab, Synchronise, Query, QueryTwo, LoadBucket,
                AdvanceAny, Advance, Answer, walkVars
  <2> QED
    BY <2>1 DEF Growing
<1>5. \A u \in Threads \ {t} : AskedBy(u)' = AskedBy(u) /\ Outcome(u)' = Outcome(u)
  <2>1. \A u \in Threads \ {t} :
          pc'[u] = pc[u] /\ key'[u] = key[u] /\ node'[u] = node[u]
    BY <1>2 DEF TypeOK, Grab, Synchronise, Query, QueryTwo, LoadBucket,
                AdvanceAny, Advance, Answer, walkVars
  <2> QED
    BY <1>1, <2>1, ThreadKept
<1>6. /\ \A a : AskedBy(t)' = a => Asked' = [Asked EXCEPT ![t] = a]
      /\ \A o : Outcome(t)' = o => Outcomes' = [Outcomes EXCEPT ![t] = o]
      /\ AskedBy(t)' = AskedBy(t) => UNCHANGED Asked
      /\ Outcome(t)' = Outcome(t) => UNCHANGED Outcomes
      /\ Asked[t] = AskedBy(t) /\ Asked'[t] = AskedBy(t)' /\ Outcomes[t] = Outcome(t)
  BY <1>5 DEF Asked, Outcomes
<1>7. UNCHANGED reader => UNCHANGED Stale
  BY <1>1, <1>4, StaleKept
<1>8. CASE Grab(t)
  <2>1. pc[t] = "idle" /\ pc'[t] = "idle" /\ reader' = [reader EXCEPT ![t] = mMap]
    BY <1>8 DEF Grab
  <2>2. AskedBy(t)' = AskedBy(t) /\ Outcome(t)' = Outcome(t)
    BY <2>1 DEF AskedBy, Outcome, Searching
  <2>3. Stale' = [Stale EXCEPT ![t] = Growing]
    <3>1. \A u \in Threads :
            reader'[u] # mMap' <=> u # t /\ reader[u] # mMap
      BY <1>1, <1>2, <2>1 DEF TypeOK
    <3>2. PICK g \in BOOLEAN : g = Growing /\ g = Growing'
      BY <1>4 DEF Growing
    <3>3. Stale = [u \in Threads |-> g \/ reader[u] # mMap]
      BY <3>2 DEF Stale
    <3>4. Stale' = [u \in Threads |-> g \/ (u # t /\ reader[u] # mMap)]
      BY <3>1, <3>2 DEF Stale
    <3>5. [Stale EXCEPT ![t] = g] = [u \in Threads |-> g \/ (u # t /\ reader[u] # mMap)]
      BY <3>3
    <3> QED
      BY <3>2, <3>4, <3>5
  <2> QED
    BY <1>3, <1>4, <1>6, <2>2, <2>3, AbstractSteps, AbstractNext
<1>9. CASE Synchronise(t)
  <2>1. pc[t] = "idle" /\ pc'[t] = "idle" /\ UNCHANGED reader
    BY <1>9 DEF Synchronise
  <2>2. AskedBy(t)' = AskedBy(t) /\ Outcome(t)' = Outcome(t)
    BY <2>1 DEF AskedBy, Outcome, Searching
  <2> QED
    BY <1>3, <1>4, <1>6, <1>7, <2>1, <2>2, AbstractSteps, AbstractNext
<1>10. CASE \E k \in Keys : Query(t, k)
  <2>1. PICK k \in Keys : Query(t, k)
    BY <1>10
  <2>2. /\ pc[t] = "idle" /\ pc'[t] = "bucket" /\ key'[t] = k /\ UNCHANGED reader
        /\ ~Inserting(t)
    BY <1>2, <2>1 DEF Query, TypeOK, IInv, HoldsLock, Inserting
  <2>3. AskedBy(t) = NoKey /\ AskedBy(t)' = k /\ Outcome(t)' = "none"
    BY <1>1, <2>2 DEF AskedBy, Outcome, Searching
  <2> QED
    BY <1>3, <1>4, <1>6, <1>7, <2>2, <2>3, AbstractSteps, AbstractNext
<1>11. CASE \E p \in Pairs : QueryTwo(t, p[1], p[2])
  <2>1. PICK p \in Pairs : QueryTwo(t, p[1], p[2])
    BY <1>11
  <2>2. pc[t] = "idle" /\ UNCHANGED <<reader, node>> /\ ~Inserting(t)
    BY <1>2, <2>1 DEF QueryTwo, IInv, HoldsLock, Inserting
  <2>3. AskedBy(t) = NoKey /\ Outcome(t) = "none"
    BY <2>2 DEF AskedBy, Outcome, Searching
  <2>4. CASE UNCHANGED <<pc, key, rest>>
    <3>1. AskedBy(t)' = AskedBy(t) /\ Outcome(t)' = Outcome(t)
      BY <2>2, <2>4 DEF AskedBy, Outcome, Searching
    <3> QED
      BY <1>3, <1>4, <1>6, <1>7, <2>2, <3>1, AbstractSteps, AbstractNext
  <2>5. CASE ~UNCHANGED <<pc, key, rest>>
    <3>1. PICK k : pc'[t] = "bucket" /\ key'[t] = k /\ k \in {p[1], p[2]}
      BY <1>2, <2>1, <2>5 DEF QueryTwo, TypeOK
    <3>2. k \in Keys
      BY <3>1, CallsAssumption
    <3>3. AskedBy(t)' = k /\ Outcome(t)' = "none"
      BY <1>1, <2>2, <3>1 DEF AskedBy, Outcome, Searching
    <3> QED
      BY <1>3, <1>4, <1>6, <1>7, <2>2, <2>3, <3>2, <3>3, AbstractSteps, AbstractNext
  <2> QED
    BY <2>4, <2>5
<1>12. CASE LoadBucket(t) \/ AdvanceAny(t)
  <2>1. /\ pc'[t] = "search" /\ key'[t] = key[t] /\ UNCHANGED reader
        /\ \/ pc[t] = "bucket"
           \/ pc[t] = "search" /\ node[t] # Null /\ ~Matches(t)
    BY <1>2, <1>12 DEF LoadBucket, AdvanceAny, Advance, TypeOK
  <2>2. AskedBy(t)' = AskedBy(t) /\ Outcome(t) = "none"
    BY <1>1, <2>1 DEF AskedBy, Outcome, Searching
  <2>3. Outcome(t)' \in {"none", "hit", "miss"}
    BY DEF Outcome
  <2>4. CASE Outcome(t)' = "none"
    BY <1>3, <1>4, <1>6, <1>7, <2>1, <2>2, <2>4, AbstractSteps, AbstractNext
  <2>5. CASE Outcome(t)' = "hit"
    <3>1. ~Inserting(t) /\ node'[t] # Null /\ keyOf[node'[t]] = key[t]
      BY <1>1, <2>1, <2>5 DEF Outcome, Searching, Matches, Holds, Null
    <3>2. node'[t] \in Allocated
      <4>1. node'[t] \in NodeOrNull' /\ Len(keyOf) \in Nat
        BY <1>2 DEF OInv, IInv, TypeOK
      <4> QED
        BY <1>1, <3>1, <4>1 DEF NodeOrNull, Allocated, Null
    <3>3. AskedBy(t) = key[t]
      BY <2>1, <3>1 DEF AskedBy
    <3>4. AskedBy(t) \in Entries
      BY <3>1, <3>2, <3>3 DEF Entries
    <3> QED
      BY <1>3, <1>4, <1>6, <1>7, <2>1, <2>2, <2>5, <3>4, AbstractSteps, AbstractNext
  <2>6. CASE Outcome(t)' = "miss"
    <3>1. ~Inserting(t) /\ node'[t] = Null
      BY <1>1, <2>1, <2>6 DEF Outcome, Searching, Null
    <3>2. AskedBy(t) = key[t] /\ AskedBy(t)' = key[t] /\ key[t] \in Keys /\ key[t] # NoKey
      BY <1>2, <2>1, <2>2, <3>1, NoneAssumption DEF AskedBy, IInv, HoldsLock
    <3>3. ASSUME ~Growing, reader[t] = mMap
          PROVE  key[t] \notin KnownBy(t)'
      <4>1. Table(t)' = mMap'
        BY <1>1, <2>1, <3>1, <3>3 DEF Table
      <4>2. ASSUME NEW n \in Allocated', keyOf'[n] = key'[t]
            PROVE  ~(Birth(n)' <= seen'[t])
        <5>1. ~Leads(Null, n)'
          <6>1. {Null} \in SUBSET NodeOrNull' /\ Closed({Null})' /\ n # Null
            BY <1>2, <4>2, SMTT(20) DEF OInv, IInv, TypeOK, NodeOrNull, Closed, Null, Allocated
          <6> QED
            BY <6>1 DEF Leads, Null
        <5> QED
          BY <1>2, <1>4, <2>1, <3>1, <3>3, <4>1, <4>2, <5>1 DEF ChainInv, SearchLeads, Null
      <4> QED
        BY <2>1, <4>2 DEF KnownBy
    <3>4. Stale'[t] \/ Asked'[t] \notin Known'[t]
      <4>1. Stale'[t] = (Growing \/ reader[t] # mMap)
        BY <1>1, <1>4, <2>1 DEF Stale
      <4>2. Known'[t] = KnownBy(t)'
        BY DEF Known
      <4> QED
        BY <1>6, <3>2, <3>3, <4>1, <4>2
    <3> QED
      BY <1>3, <1>4, <1>6, <1>7, <2>1, <2>2, <2>6, <3>2, <3>4, AbstractSteps, AbstractNext
  <2> QED
    BY <2>3, <2>4, <2>5, <2>6
<1>13. CASE Answer(t)
  <2>1. /\ pc[t] = "search" /\ ~Inserting(t) /\ UNCHANGED <<reader, seen>>
        /\ node[t] = Null \/ Matches(t)
        /\ \/ pc'[t] = "idle"
           \/ pc'[t] = "bucket" /\ key'[t] = rest[t] /\ rest[t] # NoKey
    BY <1>2, <1>13 DEF Answer, TypeOK
  <2>2. Outcome(t) # "none" /\ Outcome(t)' = "none"
    BY <2>1 DEF Outcome, Searching
  <2>3. CASE pc'[t] = "idle"
    <3>1. AskedBy(t)' = NoKey
      BY <2>3 DEF AskedBy
    <3>2. UNCHANGED Known
      <4>1. UNCHANGED Allocated /\ \A n : Birth(n)' = Birth(n)
        BY <1>1, <1>2, LogKept
      <4> QED
        BY <1>1, <2>1, <4>1 DEF Known, KnownBy
    <3> QED
      BY <1>3, <1>4, <1>6, <1>7, <2>1, <2>2, <3>1, <3>2, AbstractSteps, AbstractNext
  <2>4. CASE pc'[t] = "bucket" /\ key'[t] = rest[t] /\ rest[t] # NoKey
    <3>1. PICK k : k = rest[t] /\ k \in Keys
      BY <1>2, <2>4 DEF TypeOK
    <3>2. AskedBy(t)' = k
      BY <1>1, <2>1, <2>4, <3>1 DEF AskedBy
    <3> QED
      BY <1>3, <1>4, <1>6, <1>7, <2>1, <2>2, <3>1, <3>2, AbstractSteps, AbstractNext
  <2> QED
    BY <2>1, <2>3, <2>4
<1> QED
  BY <1>8, <1>9, <1>10, <1>11, <1>12, <1>13

LEMMA LockStepMaps ==
  ASSUME ChainInv, NEW t \in Threads,
         \/ \E k \in Keys : Lock(t, k)
         \/ GrowThrows(t) \/ InsertSearch(t) \/ InsertPresent(t)
  PROVE  Promised!Next
<1>1. UNCHANGED <<bucketCounts, keyOf, log, reader>>
  BY DEF Lock, GrowThrows, InsertSearch, InsertPresent, tableVars
<1>2. /\ ChainInv' /\ OInv /\ OInv' /\ IInv /\ IInv' /\ TypeOK
  BY LockStepChain DEF ChainInv, OInv, IInv
<1>3. UNCHANGED Growing
  <2>1. \A u \in Threads : pc'[u] = "growing" <=> pc[u] = "growing"
    BY <1>2 DEF TypeOK, Lock, GrowThrows, InsertSearch, InsertPresent, Unlock
  <2> QED
    BY <2>1 DEF Growing
<1>4. /\ \A u \in Threads \ {t} :
           /\ seen'[u] = seen[u] /\ pc'[u] = pc[u] /\ node'[u] = node[u]
           /\ key'[u] = key[u]
           /\ mInsertionMutex' = u <=> mInsertionMutex = u
      /\ seen'[t] = seen[t] \/ seen'[t] = Len(log)
      /\ pc[t] # "idle" => Inserting(t)
      /\ pc'[t] # "idle" => Inserting(t)'
  <2> USE <1>2, NoneAssumption DEF OInv, IInv, TypeOK, Inserting
  <2>1. CASE \E k \in Keys : Lock(t, k)
    BY <2>1 DEF Lock, See, walkVars
  <2>2. CASE GrowThrows(t)
    BY <2>2 DEF GrowThrows, Unlock, HoldsLock
  <2>3. CASE InsertPresent(t)
    BY <2>3 DEF InsertPresent, Unlock
  <2>4. CASE InsertSearch(t)
    BY <2>4 DEF InsertSearch, walkVars, HoldsLock
  <2> QED
    BY <2>1, <2>2, <2>3, <2>4
<1>5. UNCHANGED Entries /\ Promised!Learns(t)
  <2>1. seen[t] <= seen'[t]
    BY <1>2, <1>4 DEF TypeOK, Positions
  <2> QED
    BY <1>1, <1>2, <1>4, <2>1, ThreadLearns
<1>6. /\ AskedBy(t) = NoKey /\ AskedBy(t)' = NoKey
      /\ Outcome(t) = "none" /\ Outcome(t)' = "none"
  BY <1>4 DEF AskedBy, Outcome, Searching
<1>7. \A u \in Threads \ {t} : AskedBy(u)' = AskedBy(u) /\ Outcome(u)' = Outcome(u)
  BY <1>1, <1>4, ThreadKept
<1>8. UNCHANGED <<Asked, Outcomes>>
  BY <1>6, <1>7 DEF Asked, Outcomes
<1>9. UNCHANGED Stale
  BY <1>1, <1>3, StaleKept
<1> QED
  BY <1>3, <1>5, <1>8, <1>9, AbstractSteps, AbstractNext

LEMMA GrowStepMaps ==
  ASSUME ChainInv, NEW t \in Threads, Grow(t)
  PROVE  Promised!Next
<1>1. /\ UNCHANGED <<bucketCounts, keyOf, log, reader, seen, mInsertionMutex, key, node>>
      /\ pc' = [pc EXCEPT ![t] = "growing"] /\ pc[t] = "locked"
  BY DEF Grow, tableVars, walkVars
<1>2. OInv /\ IInv /\ TypeOK
  BY DEF ChainInv, OInv, IInv
<1>3. ~Growing /\ Growing'
  <2>1. mInsertionMutex = t
    BY <1>1, <1>2 DEF IInv, HoldsLock
  <2> QED
    BY <1>1, <1>2, <2>1, HolderNotGrowing DEF Growing, TypeOK
<1>4. UNCHANGED <<Entries, Known>>
  <2>1. UNCHANGED Allocated /\ \A n : Birth(n)' = Birth(n)
    BY <1>1, <1>2, LogKept
  <2> QED
    BY <1>1, <2>1 DEF Entries, Known, KnownBy
<1>5. UNCHANGED <<Asked, Outcomes>>
  <2>1. \A u \in Threads \ {t} : AskedBy(u)' = AskedBy(u) /\ Outcome(u)' = Outcome(u)
    BY <1>1, <1>2, ThreadKept DEF TypeOK
  <2>2. AskedBy(t)' = AskedBy(t) /\ Outcome(t)' = Outcome(t)
    BY <1>1, <1>2 DEF AskedBy, Outcome, Searching, TypeOK
  <2> QED
    BY <2>1, <2>2 DEF Asked, Outcomes
<1>6. Stale' = [u \in Threads |-> TRUE]
  BY <1>3 DEF Stale
<1> QED
  BY <1>3, <1>4, <1>5, <1>6, AbstractTableSteps, AbstractNext

LEMMA NextBucketStepMaps ==
  ASSUME ChainInv, NEW t \in Threads, NextBucket(t)
  PROVE  UNCHANGED AbstractVars
<1>1. UNCHANGED <<bucketCounts, keyOf, log, reader, seen, mInsertionMutex, key, node, pc>>
  BY DEF NextBucket, tableVars, walkVars
<1>2. UNCHANGED Growing
  BY <1>1 DEF Growing
<1>3. UNCHANGED <<Entries, Known>>
  <2>1. UNCHANGED Allocated /\ \A n : Birth(n)' = Birth(n)
    BY <1>1, LogKept DEF ChainInv
  <2> QED
    BY <1>1, <2>1 DEF Entries, Known, KnownBy
<1>4. UNCHANGED <<Asked, Outcomes>>
  <2>1. \A u \in Threads : AskedBy(u)' = AskedBy(u) /\ Outcome(u)' = Outcome(u)
    BY <1>1, ThreadKept
  <2> QED
    BY <2>1 DEF Asked, Outcomes
<1>5. UNCHANGED Stale
  BY <1>1, <1>2, StaleKept
<1> QED
  BY <1>2, <1>3, <1>4, <1>5 DEF AbstractVars

(* The holder of the lock has seen every node already. *)
LEMMA RelinkStepMaps ==
  ASSUME ChainInv, NEW t \in Threads, Relink(t)
  PROVE  UNCHANGED AbstractVars
<1>1. /\ seen' = [seen EXCEPT ![t] = Len(log')] /\ pc[t] = "growing"
      /\ UNCHANGED <<bucketCounts, keyOf, reader, mInsertionMutex, key, node, pc>>
      /\ \E s1, s2 : log' = log \o <<s1, s2>>
  BY DEF Relink, walkVars
<1>2. OInv /\ OInv' /\ IInv /\ TypeOK
  BY RelinkStepOrder DEF ChainInv, OInv, IInv
<1>3. /\ Len(log) \in Nat /\ Len(log') = Len(log) + 2
      /\ \A j \in 1..Len(log) : log'[j] = log[j]
      /\ seen \in [Threads -> Positions]
  <2>1. log \in Seq(Stores) /\ seen \in [Threads -> Positions]
    BY <1>2 DEF TypeOK
  <2> QED
    BY <1>1, <2>1
<1>4. UNCHANGED Growing
  BY <1>1 DEF Growing
<1>5. UNCHANGED Allocated /\ \A n \in Allocated : Birth(n)' = Birth(n)
  <2>1. UNCHANGED Allocated
    BY <1>1 DEF Allocated
  <2> QED
    BY <1>2, <1>3, <2>1, BirthKept DEF OInv, Births
<1>6. UNCHANGED <<Entries, Known>>
  <2>1. \A n \in Allocated : Birth(n) <= seen[t] /\ Birth(n)' <= seen'[t]
    <3>1. seen[t] = Len(log) /\ seen'[t] = Len(log) + 2
      BY <1>1, <1>2, <1>3 DEF OInv, HolderSynchronised, IInv, HoldsLock
    <3> QED
      BY <1>2, <1>3, <1>5, <3>1, BirthType
  <2>2. KnownBy(t)' = KnownBy(t)
    BY <1>1, <1>5, <2>1 DEF KnownBy
  <2>3. \A u \in Threads \ {t} : KnownBy(u)' = KnownBy(u)
    <3>1. \A u \in Threads \ {t} : seen'[u] = seen[u]
      BY <1>1, <1>3
    <3> QED
      BY <1>1, <1>5, <3>1 DEF KnownBy
  <2> QED
    BY <1>1, <1>5, <2>2, <2>3 DEF Entries, Known
<1>7. UNCHANGED <<Asked, Outcomes>>
  <2>1. \A u \in Threads : AskedBy(u)' = AskedBy(u) /\ Outcome(u)' = Outcome(u)
    BY <1>1, ThreadKept
  <2> QED
    BY <2>1 DEF Asked, Outcomes
<1>8. UNCHANGED Stale
  BY <1>1, <1>4, StaleKept
<1> QED
  BY <1>4, <1>6, <1>7, <1>8 DEF AbstractVars

LEMMA PublishStepMaps ==
  ASSUME ChainInv, NEW t \in Threads, Publish(t)
  PROVE  Promised!Next
<1>1. /\ bucketCounts' = Append(bucketCounts, NewBucketCount)
      /\ pc' = [pc EXCEPT ![t] = "locked"] /\ pc[t] = "growing"
      /\ UNCHANGED <<keyOf, log, reader, seen, mInsertionMutex, key, node>>
  BY DEF Publish, walkVars
<1>2. OInv /\ IInv /\ TypeOK
  BY DEF ChainInv, OInv, IInv
<1>3. Growing /\ ~Growing'
  <2>1. Growing /\ mInsertionMutex = t
    BY <1>1, <1>2 DEF Growing, IInv, HoldsLock
  <2>2. \A u \in Threads : pc'[u] # "growing"
    BY <1>1, <1>2, <2>1, OnlyHolder DEF TypeOK
  <2> QED
    BY <2>1, <2>2 DEF Growing
<1>4. UNCHANGED <<Entries, Known>>
  <2>1. UNCHANGED Allocated /\ \A n : Birth(n)' = Birth(n)
    BY <1>1, <1>2, LogKept
  <2> QED
    BY <1>1, <2>1 DEF Entries, Known, KnownBy
<1>5. UNCHANGED <<Asked, Outcomes>>
  <2>1. \A u \in Threads \ {t} : AskedBy(u)' = AskedBy(u) /\ Outcome(u)' = Outcome(u)
    BY <1>1, <1>2, ThreadKept DEF TypeOK
  <2>2. AskedBy(t)' = AskedBy(t) /\ Outcome(t)' = Outcome(t)
    BY <1>1, <1>2 DEF AskedBy, Outcome, Searching, TypeOK
  <2> QED
    BY <2>1, <2>2 DEF Asked, Outcomes
<1>6. UNCHANGED Stale
  <2>1. mMap' = mMap + 1 /\ mMap \in Nat
    BY <1>1, <1>2 DEF TypeOK, mMap
  <2>2. \A u \in Threads : reader[u] # mMap'
    BY <1>2, <2>1, NoneAssumption DEF TypeOK
  <2>3. Stale = [u \in Threads |-> TRUE]
    BY <1>3 DEF Stale
  <2>4. Stale' = [u \in Threads |-> TRUE]
    BY <1>1, <2>2 DEF Stale
  <2> QED
    BY <2>3, <2>4
<1> QED
  BY <1>3, <1>4, <1>5, <1>6, AbstractTableSteps, AbstractNext

LEMMA InsertNewStepMaps ==
  ASSUME ChainInv, NEW t \in Threads, InsertNew(t)
  PROVE  Promised!Next
<1>0. PICK n0, k, len : n0 = Len(keyOf) + 1 /\ k = key[t] /\ len = Len(log)
  OBVIOUS
<1>1. /\ keyOf' = Append(keyOf, k)
      /\ \E s1, s2 : log' = log \o <<s1, s2>>
      /\ log'[len + 1].loc = NextOf(n0)
      /\ seen' = [seen EXCEPT ![t] = Len(log')]
      /\ mInsertionMutex' = NoThread
      /\ pc' = [pc EXCEPT ![t] = "idle"]
      /\ key' = [key EXCEPT ![t] = NoKey]
      /\ node' = [node EXCEPT ![t] = Null]
      /\ pc[t] = "search" /\ mInsertionMutex = t /\ node[t] = Null
      /\ UNCHANGED <<bucketCounts, reader>>
  <2>1. log \in Seq(Stores)
    BY DEF ChainInv, OInv, IInv, TypeOK
  <2>2. PICK s1, s2 : s1.loc = NextOf(n0) /\ log' = log \o <<s1, s2>>
    BY <1>0 DEF InsertNew, Store
  <2>3. log'[len + 1] = s1
    BY <1>0, <2>1, <2>2
  <2> QED
    BY <1>0, <2>2, <2>3 DEF InsertNew, Unlock, Inserting
<1>2. OInv /\ OInv' /\ IInv /\ TypeOK
  BY InsertNewStepOrder DEF ChainInv, OInv, IInv
<1>3. ~Growing /\ ~Growing'
  <2>1. ~Growing
    BY <1>1, <1>2, HolderNotGrowing
  <2> QED
    BY <1>1, <1>2, <2>1 DEF Growing, TypeOK
<1>4. /\ len \in Nat /\ Len(log') = len + 2
      /\ \A j \in 1..len : log'[j] = log[j]
      /\ n0 \in Nat /\ k \in Keys
      /\ seen \in [Threads -> Positions] /\ Positions = 0..len
  <2>1. log \in Seq(Stores) /\ seen \in [Threads -> Positions] /\ Len(keyOf) \in Nat
    BY <1>2 DEF TypeOK
  <2>2. k \in Keys
    BY <1>0, <1>1, <1>2 DEF IInv, HoldsLock
  <2> QED
    BY <1>0, <1>1, <2>1, <2>2 DEF Positions
<1>5. /\ Allocated' = Allocated \cup {n0} /\ n0 \notin Allocated
      /\ keyOf'[n0] = k /\ \A n \in Allocated : keyOf'[n] = keyOf[n]
  <2>1. keyOf \in Seq(Keys) /\ Len(keyOf) \in Nat
    BY <1>2 DEF TypeOK
  <2>2. Len(keyOf') = n0 /\ keyOf'[n0] = k /\ \A n \in 1..Len(keyOf) : keyOf'[n] = keyOf[n]
    BY <1>0, <1>1, <1>4, <2>1
  <2> QED
    BY <1>0, <2>1, <2>2 DEF Allocated
<1>6. /\ \A n \in Allocated : Birth(n)' = Birth(n) /\ Birth(n) \in 1..len
      /\ Birth(n0)' \in (len + 1)..(len + 2)
  <2>1. \A n \in Allocated : Birth(n)' = Birth(n) /\ Birth(n) \in 1..len
    BY <1>0, <1>2, <1>4, BirthKept, BirthType DEF OInv, Births
  <2>2. PICK i : i = Birth(n0)'
    OBVIOUS
  <2>3. i \in 1..(len + 2) /\ log'[i].loc = NextOf(n0)
    BY <1>2, <1>4, <1>5, <2>2 DEF OInv, Births, IsBirth, NextOf
  <2>4. i \notin 1..len
    BY <1>0, <1>2, <1>4, <1>5, <2>3 DEF OInv, SuccessorStores
  <2> QED
    BY <1>4, <2>1, <2>2, <2>3, <2>4
(* The key was not there: the holder of the lock would have found it. *)
<1>7. k \notin Entries
  <2> SUFFICES ASSUME NEW m \in Allocated, keyOf[m] = k
               PROVE  FALSE
    BY DEF Entries
  <2>1. Birth(m) <= seen[t]
    BY <1>0, <1>1, <1>2, <1>4, <1>6 DEF OInv, HolderSynchronised
  <2>2. Table(t) = mMap
    BY <1>1 DEF Table, Inserting
  <2>3. Leads(Null, m)
    BY <1>0, <1>1, <1>3, <2>1, <2>2 DEF ChainInv, SearchLeads
  <2> QED
    BY <1>2, <2>3, KeyOfNode, NullLeadsNowhere
<1>8. Entries' = Entries \cup {k}
  BY <1>5 DEF Entries
<1>9. Known' = [Known EXCEPT ![t] = Entries']
  <2>1. KnownBy(t)' = Entries'
    <3>1. seen'[t] = len + 2
      BY <1>1, <1>4
    <3>2. \A n \in Allocated' : Birth(n)' <= seen'[t]
      BY <1>4, <1>5, <1>6, <3>1
    <3> QED
      BY <3>2 DEF Entries, KnownBy
  <2>2. ASSUME NEW u \in Threads \ {t}
        PROVE  KnownBy(u)' = KnownBy(u)
    <3>1. seen'[u] = seen[u] /\ seen[u] \in 0..len
      BY <1>1, <1>4
    <3>2. ~(Birth(n0)' <= seen'[u])
      BY <1>4, <1>6, <3>1
    <3>3. {n \in Allocated' : Birth(n)' <= seen'[u]} = {n \in Allocated : Birth(n) <= seen[u]}
      BY <1>5, <1>6, <3>1, <3>2
    <3> QED
      BY <1>5, <3>3 DEF KnownBy
  <2>3. PICK E : E = Entries'
    OBVIOUS
  <2> QED
    BY <2>1, <2>2, <2>3 DEF Known
<1>10. UNCHANGED <<Asked, Outcomes>>
  <2>1. ASSUME NEW u \in Threads \ {t}
        PROVE  AskedBy(u)' = AskedBy(u) /\ Outcome(u)' = Outcome(u)
    <3>1. /\ pc'[u] = pc[u] /\ key'[u] = key[u] /\ node'[u] = node[u]
          /\ ~Inserting(u) /\ ~Inserting(u)'
      BY <1>1, <1>2, NoneAssumption DEF TypeOK, Inserting
    <3>2. AskedBy(u)' = AskedBy(u)
      BY <3>1 DEF AskedBy
    <3>3. Matches(u)' <=> Matches(u)
      <4>1. node[u] # Null => node[u] \in Allocated
        BY <1>2 DEF TypeOK, NodeOrNull, Allocated, Null
      <4> QED
        BY <1>5, <3>1, <4>1 DEF Matches, Holds, Null
    <3> QED
      BY <3>1, <3>2, <3>3 DEF Outcome, Searching, Null
  <2>2. /\ AskedBy(t) = NoKey /\ AskedBy(t)' = NoKey
        /\ Outcome(t) = "none" /\ Outcome(t)' = "none"
    <3>1. Inserting(t) /\ pc'[t] = "idle"
      BY <1>1, <1>2 DEF Inserting, TypeOK
    <3> QED
      BY <3>1 DEF AskedBy, Outcome, Searching
  <2> QED
    BY <2>1, <2>2 DEF Asked, Outcomes
<1>11. UNCHANGED Growing /\ UNCHANGED Stale
  <2>1. UNCHANGED Growing
    BY <1>3 DEF Growing
  <2> QED
    BY <1>1, <2>1, StaleKept
<1> QED
  BY <1>3, <1>4, <1>7, <1>8, <1>9, <1>10, <1>11, AbstractSteps, AbstractNext

LEMMA ClearStepMaps ==
  ASSUME ChainInv, ClearNonConcurrent
  PROVE  Promised!Next
<1>1. /\ keyOf' = <<>>
      /\ reader' = [u \in Threads |-> NoReader]
      /\ \A u \in Threads : pc[u] = "idle"
      /\ UNCHANGED <<bucketCounts, pc>>
  BY DEF ClearNonConcurrent
<1>2. TypeOK
  BY DEF ChainInv, OInv, IInv
<1>3. ~Growing /\ ~Growing' /\ UNCHANGED Growing
  BY <1>1 DEF Growing
<1>4. Allocated' = {}
  BY <1>1 DEF Allocated
<1>5. Entries' = {} /\ Known' = [u \in Threads |-> {}]
  BY <1>4 DEF Entries, Known, KnownBy
<1>6. Stale' = [u \in Threads |-> TRUE]
  <2>1. mMap' = mMap /\ mMap \in Nat
    BY <1>1, <1>2 DEF mMap, TypeOK
  <2> QED
    BY <1>1, <2>1, NoneAssumption DEF Stale
<1>7. \A u \in Threads : /\ AskedBy(u) = NoKey /\ AskedBy(u)' = NoKey
                         /\ Outcome(u) = "none" /\ Outcome(u)' = "none"
  BY <1>1 DEF AskedBy, Outcome, Searching
<1>8. (\A u \in Threads : Asked[u] = NoKey) /\ UNCHANGED <<Asked, Outcomes>>
  BY <1>7 DEF Asked, Outcomes
<1>9. Promised!Clear
  BY <1>3, <1>5, <1>6, <1>8, AbstractTableSteps
<1> QED
  BY <1>9 DEF Promised!Next

LEMMA UnchangedMaps ==
  ASSUME ChainInv, UNCHANGED vars
  PROVE  UNCHANGED AbstractVars
<1>1. UNCHANGED <<bucketCounts, keyOf, log, reader, seen, mInsertionMutex, key, node, pc>>
  BY DEF vars, tableVars, walkVars
<1>2. UNCHANGED Growing
  BY <1>1 DEF Growing
<1>3. UNCHANGED <<Entries, Known>>
  <2>1. UNCHANGED Allocated /\ \A n : Birth(n)' = Birth(n)
    BY <1>1, LogKept DEF ChainInv
  <2> QED
    BY <1>1, <2>1 DEF Entries, Known, KnownBy
<1>4. UNCHANGED <<Asked, Outcomes>>
  <2>1. \A u \in Threads : AskedBy(u)' = AskedBy(u) /\ Outcome(u)' = Outcome(u)
    BY <1>1, ThreadKept
  <2> QED
    BY <2>1 DEF Asked, Outcomes
<1>5. UNCHANGED Stale
  BY <1>1, <1>2, StaleKept
<1> QED
  BY <1>2, <1>3, <1>4, <1>5 DEF AbstractVars

LEMMA NextMaps ==
  ASSUME ChainInv, [Next]_vars
  PROVE  [Promised!Next]_AbstractVars
<1>1. CASE UNCHANGED vars
  BY <1>1, UnchangedMaps
<1>2. CASE ClearNonConcurrent
  BY <1>2, ClearStepMaps
<1>3. ASSUME NEW t \in Threads, Call(t)
      PROVE  Promised!Next
  <2>1. \/ \E k \in Keys : Lock(t, k)
        \/ Grab(t) \/ Synchronise(t) \/ \E k \in Keys : Query(t, k)
        \/ \E p \in Pairs : QueryTwo(t, p[1], p[2])
    BY <1>3, CallsAssumption DEF Call
  <2> QED
    BY <2>1, ReaderStepMaps, LockStepMaps
<1>4. ASSUME NEW t \in Threads, Step(t)
      PROVE  [Promised!Next]_AbstractVars
  BY <1>4, ReaderStepMaps, LockStepMaps, GrowStepMaps, NextBucketStepMaps,
     RelinkStepMaps, PublishStepMaps, InsertNewStepMaps DEF Step
<1> QED
  BY <1>1, <1>2, <1>3, <1>4 DEF Next

-----------------------------------------------------------------------------
(* MonomialMap.hpp:17-40: the map keeps its promises to its readers, with any
   number of threads, any keys and any hash function: no entry is ever lost, a
   hit is never spurious, and a miss through a Reader of the current table is
   accurate for every entry whose insertion happened before it, unless the map
   grows meanwhile. *)
THEOREM PromisesKept == Spec => KeepsPromises
<1>1. Init => Promised!Init
  BY InitMaps
<1>2. ChainInv /\ [Next]_vars => [Promised!Next]_(Promised!vars)
  <2>1. UNCHANGED AbstractVars => UNCHANGED Promised!vars
    BY DEF Promised!vars, AbstractVars, Entries, Stale, KnownBy, Known, AskedBy, Asked,
           Outcomes
  <2> QED
    BY <2>1, NextMaps
<1> QED
  BY <1>1, <1>2, InitChainInv, NextChainInv, PTL DEF Spec, KeepsPromises, Promised!Spec
=============================================================================
