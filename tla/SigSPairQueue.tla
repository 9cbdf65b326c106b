---------------------------- MODULE SigSPairQueue ----------------------------
(***************************************************************************)
(* The queue of S-pairs by signature.  An element of the basis has a       *)
(* column, of the elements before it that it forms pairs with.  A column   *)
(* is in the order of the signatures, of which the queue, which is         *)
(* mathic's, only keeps that of the pair at the front: when that is popped *)
(* the signature of the next one is computed anew.  SignatureGB uses the   *)
(* queue as a set of pairs.                                                *)
(***************************************************************************)
EXTENDS SigPolyBasis

CONSTANTS
  Orders,     \* the module orders
  Elements    \* the sequences of [sig, lead] that are inserted in the basis

VARIABLES
  toCome,   \* the elements to be inserted
  columns,  \* by column, the rows that are left
  popped,   \* [sig, pairs] of the last call of popSignature
  pending,  \* history variable: the pairs {i, j} pushed and not popped
  first     \* history variable: those that the last call should have popped

vars == <<options, GB, toCome, columns, popped, pending, first>>

Init ==
  /\ options \in [order : Orders]
  /\ GB = <<>>
  /\ toCome \in Elements
  /\ columns = <<>>
  /\ popped = [sig |-> 0, pairs |-> {}]
  /\ pending = {}
  /\ first = {}

Regular(i, j) == RatioKey(i) # RatioKey(j)

Colon(m, n) == [v \in 1..2 |-> IF n[v] > m[v] THEN n[v] - m[v] ELSE 0]

(* Mutated form: the element of the column always gives the signature. *)
PairDataOfColumn(col, row) ==
  SigTimes(Colon(LeadMono(col), LeadMono(row)), GB[col].sig)

(* computePairData: the element with the larger ratio gives the signature. *)
PairData(col, row) ==
  LET giver == IF RatioKey(col) < RatioKey(row) THEN row ELSE col
      other == IF giver = col THEN row ELSE col
  IN  SigTimes(Colon(LeadMono(giver), LeadMono(other)), GB[giver].sig)

InsertElement ==
  /\ toCome # <<>> /\ Len(GB) = Len(columns)
  /\ LET new == Head(toCome)
     IN  GB' = Append(GB, [sig |-> new.sig, lead |-> new.lead,
                           ratio |-> SigKey([new.sig EXCEPT !.m = Over(@, new.lead)])])
  /\ toCome' = Tail(toCome)
  /\ UNCHANGED <<options, columns, popped, pending, first>>

(* pushPairs of the last element with the rows that no criterion removes *)
PushPairs(S) ==
  /\ Len(GB) = Len(columns) + 1
  /\ LET new == Len(GB)
         before(i, j) == SigKey(PairData(new, i)) < SigKey(PairData(new, j))
     IN  /\ columns' = Append(columns, SortSeq(SetToSeq(S), before))
         /\ pending' = pending \cup {{new, i} : i \in S}
  /\ UNCHANGED <<options, GB, toCome, popped, first>>

Columns == {c \in DOMAIN columns : columns[c] # <<>>}
TopOf(c) == PairData(c, Head(columns[c]))

(* The rows at the front of a column whose pairs have this signature *)
FrontRows(c, sig) ==
  LET other == {i \in DOMAIN columns[c] : PairData(c, columns[c][i]) # sig}
  IN  SubSeq(columns[c], 1, IF other = {} THEN Len(columns[c]) ELSE Min(other) - 1)

SigOf(p) ==
  LET times(i, j) == SigTimes(Colon(LeadMono(i), LeadMono(j)), GB[i].sig)
  IN  CHOOSE s \in {times(Min(p), Max(p)), times(Max(p), Min(p))} :
        \A t \in {times(Min(p), Max(p)), times(Max(p), Min(p))} : SigKey(t) <= SigKey(s)

PopSignature ==
  /\ Len(GB) = Len(columns) /\ Columns # {}
  /\ LET top == CHOOSE c \in Columns : \A d \in Columns : SigKey(TopOf(c)) <= SigKey(TopOf(d))
         sig == TopOf(top)
     IN  /\ popped' = [sig |-> sig,
                       pairs |-> UNION {{{c, i} : i \in Range(FrontRows(c, sig))} : c \in Columns}]
         /\ columns' = [c \in DOMAIN columns |->
              SubSeq(columns[c], Len(FrontRows(c, sig)) + 1, Len(columns[c]))]
  /\ first' = Best(pending, LAMBDA p : -SigKey(SigOf(p)))
  /\ pending' = pending \ popped'.pairs
  /\ UNCHANGED <<options, GB, toCome>>

Next ==
  \/ InsertElement
  \/ \E S \in SUBSET {i \in 1 .. Len(GB) - 1 : Regular(i, Len(GB))} : PushPairs(S)
  \/ PopSignature

Spec == Init /\ [][Next]_vars

----------------------------------------------------------------------------
(* A call pops all pairs of the smallest signature there is, where that of *)
(* a pair is the larger of the signatures of its two multiples; no pair is *)
(* lost or comes twice.  The ratios, by which the signature is chosen, and *)
(* the columns, sorted once, are enough for that.                          *)
PopsSmallest ==
  /\ popped.pairs = first
  /\ \A p \in popped.pairs : SigOf(p) = popped.sig
  /\ pending = UNION {{{c, i} : i \in Range(columns[c])} : c \in DOMAIN columns}
=============================================================================
