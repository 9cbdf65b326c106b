---------------------------- MODULE SignatureGB ----------------------------
(***************************************************************************)
(* The signature Groebner basis algorithm: SignatureGB with its queue of   *)
(* S-pairs by signature (SigSPairs, SigSPairQueue), the signatures of      *)
(* known syzygies (ModuleMonoSet), and the queue of Koszul syzygies whose  *)
(* turn has not come yet (KoszulQueue).  Each signature is dealt with      *)
(* once, in ascending order: it is known to belong to a syzygy, or an      *)
(* element in that signature is reduced by elements of lesser signature.   *)
(***************************************************************************)
EXTENDS SigPolyBasis

CONSTANTS
  Inputs,   \* the sequences of polynomials to start from
  Options   \* the parameters of the constructor

VARIABLES
  queue,    \* the S-pairs [sig, pair]
  Hsyz,     \* the signatures of syzygies [sig, rep]
  Hsyz2,    \* the same, as they are before processing
  mKoszuls, \* the same, put off until their turn comes
  known,    \* mKnownSyzygyTri: the pairs known to be of syzygies
  current,  \* the signature that was popped last, as a sequence
  finished  \* computeGrobnerBasis has returned

vars == <<options, GB, queue, Hsyz, Hsyz2, mKoszuls, known, current, finished>>

Member(H, sig) == \E h \in H : SigDivides(h.sig, sig)

(* ModuleMonoSet::insert; the multiples only go if removals are allowed. *)
InsertSyzygy(H, h) ==
  IF Member(H, h.sig)
    THEN H
    ELSE {g \in H : options.postponeKoszul \/ ~SigDivides(h.sig, g.sig)} \cup {h}

Greater(i, j) == IF RatioKey(i) >= RatioKey(j) THEN i ELSE j
Smaller(i, j) == IF RatioKey(i) >= RatioKey(j) THEN j ELSE i

(* The signature of the S-pair is that of the element with greater ratio,  *)
(* times the other's lead monomial over what they have in common.          *)
PairSig(i, j) ==
  LET a == LeadMono(Greater(i, j))
      b == LeadMono(Smaller(i, j))
      colon == [v \in 1..2 |-> IF b[v] > a[v] THEN b[v] - a[v] ELSE 0]
  IN  SigTimes(colon, GB[Greater(i, j)].sig)

(* The Koszul syzygy of two elements: each times the other *)
Koszul(i, j) ==
  LET a == Greater(i, j)
      b == Smaller(i, j)
  IN  [sig |-> SigTimes(LeadMono(b), GB[a].sig),
       rep |-> [c \in DOMAIN GB[a].rep |-> Add(Product(GB[b].poly, GB[a].rep[c]),
                                               Product(GB[a].poly, GB[b].rep[c]))]]

----------------------------------------------------------------------------
(* setupBaseDivisors and the loop of makePreSPairs, for the new element    *)
(* and the old ones in their order                                         *)

(* The monomial that the lead monomials of hits have to divide; Radix      *)
(* stands for the largest exponent.                                        *)
BaseMonomial(new, base) ==
  [v \in 1..2 |->
     LET x == GB[new].sig.m[v] - GB[base].sig.m[v] + LeadMono(base)[v]
     IN  Max({LeadMono(base)[v], IF LeadMono(new)[v] <= x THEN Radix ELSE x})]

HighDivisorHit(new, old, bits) ==
  LET high == HighBaseDivisor(new)
      cmp == IF high # 0 /\ RatioKey(new) > RatioKey(high) THEN new ELSE high
  IN  /\ high # 0
      /\ RatioKey(old) > RatioKey(cmp)
      /\ {old, cmp} \in bits

LowHit(new, old, base, bits) ==
  /\ RatioKey(old) < RatioKey(new)
  /\ RatioKey(old) < RatioKey(base)
  /\ base # old
  /\ {base, old} \in bits
  /\ Divides(LeadMono(old), BaseMonomial(new, base))

(* The second divisor is only tried when the ratio is right for the first. *)
LowDivisorHit(new, old, bits) ==
  LET divs == LowBaseDivisors(new)
  IN  /\ divs # <<>>
      /\ RatioKey(old) < RatioKey(new) /\ RatioKey(old) < RatioKey(divs[1])
      /\ \E k \in DOMAIN divs : LowHit(new, old, divs[k], bits)

BaseDivisorHit(new, old, bits) ==
  /\ options.useBaseDivisors
  /\ HighDivisorHit(new, old, bits) \/ LowDivisorHit(new, old, bits)

(* Mutated form: an equal lead monomial will do. *)
NotSmallerEarly(new, old) ==
  /\ options.useSingularCriterionEarly
  /\ RatioKey(MinimalLeadInSig(PairSig(new, old))) >= RatioKey(Greater(new, old))
  /\ ~RelativelyPrime(LeadMono(new), LeadMono(old))

(* An element in the pair's signature has a smaller lead monomial. *)
SingularEarly(new, old) ==
  /\ options.useSingularCriterionEarly
  /\ RatioKey(MinimalLeadInSig(PairSig(new, old))) > RatioKey(Greater(new, old))
  /\ ~RelativelyPrime(LeadMono(new), LeadMono(old))

(* One turn of the loop; acc holds what it changes. *)
PreSPair(new, acc, old) ==
  LET sig == PairSig(new, old)
      marked == [acc EXCEPT !.bits = @ \cup {{new, old}}]
      early == ~options.postponeKoszul
  IN  IF RatioKey(new) = RatioKey(old) THEN acc
      ELSE IF BaseDivisorHit(new, old, acc.bits) THEN marked
      ELSE IF Member(acc.hsyz, sig)
        THEN IF options.useBaseDivisors THEN marked ELSE acc
      ELSE
        [acc EXCEPT
           !.hsyz = IF early THEN InsertSyzygy(@, Koszul(new, old)) ELSE @,
           !.pairs = IF \/ early /\ RelativelyPrime(LeadMono(new), LeadMono(old))
                        \/ SingularEarly(new, old)
                       THEN @
                       ELSE @ \cup {[sig |-> sig, pair |-> {new, old}]}]

----------------------------------------------------------------------------
(* newPairs of one element *)
MakePreSPairs(new, acc) ==
  FoldLeft(LAMBDA a, old : Once(LAMBDA b : PreSPair(new, b, old), a), acc,
           [i \in 1 .. new - 1 |-> i])

Sets(hsyz, bits, pairs) == [hsyz |-> hsyz, bits |-> bits, pairs |-> pairs]

----------------------------------------------------------------------------
(* MonoProcessor. Components are numbered in the order in which they are   *)
(* compared in the end; Schreyer's order compares a signature as if it     *)
(* were times the lead monomial of its component's input polynomial.       *)

Components == Len(GB[1].rep)
Reverses(opts) == opts.order.desired # opts.order.ascending
ProcessingNeeded == Reverses(options) \/ options.order.schreyer

Component(n, opts, i) == IF Reverses(opts) THEN n + 1 - i ELSE i

(* the signature of the i-th input *)
Preprocessed(opts, input, i) ==
  Sig(Component(Len(input), opts, i),
      IF opts.order.schreyer THEN LeadOf(input[i]) ELSE <<0, 0>>)

(* The i-th element is the i-th input. *)
Postprocessed(s) ==
  LET i == Component(Components, options, s.c)
  IN  Sig(i, IF options.order.schreyer THEN Over(s.m, LeadMono(i)) ELSE s.m)

----------------------------------------------------------------------------
Unit(n, i) == [c \in 1..n |-> IF c = i THEN {<<0, 0>>} ELSE {}]

Init ==
  /\ options \in Options
  /\ \E input \in Inputs :
       GB = [i \in DOMAIN input |->
               Element(Preprocessed(options, input, i), input[i], Unit(Len(input), i))]
  /\ LET acc == FoldLeft(LAMBDA a, new : Once(LAMBDA b : MakePreSPairs(new, b), a),
                        Sets({}, {}, {}), [i \in DOMAIN GB |-> i])
     IN  /\ Hsyz = acc.hsyz
         /\ known = acc.bits
         /\ queue = acc.pairs
  /\ Hsyz2 = {}
  /\ mKoszuls = {}
  /\ current = <<>>
  /\ finished = FALSE

(* Mutated form: the order of the queue is the wrong way round. *)
LastSig == CHOOSE s \in {q.sig : q \in queue} :
             \A q \in queue : SigKey(s) >= SigKey(q.sig)

(* popSignature: all S-pairs with the smallest signature *)
TopSig == CHOOSE s \in {q.sig : q \in queue} :
            \A q \in queue : SigKey(s) <= SigKey(q.sig)
TopPairs == {q.pair : q \in {q \in queue : q.sig = TopSig}}

(* Mutated form: the pairs are looked at and stay. *)
NotPopped == queue

LeftInQueue == {q \in queue : q.sig # TopSig}

KoszulsFrom(sig) == {k \in mKoszuls : SigKey(k.sig) >= SigKey(sig)}

(* A syzygy of this signature has been found: the S-pairs are done with. *)
KnowSyzygy(h) ==
  /\ Hsyz' = InsertSyzygy(Hsyz, h)
  /\ queue' = LeftInQueue
  /\ known' = IF options.useBaseDivisors THEN known \cup TopPairs ELSE known

Pop ==
  /\ queue # {}
  /\ current' = <<TopSig>>
  /\ UNCHANGED <<options, Hsyz2, finished>>

SignatureCriterion ==
  /\ Pop
  /\ Member(Hsyz, TopSig)
  /\ known' = IF options.useBaseDivisors THEN known \cup TopPairs ELSE known
  /\ queue' = LeftInQueue
  /\ UNCHANGED <<GB, Hsyz, mKoszuls>>

KoszulCriterion ==
  /\ Pop
  /\ ~Member(Hsyz, TopSig)
  /\ mKoszuls' = KoszulsFrom(TopSig)
  /\ \E k \in mKoszuls : k.sig = TopSig /\ KnowSyzygy(k)
  /\ UNCHANGED GB

(* The S-pairs that are left to be reduced in the signature popped *)
Undecided ==
  /\ Pop
  /\ ~Member(Hsyz, TopSig)
  /\ \A k \in mKoszuls : k.sig # TopSig

PrimePairs ==
  {p \in TopPairs : options.postponeKoszul
                    /\ \E i, j \in p : i # j /\ RelativelyPrime(LeadMono(i), LeadMono(j))}

RelativelyPrimeCriterion ==
  /\ Undecided
  /\ PrimePairs # {}
  /\ LET p == CHOOSE p \in PrimePairs : TRUE
     IN  KnowSyzygy(Koszul(Min(p), Max(p)))
  /\ mKoszuls' = KoszulsFrom(TopSig)
  /\ UNCHANGED GB

(* After a reduction that is not to zero, the Koszul syzygies of the pairs are    *)
(* put off until the algorithm comes to their signatures.                  *)
PostponedKoszuls ==
  IF ~options.postponeKoszul
    THEN {}
    ELSE {k \in {Koszul(Min(p), Max(p)) : p \in TopPairs} : ~Member(Hsyz, k.sig)}

(* The queue holds no signature twice. *)
PushKoszuls ==
  LET left == KoszulsFrom(TopSig)
      all == left \cup PostponedKoszuls
  IN  mKoszuls' = {CHOOSE k \in all : k.sig = s : s \in {k.sig : k \in all}}

ReduceSingular ==
  /\ Undecided /\ PrimePairs = {}
  /\ SingularReduction(TopSig, MinimalLeadInSig(TopSig))
  /\ PushKoszuls
  /\ queue' = LeftInQueue
  /\ UNCHANGED <<GB, Hsyz, known>>

ReduceToZero ==
  /\ Undecided /\ PrimePairs = {}
  /\ ~SingularReduction(TopSig, MinimalLeadInSig(TopSig))
  /\ LET f == RegularReduce(TopSig, MinimalLeadInSig(TopSig))
     IN  f.kept = {} /\ KnowSyzygy([sig |-> TopSig, rep |-> f.rep])
  /\ mKoszuls' = KoszulsFrom(TopSig)
  /\ UNCHANGED GB

ReduceToNewElement ==
  /\ Undecided /\ PrimePairs = {}
  /\ ~SingularReduction(TopSig, MinimalLeadInSig(TopSig))
  /\ LET f == RegularReduce(TopSig, MinimalLeadInSig(TopSig))
     IN  /\ f.kept # {}
         /\ GB' = Append(GB, Element(TopSig, f.kept, f.rep))
  /\ \E acc \in {Sets(Hsyz, known, LeftInQueue)} :
       LET made == MakePreSPairs(Len(GB), acc)'
       IN  /\ Hsyz' = made.hsyz
           /\ known' = made.bits
           /\ queue' = made.pairs
  /\ PushKoszuls

Postprocess ==
  /\ queue = {}
  /\ ~finished
  /\ finished' = TRUE
  /\ IF ProcessingNeeded
       THEN /\ GB' = [i \in DOMAIN GB |-> [GB[i] EXCEPT !.sig = Postprocessed(@)]]
            /\ Hsyz2' = FoldSet(LAMBDA h, H :
                                 InsertSyzygy(H, [h EXCEPT !.sig = Postprocessed(@)]),
                               {}, Hsyz)
       ELSE UNCHANGED <<GB, Hsyz2>>
  /\ UNCHANGED <<options, queue, Hsyz, mKoszuls, known, current>>

(* getSyzTable *)
SyzTable == IF ProcessingNeeded THEN Hsyz2 ELSE Hsyz

Done == finished /\ UNCHANGED vars

Next ==
  \/ SignatureCriterion
  \/ KoszulCriterion
  \/ RelativelyPrimeCriterion
  \/ ReduceSingular
  \/ ReduceToZero
  \/ ReduceToNewElement
  \/ Postprocess
  \/ Done

Spec == Init /\ [][Next]_vars

----------------------------------------------------------------------------
Signatures == [c : 1 .. Components, m : Nat \X Nat]

TypeOK ==
  /\ \A i \in DOMAIN GB : GB[i].sig \in Signatures /\ GB[i].poly # {}
  /\ \A q \in queue : q.sig \in Signatures /\ Cardinality(q.pair) = 2
  /\ \A h \in Hsyz \cup Hsyz2 \cup mKoszuls : h.sig \in Signatures
  /\ \A p \in known : p \subseteq DOMAIN GB

Input(c) == GB[c].poly

(* what an element of the free module stands for *)
Value(rep) == FoldSet(LAMBDA c, sum : Add(sum, Product(rep[c], Input(c))), {}, DOMAIN rep)

Term(c, m) ==
  Sig(Component(Components, options, c),
      IF options.order.schreyer THEN Mul(m, LeadOf(Input(c))) ELSE m)

(* the signature as it is compared *)
Processed(s) == IF finished /\ ProcessingNeeded THEN Term(s.c, s.m) ELSE s

(* s is the leading term of an element of the free module. *)
Leads(s, rep) ==
  LET terms == UNION {{Term(c, m) : m \in rep[c]} : c \in DOMAIN rep}
  IN  s \in terms /\ \A t \in terms : SigKey(t) <= SigKey(s)

(* Every signature is one: the leading term of an element of the free      *)
(* module on the input whose value is the polynomial, or zero for those in *)
(* the tables of syzygies.  The code keeps nothing but the signature; it   *)
(* is true because no reduction step ever reaches the signature.           *)
SignaturesAreTrue ==
  /\ \A i \in DOMAIN GB :
       Value(GB[i].rep) = GB[i].poly /\ Leads(Processed(GB[i].sig), GB[i].rep)
  /\ \A h \in Hsyz \cup mKoszuls : Value(h.rep) = {} /\ Leads(h.sig, h.rep)
  /\ \A h \in Hsyz2 : Value(h.rep) = {} /\ Leads(Processed(h.sig), h.rep)

(* An S-pair that is marked as a syzygy really has the signature of one,   *)
(* also when the mark was put there by a base divisor and the signature    *)
(* never computed: what makePreSPairs asserts in debug builds.             *)
KnownSyzygiesHold ==
  ~finished => \A p \in known : Member(Hsyz, PairSig(Max(p), Min(p)))

(* No signature of a syzygy divides another, though the table has its      *)
(* removal of multiples off when Koszul syzygies are postponed: they have  *)
(* to arrive in ascending order.                                           *)
SyzygiesAreMinimal ==
  \A g, h \in SyzTable : SigDivides(g.sig, h.sig) => g = h

(* The assertion on new elements: none is a multiple of an older element   *)
(* in the same signature, so each adds something.                          *)
NoSingularElement ==
  \A j \in Components + 1 .. Len(GB) : \A i \in 1 .. j - 1 : ~IsSingularTopReducible(i, j)

RECURSIVE Remainder(_)
Remainder(f) ==
  IF f = {}
    THEN f
    ELSE LET D == {i \in DOMAIN GB : Divides(LeadMono(i), LeadOf(f))}
         IN  IF D = {}
               THEN f
               ELSE Remainder(Add(f, Times(Over(LeadOf(f), LeadMono(Min(D))),
                                           GB[Min(D)].poly)))

LcmOf(a, b) == [v \in 1..2 |-> IF a[v] > b[v] THEN a[v] ELSE b[v]]

SPoly(i, j) ==
  LET lcm == LcmOf(LeadMono(i), LeadMono(j))
  IN  Add(Times(Over(lcm, LeadMono(i)), GB[i].poly),
          Times(Over(lcm, LeadMono(j)), GB[j].poly))

(* The result is a Groebner basis whatever criteria are used. *)
FinalIsGroebner ==
  finished => \A i, j \in DOMAIN GB : i < j => Remainder(SPoly(i, j)) = {}

(* And a signature basis: what is left of the regular S-pairs has the      *)
(* signature of a known syzygy, or the least multiple in its signature     *)
(* cannot be reduced regularly.  The Koszul syzygies are known as well.    *)
FinalSignatureBasis ==
  (queue = {} /\ ~finished) =>
    \A i, j \in DOMAIN GB :
      (i < j /\ RatioKey(i) # RatioKey(j)) =>
        /\ LET s == PairSig(i, j)
           IN  Member(Hsyz, s) \/ SingularReduction(s, MinimalLeadInSig(s))
        /\ Member(Hsyz, Koszul(i, j).sig)
=============================================================================
