---------------------------- MODULE SigPolyBasis ----------------------------
(***************************************************************************)
(* A basis of polynomials with signatures, and what the signature basis    *)
(* algorithm looks up in it.  The ring has two variables and coefficients  *)
(* modulo 2: a monomial is a pair of exponents, a polynomial the set of    *)
(* its monomials.  A signature is a monomial in a component c of the free  *)
(* module on the input.                                                    *)
(*                                                                         *)
(* Signature/lead ratios, which may have negative exponents, are compared  *)
(* by their place in the order.  RatioRanks shows that the ranks which     *)
(* stand for them in the code compare the same way.                        *)
(***************************************************************************)
EXTENDS Integers, Sequences, SequencesExt, FiniteSetsExt, Functions

VARIABLES
  options,  \* the parameters of the constructor, and the module order
  GB        \* the elements [sig, poly, lead, ratio, rep]; rep is a history
            \* variable: the element of the free module, never computed

(* Op of one value, which TLC then computes once and not at every use *)
Once(Op(_), v) == CHOOSE r \in {Op(w) : w \in {v}} : TRUE

Mul(a, b) == <<a[1] + b[1], a[2] + b[2]>>
Over(b, a) == <<b[1] - a[1], b[2] - a[2]>>
Divides(a, b) == a[1] <= b[1] /\ a[2] <= b[2]
RelativelyPrime(a, b) == \A v \in 1..2 : a[v] = 0 \/ b[v] = 0

(* Exponents and their differences are less than half of this bound. *)
Radix == 100

(* monomials by degree and then by the first exponent *)
Key(m) == (m[1] + m[2]) * Radix + m[1]

(* signatures by their component first or last, ascending or descending *)
SigKey(s) ==
  LET c == IF options.order.ascending THEN s.c ELSE -s.c
  IN  IF options.order.componentFirst
        THEN c * Radix * Radix + Key(s.m)
        ELSE Key(s.m) * Radix + c

Sig(c, m) == [c |-> c, m |-> m]
SigTimes(u, s) == [s EXCEPT !.m = Mul(u, @)]
SigDivides(s, t) == s.c = t.c /\ Divides(s.m, t.m)

LeadOf(f) == CHOOSE m \in f : \A n \in f : Key(n) <= Key(m)
Add(f, g) == (f \ g) \cup (g \ f)
Times(u, f) == {Mul(u, m) : m \in f}

(* What insert stores with an element: the lead monomial and the place of  *)
(* the ratio of the signature to it                                        *)
Element(sig, poly, rep) ==
  Once(LAMBDA lead :
         [sig |-> sig, poly |-> poly, lead |-> lead, rep |-> rep,
          ratio |-> SigKey([sig EXCEPT !.m = Over(@, lead)])],
       LeadOf(poly))

LeadMono(i) == GB[i].lead
RatioKey(i) == GB[i].ratio

(* the elements with the largest measure *)
Best(S, measure(_)) == {i \in S : \A j \in S : measure(j) <= measure(i)}

TermCount(i) == Cardinality(GB[i].poly)

(* Mutated form: singular reducers are let in. *)
NotLess(sig, m) ==
  {i \in DOMAIN GB : /\ Divides(LeadMono(i), m)
                     /\ SigKey(SigTimes(Over(m, LeadMono(i)), GB[i].sig)) <= SigKey(sig)}

(* The ratio sig/m is larger than that of the reducer. *)
RegularReducers(sig, m) ==
  {i \in DOMAIN GB : /\ Divides(LeadMono(i), m)
                     /\ SigKey([sig EXCEPT !.m = Over(@, m)]) > RatioKey(i)}

RegularReducer(sig, m) ==
  LET R == RegularReducers(sig, m)
      sparsest == Best(R, LAMBDA i : -TermCount(i))
  IN  Min(IF options.preferSparseReducers THEN sparsest ELSE R)

(* Among the elements whose signatures divide sig, one whose multiple in   *)
(* sig has the smallest lead monomial; of those the one with most terms,   *)
(* of those the one with the largest signature                             *)
MinimalLeadInSig(sig) ==
  LET D == {i \in DOMAIN GB : SigDivides(GB[i].sig, sig)}
      smallest == Best(D, RatioKey)
      fullest == Best(smallest, TermCount)
  IN  CHOOSE i \in Best(fullest, LAMBDA j : SigKey(GB[j].sig)) : TRUE

(* No more than two divisors of its signature, by descending ratio, and    *)
(* the divisor of its lead monomial with the lowest ratio; 0 for none      *)
LowBaseDivisors(new) ==
  LET before(i, j) == \/ RatioKey(i) > RatioKey(j)
                      \/ RatioKey(i) = RatioKey(j) /\ i < j
      D == {i \in 1 .. new - 1 : SigDivides(GB[i].sig, GB[new].sig)}
      sorted == SetToSortSeq(D, before)
  IN  SubSeq(sorted, 1, Min({2, Len(sorted)}))

HighBaseDivisor(new) ==
  LET D == {i \in 1 .. new - 1 : Divides(LeadMono(i), LeadMono(new))}
  IN  IF D = {} THEN 0 ELSE Min(Best(D, LAMBDA i : -RatioKey(i)))

(* The representation of a multiple, and of a product with a polynomial *)
RepAdd(r, s) == [c \in DOMAIN r |-> Add(r[c], s[c])]
RepTimes(u, r) == [c \in DOMAIN r |-> Times(u, r[c])]
Product(f, g) == FoldSet(LAMBDA u, sum : Add(sum, Times(u, g)), {}, f)

(* TypicalReducer::regularReduce, one leading term after the other: the    *)
(* terms without a regular reducer are kept.                               *)
ReduceLead(sig, r) ==
  LET m == LeadOf(r.rest)
      g == RegularReducer(sig, m)
      u == Over(m, LeadMono(g))
  IN  IF RegularReducers(sig, m) = {}
        THEN [r EXCEPT !.rest = @ \ {m}, !.kept = @ \cup {m}]
        ELSE [r EXCEPT !.rest = Add(@, Times(u, GB[g].poly)),
                       !.rep = RepAdd(@, RepTimes(u, GB[g].rep))]

RECURSIVE Reduced(_, _)
Reduced(sig, r) ==
  IF r.rest = {} THEN r ELSE Once(LAMBDA s : Reduced(sig, s), ReduceLead(sig, r))

RegularReduce(sig, gen) ==
  LET u == Over(sig.m, GB[gen].sig.m)
  IN  Once(LAMBDA r : Reduced(sig, r),
           [rest |-> Times(u, GB[gen].poly), kept |-> {},
            rep |-> RepTimes(u, GB[gen].rep)])

(* There is no regular reducer of the lead monomial to begin with. *)
SingularReduction(sig, gen) ==
  RegularReducers(sig, Mul(Over(sig.m, GB[gen].sig.m), LeadMono(gen))) = {}

(* The debug check of a new element: another's multiple has its signature  *)
(* and its lead monomial.                                                  *)
IsSingularTopReducible(i, j) ==
  /\ Divides(LeadMono(i), LeadMono(j))
  /\ SigTimes(Over(LeadMono(j), LeadMono(i)), GB[i].sig) = GB[j].sig
=============================================================================
