-------------------------- MODULE LibraryInterface --------------------------
(***************************************************************************)
(* The library interface: a client describes a configuration, sends an     *)
(* ideal through a checked stream, and has a Groebner basis computed,      *)
(* which comes back as calls on a stream of the client's own.              *)
(*                                                                         *)
(* Calls that throw change nothing and are left out.  The computation is a *)
(* loop of steps with a callback before each; its result may be any.       *)
(***************************************************************************)
EXTENDS StreamStateChecker, Sequences, SequencesExt, FiniteSetsExt

CONSTANTS
  Configurations, \* [modulus, varCount, comCount, order, reducer, callback]
  Orders,         \* the monomial orders a client asks for
  MaxPolys(_),    \* bound on the polynomials of a client, by its configuration
  MaxTerms(_),    \* bound on their terms
  Exponents,      \* the exponents appended
  Results         \* the bases that a computation may come to

VARIABLES
  conf,       \* GroebnerConfiguration
  checker,    \* the StreamStateChecker of the IdealStreamChecker
  exponents,  \* mExponents
  monomial,   \* the component of Pimpl::monomial
  poly,       \* Pimpl::poly, terms [coef, com, exps]
  basis,      \* Pimpl::basis, the polynomials
  sent,       \* history variable: what the client has sent and announced
  phase,      \* what the client does: configure, input, compute, output, done
  lastAction, \* what the callback said last
  adapter,    \* IdealAdapter [basis, polyIndex, term]
  out         \* the client's stream: [checker, polyIndex, termIndex, polys, ok]

vars == <<conf, checker, exponents, monomial, poly, basis, sent, phase, lastAction,
          adapter, out>>

input == <<checker, exponents, monomial, poly, basis, sent>>

(* polys have been sent, and terms of the one that is under way; a number  *)
(* of polynomials, or of terms, was announced, and claims for polys.       *)
Sent(polys, terms, polyCount, termCount, claims) ==
  [polys |-> polys, terms |-> terms, polyCount |-> polyCount, termCount |-> termCount,
   claims |-> claims]

----------------------------------------------------------------------------
(* GroebnerConfiguration *)

IsLex(base) == base \in {"LexDescending", "LexAscending"}

(* 1 < x_var for every variable *)
IsGlobal(order, varCount) ==
  \A var \in 1..varCount :
    \/ \E row \in DOMAIN order.gradings :
         /\ order.gradings[row][var] > 0
         /\ \A before \in 1 .. row - 1 : order.gradings[before][var] = 0
    \/ /\ \A row \in DOMAIN order.gradings : order.gradings[row][var] = 0
       /\ IsLex(order.base)

TranslateBaseOrder(base) ==
  IF base = "RevLexDescending" THEN "RevLexFromRight"
  ELSE IF base = "LexDescending" THEN "LexFromLeft"
  ELSE IF base = "RevLexAscending" THEN "RevLexFromLeft"
  ELSE "LexFromRight"

(* The monoid of the ring that the stream makes from the configuration *)
Ring ==
  [vars |-> conf.varCount, hasComponent |-> TRUE, storeHash |-> TRUE,
   storeOrder |-> TRUE,
   order |-> [base |-> TranslateBaseOrder(conf.order.base),
              gradings |-> conf.order.gradings,
              componentBefore |-> conf.order.componentBefore]]

Monoid == INSTANCE MonoMonoid WITH
  Monoids <- {}, Width <- 16, HashCoefficients <- <<3, 5, 7>>,
  MaxExponent <- 0, Components <- {}, monoid <- Ring, a <- <<>>, b <- <<>>

(* setExternalExponents *)
Mono(com, exps) ==
  Monoid!Complete(Ring, com,
    [v \in 1..conf.varCount |-> exps[Monoid!ExternalVar(Ring, v) - 1]])

LessThan(s, t) ==
  Monoid!Compare(Ring, Mono(s.com, s.exps), Mono(t.com, t.exps)) = -1

SetMonomialOrder(order) ==
  /\ phase = "configure"
  /\ IsGlobal(order, conf.varCount)
  /\ conf' = [conf EXCEPT !.order.base = order.base, !.order.gradings = order.gradings]
  /\ UNCHANGED <<input, phase, lastAction, adapter, out>>

SetComponentBefore(value) ==
  /\ phase = "configure"
  /\ conf' = [conf EXCEPT !.order.componentBefore = value]
  /\ UNCHANGED <<input, phase, lastAction, adapter, out>>

(* The stream copies the configuration.  An order of more rows than        *)
(* componentBefore counts is the client's concern.                         *)
MakeStream ==
  /\ phase = "configure"
  /\ conf.order.componentBefore \in 0 .. Len(conf.order.gradings) \cup {99}
  /\ phase' = "input"
  /\ UNCHANGED <<conf, input, lastAction, adapter, out>>

----------------------------------------------------------------------------
(* GroebnerInputIdealStream behind an IdealStreamChecker *)

Zero == [v \in 0 .. conf.varCount - 1 |-> 0]

(* The adapter and the output only live while a basis is computed. *)
NoAdapter == [basis |-> <<>>, polyIndex |-> 1, term |-> 1]
NoOutput ==
  [checker |-> NewChecker, polyIndex |-> 0, termIndex |-> 0, polys |-> <<>>, ok |-> TRUE]

Init ==
  /\ conf \in Configurations
  /\ checker = NewChecker
  /\ exponents = Zero
  /\ monomial = 0
  /\ poly = <<>>
  /\ basis = <<>>
  /\ sent = Sent(<<>>, <<>>, NoClaim, NoClaim, <<>>)
  /\ phase = "configure"
  /\ lastAction = "Continue"
  /\ adapter = NoAdapter
  /\ out = NoOutput

(* It asserts that the stream holds nothing.  A computation leaves what    *)
(* there is, so that after one only an empty ideal can be followed by      *)
(* another.                                                                *)
IdealBegin(polyCount) ==
  /\ phase \in {"input", "done"}
  /\ MayBeginIdeal(checker)
  /\ poly = <<>> /\ basis = <<>>
  /\ checker' = IdealBegun(checker, polyCount)
  /\ phase' = "input"
  /\ sent' = [sent EXCEPT !.polyCount = polyCount]
  /\ lastAction' = "Continue"
  /\ adapter' = NoAdapter
  /\ out' = NoOutput
  /\ UNCHANGED <<conf, exponents, monomial, poly, basis>>

AppendPolynomialBegin(termCount) ==
  /\ phase = "input"
  /\ MayBeginPolynomial(checker)
  /\ Len(basis) < MaxPolys(conf)
  /\ checker' = PolynomialBegun(checker, termCount)
  /\ sent' = [sent EXCEPT !.terms = <<>>, !.termCount = termCount]
  /\ UNCHANGED <<conf, exponents, monomial, poly, basis, phase, lastAction, adapter, out>>

Cleared(exps) == Zero

AppendTermBegin(com) ==
  /\ phase = "input"
  /\ MayBeginTerm(checker, com, conf)
  /\ Len(poly) + Len(FlattenSeq(basis)) < MaxTerms(conf)
  /\ checker' = TermBegun(checker)
  /\ exponents' = Cleared(exponents)
  /\ monomial' = com
  /\ sent' = [sent EXCEPT !.terms = Append(@, [coef |-> 0, com |-> com, exps |-> Zero])]
  /\ UNCHANGED <<conf, poly, basis, phase, lastAction, adapter, out>>

AppendExponent(index, e) ==
  /\ phase = "input"
  /\ MayAppendExponent(checker, index, conf)
  /\ checker' = ExponentAppended(checker, index)
  /\ exponents' = [exponents EXCEPT ![index] = e]
  /\ sent' = [sent EXCEPT !.terms[Len(sent.terms)].exps[index] = e]
  /\ UNCHANGED <<conf, monomial, poly, basis, phase, lastAction, adapter, out>>

AppendTermDone(coef) ==
  /\ phase = "input"
  /\ MayEndTerm(checker, coef, conf)
  /\ checker' = TermEnded(checker)
  /\ poly' = Append(poly, [coef |-> coef, com |-> monomial, exps |-> exponents])
  /\ sent' = [sent EXCEPT !.terms[Len(sent.terms)].coef = coef]
  /\ UNCHANGED <<conf, exponents, monomial, basis, phase, lastAction, adapter, out>>

TermsAreInDescendingOrder(p) ==
  \A i \in 1 .. Len(p) - 1 : LessThan(p[i + 1], p[i])

(* Terms that are alike may come in any order. *)
TermsDescending(p) ==
  LET n == Len(p)
      order == CHOOSE q \in [1..n -> 1..n] :
                 /\ IsInjective(q)
                 /\ \A i, j \in 1..n : i < j => ~LessThan(p[q[i]], p[q[j]])
  IN  IF TermsAreInDescendingOrder(p) THEN p ELSE [i \in 1..n |-> p[order[i]]]

AppendPolynomialDone ==
  /\ phase = "input"
  /\ MayEndPolynomial(checker)
  /\ checker' = PolynomialEnded(checker)
  /\ basis' = Append(basis, TermsDescending(poly))
  /\ poly' = <<>>
  /\ sent' = [sent EXCEPT !.polys = Append(@, sent.terms),
                          !.claims = Append(@, sent.termCount)]
  /\ UNCHANGED <<conf, exponents, monomial, phase, lastAction, adapter, out>>

IdealDone ==
  /\ phase = "input"
  /\ MayEndIdeal(checker)
  /\ checker' = IdealEnded(checker)
  /\ UNCHANGED <<conf, exponents, monomial, poly, basis, sent, phase, lastAction,
                 adapter, out>>

----------------------------------------------------------------------------
(* internalComputeGroebnerBasis.  The input is copied. *)

UsesMatrixReducer == conf.reducer # "ClassicReducer"

MaxMatrixModulus == 2^16 - 1

Compute ==
  /\ phase = "input"
  /\ checker.state = "HasIdeal"
  /\ phase' = IF UsesMatrixReducer /\ conf.modulus > MaxMatrixModulus
                THEN "error" ELSE "compute"
  /\ lastAction' = "Continue"
  /\ UNCHANGED <<conf, input, adapter, out>>

Actions == {"Continue", "StopWithNoOutput", "StopWithPartialOutput"}

(* An S-pair is left.  setCallback of null makes callbackCaller be called  *)
(* with null.                                                              *)
Callback(action) ==
  /\ phase = "compute"
  /\ conf.callback = "object"
  /\ lastAction = "Continue"
  /\ lastAction' = action
  /\ UNCHANGED <<conf, input, phase, adapter, out>>

CallNull ==
  /\ phase = "compute"
  /\ conf.callback = "null"
  /\ phase' = "crash"
  /\ UNCHANGED <<conf, input, lastAction, adapter, out>>

(* The index of the first polynomial from i on that is not zero *)
FirstNonZero(gb, i) ==
  Min({j \in i .. Len(gb) + 1 : j = Len(gb) + 1 \/ gb[j] # <<>>})

HasOutput == lastAction # "StopWithNoOutput"

(* The loop has ended; toFirstTerm.  With neither action the computation   *)
(* has come to its end.                                                    *)
ComputeDone(gb) ==
  /\ phase = "compute"
  /\ IF HasOutput
       THEN /\ phase' = "output"
            /\ adapter' = [basis |-> gb, polyIndex |-> FirstNonZero(gb, 1), term |-> 1]
            /\ out' = NoOutput
       ELSE phase' = "done" /\ UNCHANGED <<adapter, out>>
  /\ UNCHANGED <<conf, input, lastAction>>

----------------------------------------------------------------------------
(* computeGroebnerBasis, which passes the basis on; out.ok says whether    *)
(* a checker lets all its calls pass.                                      *)

OutputIdealBegin ==
  /\ phase = "output" /\ out.polyIndex = 0
  /\ out' = [out EXCEPT !.checker = IdealBegun(@, Len(adapter.basis)), !.polyIndex = 1,
                        !.ok = @ /\ MayBeginIdeal(out.checker)]
  /\ UNCHANGED <<conf, input, phase, lastAction, adapter>>

OutputPolynomialBegin ==
  /\ phase = "output" /\ out.polyIndex \in 1..Len(adapter.basis) /\ out.termIndex = 0
  /\ LET termCount == Len(adapter.basis[out.polyIndex])
     IN  out' = [out EXCEPT !.checker = PolynomialBegun(@, termCount), !.termIndex = 1,
                            !.polys = Append(@, <<>>),
                            !.ok = @ /\ MayBeginPolynomial(out.checker)]
  /\ UNCHANGED <<conf, input, phase, lastAction, adapter>>

(* Mutated form: zero polynomials are not passed over. *)
NextTermOfNext(ad) ==
  IF ad.term < Len(ad.basis[ad.polyIndex])
    THEN [ad EXCEPT !.term = @ + 1]
    ELSE [ad EXCEPT !.polyIndex = @ + 1, !.term = 1]

(* The adapter after nextTerm *)
NextTerm(ad) ==
  IF ad.term < Len(ad.basis[ad.polyIndex])
    THEN [ad EXCEPT !.term = @ + 1]
    ELSE [ad EXCEPT !.polyIndex = FirstNonZero(ad.basis, @ + 1), !.term = 1]

(* The term that nextTerm returns, of no polynomial when it is past one *)
CurrentTerm(ad) ==
  IF ad.polyIndex \in DOMAIN ad.basis /\ ad.term \in DOMAIN ad.basis[ad.polyIndex]
    THEN ad.basis[ad.polyIndex][ad.term]
    ELSE [coef |-> 0, com |-> 0, exps |-> Zero]

OutputTerm ==
  /\ phase = "output" /\ out.polyIndex \in 1..Len(adapter.basis)
  /\ out.termIndex \in 1..Len(adapter.basis[out.polyIndex])
  /\ LET term == CurrentTerm(adapter)
         begun == TermBegun(out.checker)
         atLast == ExponentAppended(begun, conf.varCount - 1)
     IN  out' = [out EXCEPT
           !.checker = TermEnded(atLast),
           !.termIndex = @ + 1,
           !.polys[out.polyIndex] = Append(@, term),
           !.ok = /\ @
                  /\ MayBeginTerm(out.checker, term.com, conf)
                  /\ MayAppendExponent(begun, 0, conf)
                  /\ \A v \in 1 .. conf.varCount - 1 :
                       MayAppendExponent(ExponentAppended(begun, v - 1), v, conf)
                  /\ MayEndTerm(atLast, term.coef, conf)]
  /\ adapter' = IF adapter.polyIndex \in DOMAIN adapter.basis
                  THEN NextTerm(adapter) ELSE adapter
  /\ UNCHANGED <<conf, input, phase, lastAction>>

OutputPolynomialDone ==
  /\ phase = "output" /\ out.polyIndex \in 1..Len(adapter.basis)
  /\ out.termIndex = Len(adapter.basis[out.polyIndex]) + 1
  /\ out' = [out EXCEPT !.checker = PolynomialEnded(@), !.polyIndex = @ + 1,
                        !.termIndex = 0, !.ok = @ /\ MayEndPolynomial(out.checker)]
  /\ UNCHANGED <<conf, input, phase, lastAction, adapter>>

OutputIdealDone ==
  /\ phase = "output" /\ out.polyIndex = Len(adapter.basis) + 1
  /\ out' = [out EXCEPT !.checker = IdealEnded(@), !.ok = @ /\ MayEndIdeal(out.checker)]
  /\ phase' = "done"
  /\ UNCHANGED <<conf, input, lastAction, adapter>>

Claims == {NoClaim} \cup 1..MaxPolys(conf)

Next ==
  \/ \E order \in Orders : SetMonomialOrder(order)
  \/ \E value \in {0, 1} : SetComponentBefore(value)
  \/ MakeStream
  \/ \E n \in Claims : IdealBegin(n)
  \/ \E n \in Claims : AppendPolynomialBegin(n)
  \/ \E com \in 0..conf.comCount : AppendTermBegin(com)
  \/ \E index \in 0..conf.varCount, e \in Exponents : AppendExponent(index, e)
  \/ \E coef \in {0, 1, conf.modulus} : AppendTermDone(coef)
  \/ AppendPolynomialDone
  \/ IdealDone
  \/ Compute
  \/ \E action \in Actions : Callback(action)
  \/ CallNull
  \/ \E gb \in Results : ComputeDone(gb)
  \/ OutputIdealBegin
  \/ OutputPolynomialBegin
  \/ OutputTerm
  \/ OutputPolynomialDone
  \/ OutputIdealDone

Spec == Init /\ [][Next]_vars

----------------------------------------------------------------------------
TypeOK ==
  /\ checker.state \in {"Initial", "MakingIdeal", "MakingPoly", "MakingTerm", "HasIdeal"}
  /\ exponents \in [0 .. conf.varCount - 1 -> Exponents \cup {0}]
  /\ monomial \in 0 .. conf.comCount - 1
  /\ phase \in {"configure", "input", "compute", "output", "done", "error", "crash"}
  /\ lastAction \in Actions
  /\ \A p \in Range(basis) \cup {poly} : \A t \in Range(p) :
       t.coef \in 1 .. conf.modulus - 1

(* The same terms, as often *)
SameTerms(p, q) ==
  /\ Len(p) = Len(q)
  /\ \A t \in Range(p) \cup Range(q) :
       Cardinality({i \in DOMAIN p : p[i] = t}) = Cardinality({i \in DOMAIN q : q[i] = t})

(* The stream holds the polynomials that the client has sent, though the   *)
(* exponents of all terms go through one array and the terms of all        *)
(* polynomials through one polynomial.                                     *)
BasisIsSent ==
  /\ Len(basis) = Len(sent.polys)
  /\ \A i \in DOMAIN basis : SameTerms(basis[i], sent.polys[i])

(* The polynomials that the algorithm gets have their terms in descending  *)
(* order in the monoid of the ring, in which equal terms stay neighbours.  *)
BasisDescends ==
  \A p \in Range(basis) : \A i \in 1 .. Len(p) - 1 : ~LessThan(p[i], p[i + 1])

(* The checker counts calls and knows nothing of what the stream holds,    *)
(* and yet: between polynomials the stream has none begun, which its       *)
(* asserts rely on; each polynomial has exactly as many terms as were      *)
(* announced for it; a complete ideal has as many polynomials.             *)
ClaimsAreKept ==
  /\ checker.state \in {"Initial", "MakingIdeal", "HasIdeal"} => poly = <<>>
  /\ \A i \in 1..Len(basis) :
       sent.claims[i] # NoClaim => Len(basis[i]) = sent.claims[i]
  /\ checker.state = "HasIdeal" /\ sent.polyCount # NoClaim =>
       Len(basis) = sent.polyCount

(* An order that the configuration takes is one in which each variable is  *)
(* greater than 1, in the monoid that the stream makes of it.              *)
OrderIsGlobal ==
  phase # "configure" => \A v \in 0 .. conf.varCount - 1 :
    LessThan([com |-> 0, exps |-> Zero], [com |-> 0, exps |-> [Zero EXCEPT ![v] = 1]])

(* Variables of equal weights compare as the name of the base order says.  *)
VariablesAsNamed ==
  LET descending == conf.order.base \in {"RevLexDescending", "LexDescending"}
      weights(v) == [row \in DOMAIN conf.order.gradings |->
                       conf.order.gradings[row][v + 1]]
      variable(v) == [com |-> 0, exps |-> [Zero EXCEPT ![v] = 1]]
  IN  phase # "configure" => \A v, u \in 0 .. conf.varCount - 1 :
        (v < u /\ weights(v) = weights(u)) =>
          IF descending THEN LessThan(variable(u), variable(v))
          ELSE LessThan(variable(v), variable(u))

(* The calls on the output stream follow the protocol, and bring the whole *)
(* basis, polynomial by polynomial, although the adapter and the loop that *)
(* asks it for terms count separately and zero polynomials have none.      *)
OutputFollowsProtocol ==
  /\ out.ok
  /\ (phase = "done" /\ out.checker.state = "HasIdeal") => out.polys = adapter.basis

(* The matrix reducer, which is also the default, is only made for moduli  *)
(* of 16 bits.                                                             *)
MatrixModulusFits ==
  phase \in {"compute", "output"} /\ conf.reducer # "ClassicReducer" =>
    conf.modulus < 2^16

(* "If callback is null then no function will be called."                  *)
NullIsNotCalled == phase # "crash"

(* A ring has variables.  What a computation may come to are polynomials   *)
(* of the ring, whichever configuration the client starts from.            *)
ConfigurationShape ==
  [modulus: Nat, varCount: Nat \ {0}, comCount: Nat, reducer: STRING, callback: STRING,
   order: [base: STRING, gradings: Seq(Seq(Int)), componentBefore: Nat]]

RingTerms(c) ==
  [coef: 1 .. c.modulus - 1, com: 0 .. c.comCount - 1, exps: [0 .. c.varCount - 1 -> Nat]]

ResultsFit ==
  \A c \in Configurations :
    c \in ConfigurationShape /\ Results \subseteq Seq(Seq(RingTerms(c)))
=============================================================================
