------------------------------ MODULE MathicIO ------------------------------
(***************************************************************************)
(* The text format of rings and bases.  A text is a sequence of tokens,    *)
(* what Scanner makes of its characters; white space is a token, as it     *)
(* ends a polynomial and may not stand inside one.                         *)
(*                                                                         *)
(* Readers take the tokens from a point on and give [ok, in, value]: the   *)
(* tokens left and what was read, or ~ok where the code reports an error,  *)
(* which ends the program.  Writers give tokens.                           *)
(***************************************************************************)
EXTENDS Integers, Sequences, SequencesExt, FiniteSetsExt

CONSTANTS
  Texts,          \* texts that are read, as somebody may have written them
  Documents,      \* what is written: [charac, varCount, order, basis]
  WithComponents  \* of the ring, and of the basis

VARIABLES
  stage,      \* "text", "read", "refused" or "written"
  modules,    \* [ring, basis]: are components read and written?
  text,
  document,
  written     \* history variable: the documents that have been written

vars == <<stage, modules, text, document, written>>

(* componentBefore of an order that looks at the component last *)
ComponentAfterBaseOrder == -1

White == <<"white", "">>
Word(w) == <<"word", w>>
Sign(s) == <<"sign", s>>
Mark(m) == <<"mark", m>>
Letter(v) == <<"letter", v>>
Number(n) == <<"number", n>>
Integer(n) == IF n < 0 THEN <<Sign("-"), Number(-n)>> ELSE <<Number(n)>>

----------------------------------------------------------------------------
(* Scanner *)

Fail == [ok |-> FALSE, in |-> <<>>, value |-> <<>>]
Give(value, in) == [ok |-> TRUE, in |-> in, value |-> value]

(* Op of what was read, or the failure; TLC computes read once *)
Then(read, Op(_)) == CHOOSE x \in {IF r.ok THEN Op(r) ELSE Fail : r \in {read}} : TRUE

PeekKind(in) == IF in = <<>> THEN "EOF" ELSE in[1][1]
PeekIs(in, token) == in # <<>> /\ in[1] = token

RECURSIVE EatWhite(_)
EatWhite(in) == IF PeekIs(in, White) THEN EatWhite(Tail(in)) ELSE in

(* match: whether the tokens follow, and what is after them if so *)
Matches(in, tokens) == IsPrefix(tokens, EatWhite(in))
After(in, tokens) ==
  IF Matches(in, tokens) THEN SubSeq(EatWhite(in), Len(tokens) + 1, Len(EatWhite(in)))
  ELSE EatWhite(in)

Expected(in, token) == IF Matches(in, <<token>>) THEN Give(token, After(in, <<token>>)) ELSE Fail

(* readInteger; of an unsigned type if not signed *)
ReadInteger(in, signed) ==
  LET minus == ~Matches(in, <<Sign("+")>>) /\ Matches(in, <<Sign("-")>>)
      at == IF minus THEN After(in, <<Sign("-")>>) ELSE After(in, <<Sign("+")>>)
      n == at[1][2]
  IN  IF PeekKind(at) # "number" \/ (minus /\ ~signed /\ n # 0) THEN Fail
      ELSE Give(IF minus THEN -n ELSE n, Tail(at))

(* readModular, where a digit follows *)
ReadModular(in, charac, negate) ==
  LET n == in[1][2] % charac
  IN  Give(IF negate THEN (charac - n) % charac ELSE n, Tail(in))

----------------------------------------------------------------------------
(* The ring *)

IsPrime(n) == n > 1 /\ \A d \in 2 .. n - 1 : n % d # 0

ReadBaseField(in) ==
  Then(ReadInteger(in, FALSE), LAMBDA charac : IF IsPrime(charac.value) THEN charac ELSE Fail)

(* A component line: [ok, in, value: whether ascending] *)
ReadComponentLine(in, withComponent) ==
  LET up == Matches(in, <<Word("component")>>)
  IN  IF withComponent /\ (up \/ Matches(in, <<Word("revcomponent")>>))
        THEN Give(up, After(in, <<Word(IF up THEN "component" ELSE "revcomponent")>>))
        ELSE Fail
HasComponentLine(in) ==
  Matches(in, <<Word("component")>>) \/ Matches(in, <<Word("revcomponent")>>)

RECURSIVE ReadRow(_, _, _)
ReadRow(in, varCount, row) ==
  IF Len(row) = varCount THEN Give(row, in)
  ELSE Then(ReadInteger(in, TRUE), LAMBDA weight :
              ReadRow(weight.in, varCount, Append(row, weight.value)))

(* count lines more; the component must be given at most once. *)
RECURSIVE ReadGradings(_, _, _, _, _)
ReadGradings(in, varCount, withComponent, count, order) ==
  IF count = 0 THEN Give(order, in)
  ELSE IF ~HasComponentLine(in)
    THEN Then(ReadRow(in, varCount, <<>>), LAMBDA row :
                ReadGradings(row.in, varCount, withComponent, count - 1,
                             [order EXCEPT !.gradings = Append(@, row.value)]))
  ELSE IF order.componentBefore # ComponentAfterBaseOrder THEN Fail
  ELSE Then(ReadComponentLine(in, withComponent), LAMBDA line :
              ReadGradings(line.in, varCount, withComponent, count - 1,
                           [order EXCEPT !.componentBefore = Len(order.gradings),
                                         !.ascending = line.value]))

(* The base order once more, and the component after it *)
ReadTrailer(in, withComponent, order) ==
  LET lex == Matches(in, <<Word("_lex")>>)
      based == [order EXCEPT !.lex = lex]
      rest == After(in, <<Word(IF lex THEN "_lex" ELSE "_revlex")>>)
  IN  IF ~lex /\ ~Matches(in, <<Word("_revlex")>>) THEN Give(order, in)
      ELSE IF ~HasComponentLine(rest) THEN Give(based, rest)
      ELSE Then(ReadComponentLine(rest, withComponent), LAMBDA line :
                  Give([based EXCEPT !.ascending = line.value], line.in))

ReadOrder(in, varCount, withComponent) ==
  LET schreyer == After(in, <<Word("schreyer")>>)
      revlex == Matches(schreyer, <<Word("revlex")>>)
      lex == ~revlex /\ Matches(schreyer, <<Word("lex")>>)
      rest == After(schreyer, <<Word(IF revlex THEN "revlex" ELSE "lex")>>)
      order == [schreyering |-> Matches(in, <<Word("schreyer")>>), lex |-> lex,
                gradings |-> <<>>, componentBefore |-> ComponentAfterBaseOrder,
                ascending |-> TRUE]
  IN  Then(ReadInteger(rest, FALSE), LAMBDA count :
        Then(ReadGradings(count.in, varCount, withComponent, count.value, order),
             LAMBDA graded : ReadTrailer(graded.in, withComponent, graded.value)))

ReadRing(in, withComponent) ==
  Then(ReadBaseField(in), LAMBDA charac :
    Then(ReadInteger(charac.in, FALSE), LAMBDA varCount :
      Then(ReadOrder(varCount.in, varCount.value, withComponent), LAMBDA order :
        Give([charac |-> charac.value, varCount |-> varCount.value, order |-> order.value],
             order.in))))

(* Mutated form: a descending component is written at its place only. *)
WriteOrderAtPlace(order, withComponent) ==
  LET line == <<White, Word(IF order.ascending THEN "component" ELSE "revcomponent"), White>>
      last == order.componentBefore = ComponentAfterBaseOrder
      before(g) == IF withComponent /\ order.componentBefore = g THEN line ELSE <<>>
      row(g) == FlattenSeq([v \in DOMAIN order.gradings[g] |->
                              <<White>> \o Integer(order.gradings[g][v])])
  IN  (IF order.schreyering THEN <<Word("schreyer"), White>> ELSE <<>>)
      \o <<Word(IF order.lex THEN "lex" ELSE "revlex"), White,
           Number(Len(order.gradings) + (IF last THEN 0 ELSE 1)), White>>
      \o FlattenSeq([g \in DOMAIN order.gradings |-> before(g - 1) \o row(g) \o <<White>>])
      \o before(Len(order.gradings))

WriteOrder(order, withComponent) ==
  LET base == IF order.lex THEN "lex" ELSE "revlex"
      component == Word(IF order.ascending THEN "component" ELSE "revcomponent")
      last == order.componentBefore = ComponentAfterBaseOrder
      before(g) == IF withComponent /\ order.componentBefore = g
                     THEN <<White, component, White>> ELSE <<>>
      row(g) == FlattenSeq([v \in DOMAIN order.gradings[g] |->
                              <<White>> \o Integer(order.gradings[g][v])])
  IN  (IF order.schreyering THEN <<Word("schreyer"), White>> ELSE <<>>)
      \o <<Word(base), White, Number(Len(order.gradings) + (IF last THEN 0 ELSE 1)), White>>
      \o FlattenSeq([g \in DOMAIN order.gradings |-> before(g - 1) \o row(g) \o <<White>>])
      \o before(Len(order.gradings))
      \o (IF withComponent /\ ~order.ascending /\ last
            THEN <<White, Word("_" \o base), White, component, White>> ELSE <<>>)

WriteRing(doc, withComponent) ==
  <<Number(doc.charac), White, Number(doc.varCount), White>>
  \o WriteOrder(doc.order, withComponent)

----------------------------------------------------------------------------
(* Monomials [component, exponents], terms [coef, mono], polynomials *)

IdentityOf(ring) == [component |-> 0, exponents |-> [v \in 1..ring.varCount |-> 0]]

ReadComponent(in, mono) ==
  Then(Expected(in, Mark("<")), LAMBDA open :
    Then(ReadInteger(open.in, TRUE), LAMBDA c :
      Then(Expected(c.in, Mark(">")), LAMBDA close :
        Give([mono EXCEPT !.component = c.value], close.in))))

(* Letters and their exponents, none of them twice *)
RECURSIVE ReadPowers(_, _, _)
ReadPowers(in, mono, sawSome) ==
  LET var == in[1][2]
      hasExponent == PeekKind(Tail(in)) = "number"
  IN  IF PeekKind(in) # "letter" THEN IF sawSome THEN Give(mono, in) ELSE Fail
      ELSE IF var \notin DOMAIN mono.exponents THEN Fail
      ELSE IF mono.exponents[var] > 0 THEN Fail
      ELSE Then(IF hasExponent THEN ReadInteger(Tail(in), TRUE) ELSE Give(1, Tail(in)),
                LAMBDA e : ReadPowers(e.in, [mono EXCEPT !.exponents[var] = e.value], TRUE))

ReadMonomial(in, ring, withComponent) ==
  LET identity == IdentityOf(ring)
  IN  Then(IF PeekIs(in, Number(1)) THEN Give(identity, Tail(in))
           ELSE IF withComponent /\ PeekIs(in, Mark("<")) THEN Give(identity, in)
           ELSE ReadPowers(in, identity, FALSE),
           LAMBDA powers : IF withComponent THEN ReadComponent(powers.in, powers.value)
                           ELSE powers)

(* The coefficient at the start of a term, and whether it is written *)
ReadCoefficient(in, ring) ==
  LET negate == ~Matches(in, <<Sign("+")>>) /\ Matches(in, <<Sign("-")>>)
      at == After(in, <<Sign(IF negate THEN "-" ELSE "+")>>)
  IN  IF PeekKind(at) # "number"
        THEN Give([coef |-> IF negate THEN ring.charac - 1 ELSE 1, number |-> FALSE], at)
        ELSE Then(ReadModular(at, ring.charac, negate), LAMBDA c :
                    Give([coef |-> c.value, number |-> TRUE], c.in))

(* A number that no letter follows is the monomial 1 times that number. *)
ReadTerm(in, ring, withComponent) ==
  Then(ReadCoefficient(in, ring), LAMBDA c :
    Then(IF ~c.value.number \/ PeekKind(c.in) = "letter"
           THEN ReadMonomial(c.in, ring, withComponent)
         ELSE IF withComponent THEN ReadComponent(c.in, IdentityOf(ring))
         ELSE Give(IdentityOf(ring), c.in),
         LAMBDA mono : Give([coef |-> c.value.coef, mono |-> mono.value], mono.in)))

(* The loop; all terms but the first begin with a sign or a component. *)
RECURSIVE ReadTerms(_, _, _, _)
ReadTerms(in, ring, withComponent, poly) ==
  LET isNext == PeekKind(in) = "sign" \/ (withComponent /\ PeekIs(in, Mark("<")))
  IN  IF poly # <<>> /\ ~isNext THEN Fail
      ELSE Then(ReadTerm(in, ring, withComponent), LAMBDA term :
             IF PeekKind(term.in) \in {"white", "EOF"}
               THEN Give(Append(poly, term.value), term.in)
               ELSE ReadTerms(term.in, ring, withComponent, Append(poly, term.value)))

ReadPolyDoNotOrder(in, ring, withComponent) ==
  LET zeros == {z \in {<<Number(0)>>, <<Sign("+"), Number(0)>>, <<Sign("-"), Number(0)>>} :
                  Matches(in, z)}
  IN  IF zeros # {} THEN Give(<<>>, After(in, CHOOSE z \in zeros : TRUE))
      ELSE ReadTerms(EatWhite(in), ring, withComponent, <<>>)

(* monoid().lessThan, of the orders that can be read *)
Greater(ring, x, y) ==
  LET order == ring.order
      signed(k) == IF order.lex THEN k ELSE -k
      key(m) ==
        LET rows == [g \in DOMAIN order.gradings |->
              FoldLeft(LAMBDA s, v : s + order.gradings[g][v] * m.exponents[v], 0,
                       [v \in 1..ring.varCount |-> v])]
            base == [v \in 1..ring.varCount |->
                       signed(m.exponents[ring.varCount + 1 - v])]
        IN  IF order.componentBefore = ComponentAfterBaseOrder
              THEN rows \o base \o <<signed(m.component)>>
              ELSE InsertAt(rows, order.componentBefore + 1, signed(m.component)) \o base
      decides == {i \in DOMAIN key(x) : key(x)[i] # key(y)[i]}
  IN  decides # {} /\ key(x)[Min(decides)] > key(y)[Min(decides)]

Descending(poly, ring) == SortSeq(poly, LAMBDA s, t : Greater(ring, s.mono, t.mono))

RECURSIVE ReadPolys(_, _, _, _, _)
ReadPolys(in, ring, withComponent, count, basis) ==
  IF Len(basis) = count THEN Give(basis, in)
  ELSE Then(ReadPolyDoNotOrder(in, ring, withComponent), LAMBDA poly :
              ReadPolys(poly.in, ring, withComponent, count,
                        Append(basis, Descending(poly.value, ring))))

ReadBasis(in, ring, withComponent) ==
  Then(ReadInteger(in, FALSE), LAMBDA count :
         ReadPolys(count.in, ring, withComponent, count.value, <<>>))

WriteComponent(mono) == <<Mark("<")>> \o Integer(mono.component) \o <<Mark(">")>>

WriteMonomial(mono, withComponent) ==
  LET powers == FlattenSeq([v \in DOMAIN mono.exponents |->
                  IF mono.exponents[v] = 0 THEN <<>>
                  ELSE IF mono.exponents[v] = 1 THEN <<Letter(v)>>
                  ELSE <<Letter(v), Number(mono.exponents[v])>>])
  IN  (IF powers = <<>> THEN <<Number(1)>> ELSE powers)
      \o (IF withComponent THEN WriteComponent(mono) ELSE <<>>)

(* isNegative: more than half of the modulus.  A coefficient of 1 is left out. *)
WriteTerm(term, ring, withComponent, writeSign) ==
  LET negative == term.coef > ring.charac \div 2
      coef == IF negative THEN ring.charac - term.coef ELSE term.coef
      sign == IF negative THEN <<Sign("-")>> ELSE IF writeSign THEN <<Sign("+")>> ELSE <<>>
      identity == term.mono.exponents = IdentityOf(ring).exponents
  IN  sign \o (IF coef = 1 THEN WriteMonomial(term.mono, withComponent)
               ELSE <<Number(coef)>>
                    \o (IF ~identity THEN WriteMonomial(term.mono, withComponent)
                        ELSE IF withComponent THEN WriteComponent(term.mono) ELSE <<>>))

WritePoly(poly, ring, withComponent) ==
  IF poly = <<>> THEN <<Number(0)>>
  ELSE FlattenSeq([i \in DOMAIN poly |-> WriteTerm(poly[i], ring, withComponent, i > 1)])

WriteBasis(basis, ring, withComponent) ==
  <<Number(Len(basis)), White>>
  \o FlattenSeq([i \in DOMAIN basis |->
                   <<White>> \o WritePoly(basis[i], ring, withComponent) \o <<White>>])

----------------------------------------------------------------------------
NoDocument == [charac |-> 0, varCount |-> 0,
               order |-> [schreyering |-> FALSE, lex |-> FALSE, gradings |-> <<>>,
                          componentBefore |-> ComponentAfterBaseOrder, ascending |-> TRUE],
               basis |-> <<>>]

Init ==
  /\ modules \in WithComponents
  /\ written = {}
  /\ \/ stage = "text" /\ text \in Texts /\ document = NoDocument
     \/ stage = "read" /\ text = <<>> /\ document \in Documents

(* readRing and readBasis, as GBAction calls them *)
ReadDocument ==
  Then(ReadRing(text, modules.ring), LAMBDA ring :
    Then(ReadBasis(ring.in, ring.value, modules.basis), LAMBDA basis :
      Give([charac |-> ring.value.charac, varCount |-> ring.value.varCount,
            order |-> ring.value.order, basis |-> basis.value], basis.in)))

Read ==
  /\ stage \in {"text", "written"}
  /\ \E r \in {ReadDocument} :
       /\ stage' = IF r.ok THEN "read" ELSE "refused"
       /\ text' = r.in
       /\ document' = IF r.ok THEN r.value ELSE NoDocument
  /\ UNCHANGED <<modules, written>>

Write ==
  /\ stage = "read"
  /\ written = {}
  /\ written' = {document}
  /\ stage' = "written"
  /\ text' = WriteRing(document, modules.ring)
             \o WriteBasis(document.basis, document, modules.basis)
  /\ document' = NoDocument
  /\ UNCHANGED modules

Next == Read \/ Write

Spec == Init /\ [][Next]_vars

----------------------------------------------------------------------------
(* What polynomials are to be: no coefficient is zero and no monomial is   *)
(* there twice.  The reader does not see to that.                          *)
IsProper(d) ==
  \A i \in DOMAIN d.basis :
    LET p == d.basis[i]
    IN  /\ \A k \in DOMAIN p : p[k].coef # 0
        /\ \A j, k \in DOMAIN p : p[j].mono = p[k].mono => j = k

(* What has been written is read back as it was, to the end of the text:   *)
(* the ring with its order, a base and a component order that the first    *)
(* or the last line gives, and every polynomial.                           *)
TextKeepsDocument ==
  \A d \in written :
    IsProper(d) /\ stage # "written" =>
      stage = "read" /\ document = d /\ EatWhite(text) = <<>>
=============================================================================
