----------------------- MODULE LibraryInterfaceProofs -----------------------
(***************************************************************************)
(* The calls that go through the library interface follow the protocol of  *)
(* streams, for every client and every basis.  On the way in the checker,  *)
(* which only counts calls, knows how much the stream holds.  On the way   *)
(* out the loop of computeGroebnerBasis and the adapter that it asks for   *)
(* terms count separately: the adapter is at the loop's term, or at the    *)
(* first term of the next polynomial that has one.                         *)
(***************************************************************************)
EXTENDS LibraryInterface, SequenceTheorems, WellFoundedInduction, TLAPS

LEMMA MinIs ==
  ASSUME NEW S, S \subseteq Nat, S # {}
  PROVE  Min(S) \in S /\ \A n \in S : Min(S) <= n
<1>1. PICK m \in S : \A n \in S : <<n, m>> \notin OpToRel(<, Nat)
  BY NatLessThanWellFounded, WFMin
<1>2. ASSUME NEW n \in S
      PROVE  m <= n
  <2>1. m \in Nat /\ n \in Nat
    OBVIOUS
  <2>2. ~(n < m)
    BY <1>1, <2>1 DEF OpToRel
  <2> QED
    BY <2>1, <2>2
<1> QED
  BY <1>1, <1>2 DEF Min

-----------------------------------------------------------------------------
(* The way in *)

Checkers ==
  [state: {"Initial", "MakingIdeal", "MakingPoly", "MakingTerm", "HasIdeal"},
   claimedPolys: Int, seenPolys: Nat, claimedTerms: Int, seenTerms: Nat, lastVar: Int]

(* The checker after a call *)
LEMMA PolynomialBegunIs ==
  ASSUME NEW c \in Checkers, NEW n \in Int
  PROVE  LET d == PolynomialBegun(c, n)
         IN  /\ d \in Checkers /\ d.state = "MakingPoly"
             /\ d.claimedPolys = c.claimedPolys /\ d.seenPolys = c.seenPolys + 1
             /\ d.claimedTerms = n /\ d.seenTerms = 0
<1>1. ASSUME NEW k \in Nat
      PROVE  LET d == [c EXCEPT !.state = "MakingPoly", !.seenPolys = k,
                                !.claimedTerms = n, !.seenTerms = 0]
             IN  /\ d \in Checkers /\ d.state = "MakingPoly"
                 /\ d.claimedPolys = c.claimedPolys /\ d.seenPolys = k
                 /\ d.claimedTerms = n /\ d.seenTerms = 0
  BY DEF Checkers
<1>2. c.seenPolys + 1 \in Nat
  BY DEF Checkers
<1>3. PolynomialBegun(c, n) =
        [c EXCEPT !.state = "MakingPoly", !.seenPolys = c.seenPolys + 1,
                  !.claimedTerms = n, !.seenTerms = 0]
  BY Zenon DEF PolynomialBegun
<1>4. LET d == [c EXCEPT !.state = "MakingPoly", !.seenPolys = c.seenPolys + 1,
                         !.claimedTerms = n, !.seenTerms = 0]
      IN  /\ d \in Checkers /\ d.state = "MakingPoly"
          /\ d.claimedPolys = c.claimedPolys /\ d.seenPolys = c.seenPolys + 1
          /\ d.claimedTerms = n /\ d.seenTerms = 0
  BY <1>1, <1>2, Zenon
<1> QED
  BY <1>3, <1>4, Zenon

LEMMA TermBegunIs ==
  ASSUME NEW c \in Checkers
  PROVE  LET d == TermBegun(c)
         IN  /\ d \in Checkers /\ d.state = "MakingTerm"
             /\ d.claimedPolys = c.claimedPolys /\ d.seenPolys = c.seenPolys
             /\ d.claimedTerms = c.claimedTerms /\ d.seenTerms = c.seenTerms + 1
             /\ d.lastVar = NoVar
<1>0. NoVar \in Int
  BY DEF NoVar
<1>1. ASSUME NEW k \in Nat
      PROVE  LET d == [c EXCEPT !.state = "MakingTerm", !.seenTerms = k, !.lastVar = NoVar]
             IN  /\ d \in Checkers /\ d.state = "MakingTerm"
                 /\ d.claimedPolys = c.claimedPolys /\ d.seenPolys = c.seenPolys
                 /\ d.claimedTerms = c.claimedTerms /\ d.seenTerms = k
                 /\ d.lastVar = NoVar
  BY <1>0 DEF Checkers
<1>2. c.seenTerms + 1 \in Nat
  BY DEF Checkers
<1>3. TermBegun(c) = [c EXCEPT !.state = "MakingTerm", !.seenTerms = c.seenTerms + 1,
                               !.lastVar = NoVar]
  BY Zenon DEF TermBegun
<1>4. LET d == [c EXCEPT !.state = "MakingTerm", !.seenTerms = c.seenTerms + 1,
                         !.lastVar = NoVar]
      IN  /\ d \in Checkers /\ d.state = "MakingTerm"
          /\ d.claimedPolys = c.claimedPolys /\ d.seenPolys = c.seenPolys
          /\ d.claimedTerms = c.claimedTerms /\ d.seenTerms = c.seenTerms + 1
          /\ d.lastVar = NoVar
  BY <1>1, <1>2, Zenon
<1> QED
  BY <1>3, <1>4, Zenon

LEMMA StateChanges ==
  ASSUME NEW c \in Checkers,
         NEW s \in {"Initial", "MakingIdeal", "MakingPoly", "MakingTerm", "HasIdeal"}
  PROVE  LET d == [c EXCEPT !.state = s]
         IN  /\ d \in Checkers /\ d.state = s
             /\ d.claimedPolys = c.claimedPolys /\ d.seenPolys = c.seenPolys
             /\ d.claimedTerms = c.claimedTerms /\ d.seenTerms = c.seenTerms
  BY DEF Checkers

LEMMA IdealBegunIs ==
  ASSUME NEW c \in Checkers, NEW n \in Int
  PROVE  LET d == IdealBegun(c, n)
         IN  /\ d \in Checkers /\ d.state = "MakingIdeal"
             /\ d.claimedPolys = n /\ d.seenPolys = 0
  BY DEF Checkers, IdealBegun

LEMMA ExponentAppendedIs ==
  ASSUME NEW c \in Checkers, NEW v \in Int
  PROVE  LET d == ExponentAppended(c, v)
         IN  /\ d \in Checkers /\ d.state = c.state /\ d.lastVar = v
             /\ d.claimedPolys = c.claimedPolys /\ d.seenPolys = c.seenPolys
             /\ d.claimedTerms = c.claimedTerms /\ d.seenTerms = c.seenTerms
  BY DEF Checkers, ExponentAppended

IsList(s) == \E S : s \in Seq(S)

LEMMA AppendGrows ==
  ASSUME NEW s, IsList(s), NEW x
  PROVE  /\ IsList(Append(s, x)) /\ Len(Append(s, x)) = Len(s) + 1 /\ Len(s) \in Nat
         /\ Append(s, x)[Len(s) + 1] = x
         /\ \A i \in 1..Len(s) : Append(s, x)[i] = s[i]
<1>1. PICK S : s \in Seq(S)
  BY DEF IsList
<1>2. s \in Seq(S \cup {x})
  BY <1>1
<1>3. /\ Append(s, x) \in Seq(S \cup {x}) /\ Len(Append(s, x)) = Len(s) + 1 /\ Len(s) \in Nat
      /\ Append(s, x)[Len(s) + 1] = x
      /\ \A i \in 1..Len(s) : Append(s, x)[i] = s[i]
  BY <1>2
<1> QED
  BY <1>3 DEF IsList

LEMMA NothingIsList == IsList(<<>>) /\ Len(<<>>) = 0
<1>1. <<>> \in Seq({}) /\ Len(<<>>) = 0
  OBVIOUS
<1> QED
  BY <1>1 DEF IsList

LEMMA SortingKeepsLength ==
  ASSUME NEW p, IsList(p)
  PROVE  Len(TermsDescending(p)) = Len(p)
<1> DEFINE n == Len(p)
           order == CHOOSE q \in [1..n -> 1..n] :
                      /\ IsInjective(q)
                      /\ \A i, j \in 1..n : i < j => ~LessThan(p[q[i]], p[q[j]])
           sorted == [i \in 1..n |-> p[order[i]]]
           S == {p[order[i]] : i \in 1..n}
<1>1. n \in Nat
  BY AppendGrows
<1>2. TermsDescending(p) = IF TermsAreInDescendingOrder(p) THEN p ELSE sorted
  BY DEF TermsDescending
<1> HIDE DEF n, order
<1>3. sorted \in [1..n -> S]
  OBVIOUS
<1>4. sorted \in Seq(S)
  BY <1>1, <1>3, SeqDef
<1>5. DOMAIN sorted = 1..n
  OBVIOUS
<1> HIDE DEF sorted
<1>6. Len(sorted) = n
  BY <1>1, <1>4, <1>5, LenProperties
<1> QED
  BY <1>2, <1>6 DEF n

(* What the checker has counted is what the stream holds, and its claims   *)
(* are those of the client.                                                *)
StreamIsCounted ==
  /\ checker \in Checkers
  /\ IsList(poly) /\ IsList(basis) /\ IsList(sent.claims)
  /\ sent = Sent(sent.polys, sent.terms, sent.polyCount, sent.termCount, sent.claims)
  /\ Len(basis) = Len(sent.claims)
  /\ \A i \in 1..Len(basis) :
       sent.claims[i] # NoClaim => Len(basis[i]) = sent.claims[i]
  /\ checker.state \in {"Initial", "MakingIdeal", "HasIdeal"} => poly = <<>>
  /\ checker.state = "MakingPoly" => Len(poly) = checker.seenTerms
  /\ checker.state = "MakingTerm" => Len(poly) = checker.seenTerms - 1
  /\ checker.state \in {"MakingPoly", "MakingTerm"} =>
       /\ checker.claimedTerms = sent.termCount
       /\ Len(basis) = checker.seenPolys - 1
  /\ checker.state \in {"MakingIdeal", "HasIdeal"} => Len(basis) = checker.seenPolys
  /\ checker.state # "Initial" => checker.claimedPolys = sent.polyCount
  /\ checker.state = "HasIdeal" /\ checker.claimedPolys # NoClaim =>
       checker.seenPolys = checker.claimedPolys

LEMMA InitCounts == Init => StreamIsCounted
<1> SUFFICES ASSUME Init
             PROVE  StreamIsCounted
  OBVIOUS
<1>1. checker \in Checkers /\ checker.state = "Initial"
  BY DEF Init, NewChecker, NoClaim, NoVar, Checkers
<1>2. poly = <<>> /\ basis = <<>> /\ sent = Sent(<<>>, <<>>, NoClaim, NoClaim, <<>>)
  BY DEF Init
<1>3. sent.claims = <<>>
  BY <1>2 DEF Sent
<1>4. sent = Sent(sent.polys, sent.terms, sent.polyCount, sent.termCount, sent.claims)
  BY <1>2 DEF Sent
<1>5. \A i \in 1..Len(basis) : FALSE
  BY <1>2, NothingIsList
<1> QED
  BY <1>1, <1>2, <1>3, <1>4, <1>5, NothingIsList DEF StreamIsCounted

(* What the calls on the input do to it *)
InputStep ==
  \/ \E n \in Claims : IdealBegin(n)
  \/ \E n \in Claims : AppendPolynomialBegin(n)
  \/ \E com \in 0..conf.comCount : AppendTermBegin(com)
  \/ \E index \in 0..conf.varCount, e \in Exponents : AppendExponent(index, e)
  \/ \E coef \in {0, 1, conf.modulus} : AppendTermDone(coef)
  \/ AppendPolynomialDone
  \/ IdealDone

LEMMA StepKeepsCount ==
  ASSUME StreamIsCounted, InputStep
  PROVE  StreamIsCounted'
<1> USE DEF NoClaim, NoVar
<1>1. CASE \E n \in Claims : IdealBegin(n)
  <2>1. PICK n \in Claims : IdealBegin(n)
    BY <1>1
  <2>2. n \in Int
    BY DEF Claims
  <2>3. /\ checker' = IdealBegun(checker, n)
        /\ sent' = [sent EXCEPT !.polyCount = n]
        /\ basis = <<>> /\ poly' = poly /\ poly = <<>> /\ basis' = basis
    BY <2>1 DEF IdealBegin
  <2>4. /\ checker' \in Checkers /\ checker'.state = "MakingIdeal"
        /\ checker'.seenPolys = 0 /\ checker'.claimedPolys = n
    <3>1. checker \in Checkers
      BY DEF StreamIsCounted
    <3> QED
      BY <2>2, <2>3, <3>1, IdealBegunIs
  <2>5. /\ sent' = Sent(sent'.polys, sent'.terms, sent'.polyCount, sent'.termCount,
                        sent'.claims)
        /\ sent'.polyCount = n /\ sent'.claims = sent.claims
    BY <2>3 DEF StreamIsCounted, Sent
  <2>6. Len(basis) = 0
    BY <2>3, NothingIsList
  <2> QED
    BY <2>3, <2>4, <2>5, <2>6 DEF StreamIsCounted
<1>2. CASE \E n \in Claims : AppendPolynomialBegin(n)
  <2>1. PICK n \in Claims : AppendPolynomialBegin(n)
    BY <1>2
  <2>2. n \in Int
    BY DEF Claims
  <2>3. /\ checker' = PolynomialBegun(checker, n) /\ checker.state = "MakingIdeal"
        /\ sent' = [sent EXCEPT !.terms = <<>>, !.termCount = n]
        /\ poly' = poly /\ basis' = basis
    BY <2>1 DEF AppendPolynomialBegin, MayBeginPolynomial
  <2>4. /\ checker' \in Checkers /\ checker'.state = "MakingPoly"
        /\ checker'.seenPolys = checker.seenPolys + 1 /\ checker'.seenTerms = 0
        /\ checker'.claimedTerms = n /\ checker'.claimedPolys = checker.claimedPolys
    <3>1. checker \in Checkers
      BY DEF StreamIsCounted
    <3> QED
      BY <2>2, <2>3, <3>1, PolynomialBegunIs
  <2>5. /\ sent' = Sent(sent'.polys, sent'.terms, sent'.polyCount, sent'.termCount,
                        sent'.claims)
        /\ sent'.polyCount = sent.polyCount /\ sent'.termCount = n
        /\ sent'.claims = sent.claims
    BY <2>3 DEF StreamIsCounted, Sent
  <2>6. Len(poly') = 0
    BY <2>3, NothingIsList DEF StreamIsCounted
  <2>7. Len(basis) = (checker.seenPolys + 1) - 1
    BY <2>3 DEF StreamIsCounted, Checkers
  <2> QED
    BY <2>3, <2>4, <2>5, <2>6, <2>7 DEF StreamIsCounted
<1>3. CASE \E com \in 0..conf.comCount : AppendTermBegin(com)
  <2>1. PICK com \in 0..conf.comCount : AppendTermBegin(com)
    BY <1>3
  <2>2. /\ checker' = TermBegun(checker) /\ checker.state = "MakingPoly"
        /\ \E x : sent' = [sent EXCEPT !.terms = x]
        /\ poly' = poly /\ basis' = basis
    BY <2>1 DEF AppendTermBegin, MayBeginTerm
  <2>3. /\ checker' \in Checkers /\ checker'.state = "MakingTerm"
        /\ checker'.seenPolys = checker.seenPolys
        /\ checker'.seenTerms = checker.seenTerms + 1
        /\ checker'.claimedTerms = checker.claimedTerms
        /\ checker'.claimedPolys = checker.claimedPolys
    <3>1. checker \in Checkers
      BY DEF StreamIsCounted
    <3> QED
      BY <2>2, <3>1, TermBegunIs
  <2>4. /\ sent' = Sent(sent'.polys, sent'.terms, sent'.polyCount, sent'.termCount,
                        sent'.claims)
        /\ sent'.polyCount = sent.polyCount /\ sent'.termCount = sent.termCount
        /\ sent'.claims = sent.claims
    BY <2>2 DEF StreamIsCounted, Sent
  <2>5. Len(poly) = (checker.seenTerms + 1) - 1
    BY <2>2 DEF StreamIsCounted, Checkers
  <2> QED
    BY <2>2, <2>3, <2>4, <2>5 DEF StreamIsCounted
<1>4. CASE \E index \in 0..conf.varCount, e \in Exponents : AppendExponent(index, e)
  <2>1. PICK index \in 0..conf.varCount, e \in Exponents : AppendExponent(index, e)
    BY <1>4
  <2>2. /\ checker' = ExponentAppended(checker, index) /\ checker.state = "MakingTerm"
        /\ poly' = poly /\ basis' = basis
    BY <2>1 DEF AppendExponent, MayAppendExponent
  <2>3. sent' = [sent EXCEPT !.terms[Len(sent.terms)].exps[index] = e]
    BY <2>1 DEF AppendExponent
  <2>4. /\ checker' \in Checkers /\ checker'.state = "MakingTerm"
        /\ checker'.seenPolys = checker.seenPolys
        /\ checker'.seenTerms = checker.seenTerms
        /\ checker'.claimedTerms = checker.claimedTerms
        /\ checker'.claimedPolys = checker.claimedPolys
    <3>1. checker \in Checkers /\ index \in Int
      BY DEF StreamIsCounted
    <3>2. LET d == ExponentAppended(checker, index)
          IN  /\ d \in Checkers /\ d.state = checker.state
              /\ d.claimedPolys = checker.claimedPolys /\ d.seenPolys = checker.seenPolys
              /\ d.claimedTerms = checker.claimedTerms /\ d.seenTerms = checker.seenTerms
      BY <3>1, ExponentAppendedIs
    <3> QED
      BY <2>2, <3>2
  <2>5. /\ sent' = Sent(sent'.polys, sent'.terms, sent'.polyCount, sent'.termCount,
                        sent'.claims)
        /\ sent'.polyCount = sent.polyCount /\ sent'.termCount = sent.termCount
        /\ sent'.claims = sent.claims
    BY <2>3 DEF StreamIsCounted, Sent
  <2> QED
    BY <2>2, <2>4, <2>5 DEF StreamIsCounted
<1>5. CASE \E coef \in {0, 1, conf.modulus} : AppendTermDone(coef)
  <2>1. PICK coef \in {0, 1, conf.modulus} : AppendTermDone(coef)
    BY <1>5
  <2>2. /\ checker' = TermEnded(checker) /\ checker.state = "MakingTerm"
        /\ \E x : poly' = Append(poly, x)
        /\ basis' = basis
    BY <2>1 DEF AppendTermDone, MayEndTerm
  <2>3. sent' = [sent EXCEPT !.terms[Len(sent.terms)].coef = coef]
    BY <2>1 DEF AppendTermDone
  <2>4. /\ checker' \in Checkers /\ checker'.state = "MakingPoly"
        /\ checker'.seenPolys = checker.seenPolys
        /\ checker'.seenTerms = checker.seenTerms
        /\ checker'.claimedTerms = checker.claimedTerms
        /\ checker'.claimedPolys = checker.claimedPolys
    <3>1. LET d == TermEnded(checker)
          IN  /\ d \in Checkers /\ d.state = "MakingPoly"
              /\ d.claimedPolys = checker.claimedPolys /\ d.seenPolys = checker.seenPolys
              /\ d.claimedTerms = checker.claimedTerms /\ d.seenTerms = checker.seenTerms
      BY StateChanges DEF StreamIsCounted, TermEnded
    <3> QED
      BY <2>2, <3>1
  <2>5. /\ sent' = Sent(sent'.polys, sent'.terms, sent'.polyCount, sent'.termCount,
                        sent'.claims)
        /\ sent'.polyCount = sent.polyCount /\ sent'.termCount = sent.termCount
        /\ sent'.claims = sent.claims
    BY <2>3 DEF StreamIsCounted, Sent
  <2>6. IsList(poly') /\ Len(poly') = Len(poly) + 1 /\ Len(poly) \in Nat
    BY <2>2, AppendGrows DEF StreamIsCounted
  <2>7. Len(poly') = checker.seenTerms
    BY <2>2, <2>6 DEF StreamIsCounted, Checkers
  <2> QED
    BY <2>2, <2>4, <2>5, <2>6, <2>7 DEF StreamIsCounted
<1>6. CASE AppendPolynomialDone
  <2>1. /\ checker' = PolynomialEnded(checker) /\ checker.state = "MakingPoly"
        /\ checker.claimedTerms # NoClaim => checker.seenTerms = checker.claimedTerms
        /\ poly' = <<>> /\ basis' = Append(basis, TermsDescending(poly))
        /\ sent' = [sent EXCEPT !.polys = Append(@, sent.terms),
                                !.claims = Append(@, sent.termCount)]
    BY <1>6 DEF AppendPolynomialDone, MayEndPolynomial
  <2>2. /\ checker' \in Checkers /\ checker'.state = "MakingIdeal"
        /\ checker'.seenPolys = checker.seenPolys
        /\ checker'.claimedPolys = checker.claimedPolys
    <3>1. LET d == PolynomialEnded(checker)
          IN  /\ d \in Checkers /\ d.state = "MakingIdeal"
              /\ d.claimedPolys = checker.claimedPolys /\ d.seenPolys = checker.seenPolys
              /\ d.claimedTerms = checker.claimedTerms /\ d.seenTerms = checker.seenTerms
      BY StateChanges DEF StreamIsCounted, PolynomialEnded
    <3> QED
      BY <2>1, <3>1
  <2>3. /\ sent' = Sent(sent'.polys, sent'.terms, sent'.polyCount, sent'.termCount,
                        sent'.claims)
        /\ sent'.polyCount = sent.polyCount
        /\ sent'.claims = Append(sent.claims, sent.termCount)
    BY <2>1 DEF StreamIsCounted, Sent
  <2>4. /\ IsList(basis') /\ Len(basis') = Len(basis) + 1 /\ Len(basis) \in Nat
        /\ basis'[Len(basis) + 1] = TermsDescending(poly)
        /\ \A i \in 1..Len(basis) : basis'[i] = basis[i]
    BY <2>1, AppendGrows DEF StreamIsCounted
  <2>5. /\ IsList(sent'.claims) /\ Len(sent'.claims) = Len(sent.claims) + 1
        /\ sent'.claims[Len(sent.claims) + 1] = sent.termCount
        /\ \A i \in 1..Len(sent.claims) : sent'.claims[i] = sent.claims[i]
    BY <2>3, AppendGrows DEF StreamIsCounted
  <2>6. sent.termCount # NoClaim => Len(TermsDescending(poly)) = sent.termCount
    BY <2>1, SortingKeepsLength DEF StreamIsCounted
  <2>7. ASSUME NEW i \in 1..Len(basis'), sent'.claims[i] # NoClaim
        PROVE  Len(basis'[i]) = sent'.claims[i]
    <3>1. Len(sent.claims) = Len(basis)
      BY DEF StreamIsCounted
    <3>2. CASE i = Len(basis) + 1
      BY <2>4, <2>5, <2>6, <2>7, <3>1, <3>2
    <3>3. CASE i \in 1..Len(basis)
      <4>1. basis'[i] = basis[i] /\ sent'.claims[i] = sent.claims[i]
        BY <2>4, <2>5, <3>1, <3>3
      <4> QED
        BY <2>7, <3>3, <4>1 DEF StreamIsCounted
    <3> QED
      BY <2>4, <3>2, <3>3
  <2>8. Len(basis') = checker.seenPolys
    BY <2>1, <2>4 DEF StreamIsCounted, Checkers
  <2> QED
    BY <2>1, <2>2, <2>3, <2>4, <2>5, <2>7, <2>8, NothingIsList DEF StreamIsCounted
<1>7. CASE IdealDone
  <2>1. /\ checker' = IdealEnded(checker) /\ checker.state = "MakingIdeal"
        /\ checker.claimedPolys # NoClaim => checker.seenPolys = checker.claimedPolys
        /\ poly' = poly /\ basis' = basis /\ sent' = sent
    BY <1>7 DEF IdealDone, MayEndIdeal
  <2>2. /\ checker' \in Checkers /\ checker'.state = "HasIdeal"
        /\ checker'.seenPolys = checker.seenPolys
        /\ checker'.claimedPolys = checker.claimedPolys
    <3>1. LET d == IdealEnded(checker)
          IN  /\ d \in Checkers /\ d.state = "HasIdeal"
              /\ d.claimedPolys = checker.claimedPolys /\ d.seenPolys = checker.seenPolys
              /\ d.claimedTerms = checker.claimedTerms /\ d.seenTerms = checker.seenTerms
      BY StateChanges DEF StreamIsCounted, IdealEnded
    <3> QED
      BY <2>1, <3>1
  <2> QED
    BY <2>1, <2>2 DEF StreamIsCounted
<1> QED
  BY <1>1, <1>2, <1>3, <1>4, <1>5, <1>6, <1>7 DEF InputStep

(* Whatever does not call the stream leaves it alone. *)
LEMMA NextIs ==
  ASSUME [Next]_vars
  PROVE  InputStep \/ UNCHANGED <<checker, poly, basis, sent>>
<1>1. UNCHANGED input => UNCHANGED <<checker, poly, basis, sent>>
  BY DEF input
<1>2. UNCHANGED vars => UNCHANGED <<checker, poly, basis, sent>>
  BY DEF vars
<1> QED
  BY <1>1, <1>2 DEF Next, InputStep, SetMonomialOrder, SetComponentBefore, MakeStream,
     Compute, Callback, CallNull, ComputeDone, OutputIdealBegin, OutputPolynomialBegin,
     OutputTerm, OutputPolynomialDone, OutputIdealDone

LEMMA CountHolds == Spec => []StreamIsCounted
<1>1. Init => StreamIsCounted
  BY InitCounts
<1>2. StreamIsCounted /\ [Next]_vars => StreamIsCounted'
  BY StepKeepsCount, NextIs DEF StreamIsCounted
<1> QED
  BY <1>1, <1>2, PTL DEF Spec

(* The checker counts calls and knows nothing of what the stream holds,    *)
(* and yet, whatever the client calls: between polynomials the stream has  *)
(* none begun, which its asserts rely on; each polynomial has exactly as   *)
(* many terms as were announced for it; a complete ideal has as many       *)
(* polynomials.                                                            *)
THEOREM ClaimsHold == Spec => []ClaimsAreKept
<1>1. StreamIsCounted => ClaimsAreKept
  BY DEF StreamIsCounted, ClaimsAreKept, Checkers
<1> QED
  BY <1>1, CountHolds, PTL

-----------------------------------------------------------------------------
(* The way out *)

LEMMA FirstNonZeroIs ==
  ASSUME NEW gb, Len(gb) \in Nat, NEW i \in 1 .. Len(gb) + 1
  PROVE  LET f == FirstNonZero(gb, i)
         IN  /\ f \in i .. Len(gb) + 1
             /\ f = Len(gb) + 1 \/ gb[f] # <<>>
             /\ \A j \in i .. f - 1 : gb[j] = <<>>
<1> DEFINE S == {j \in i .. Len(gb) + 1 : j = Len(gb) + 1 \/ gb[j] # <<>>}
           f == Min(S)
<1>1. S \subseteq Nat /\ Len(gb) + 1 \in S
  OBVIOUS
<1>2. f \in S /\ \A j \in S : f <= j
  BY <1>1, MinIs
<1>3. FirstNonZero(gb, i) = f
  BY DEF FirstNonZero
<1> HIDE DEF f
<1>4. ASSUME NEW j \in i .. f - 1
      PROVE  gb[j] = <<>>
  BY <1>2
<1> QED
  BY <1>2, <1>3, <1>4

(* A polynomial with terms is found itself, and one without is passed over. *)
LEMMA FirstNonZeroSteps ==
  ASSUME NEW gb, Len(gb) \in Nat, NEW i \in 1..Len(gb)
  PROVE  FirstNonZero(gb, i) = IF gb[i] = <<>> THEN FirstNonZero(gb, i + 1) ELSE i
<1>1. i \in 1 .. Len(gb) + 1 /\ i + 1 \in 1 .. Len(gb) + 1
  OBVIOUS
<1> DEFINE f == FirstNonZero(gb, i)
           g == FirstNonZero(gb, i + 1)
<1>2. /\ f \in i .. Len(gb) + 1 /\ (f = Len(gb) + 1 \/ gb[f] # <<>>)
      /\ \A j \in i .. f - 1 : gb[j] = <<>>
  BY <1>1, FirstNonZeroIs
<1>3. /\ g \in i + 1 .. Len(gb) + 1 /\ (g = Len(gb) + 1 \/ gb[g] # <<>>)
      /\ \A j \in i + 1 .. g - 1 : gb[j] = <<>>
  BY <1>1, FirstNonZeroIs
<1> HIDE DEF f, g
<1>4. CASE gb[i] # <<>>
  BY <1>2, <1>4 DEF f
<1>5. CASE gb[i] = <<>>
  <2>1. f # i
    BY <1>5, <1>2
  <2>2. ~(f < g)
    BY <1>2, <1>3, <2>1
  <2>3. ~(g < f)
    BY <1>2, <1>3
  <2> QED
    BY <1>2, <1>3, <2>2, <2>3, <1>5 DEF f, g
<1> QED
  BY <1>4, <1>5

IsOutput(o) ==
  o = [checker |-> o.checker, polyIndex |-> o.polyIndex, termIndex |-> o.termIndex,
       polys |-> o.polys, ok |-> o.ok]

Output(c, i, t, ps, k) ==
  [checker |-> c, polyIndex |-> i, termIndex |-> t, polys |-> ps, ok |-> k]

(* The loop is about to begin polynomial out.polyIndex, or to end the      *)
(* ideal.                                                                  *)
BetweenPolynomials ==
  LET gb == adapter.basis
  IN  /\ out.checker.state = "MakingIdeal"
      /\ out.checker.claimedPolys = Len(gb)
      /\ out.checker.seenPolys = out.polyIndex - 1
      /\ Len(out.polys) = out.polyIndex - 1
      /\ \A i \in 1 .. out.polyIndex - 1 : out.polys[i] = gb[i]
      /\ adapter.polyIndex = FirstNonZero(gb, out.polyIndex)
      /\ adapter.term = 1

(* The loop is about to write term out.termIndex, or to end the            *)
(* polynomial.                                                             *)
InPolynomial ==
  LET gb == adapter.basis
      p == gb[out.polyIndex]
      written == out.polys[out.polyIndex]
  IN  /\ out.polyIndex <= Len(gb)
      /\ out.termIndex <= Len(p) + 1
      /\ out.checker.state = "MakingPoly"
      /\ out.checker.claimedPolys = Len(gb)
      /\ out.checker.seenPolys = out.polyIndex
      /\ out.checker.claimedTerms = Len(p)
      /\ out.checker.seenTerms = out.termIndex - 1
      /\ Len(out.polys) = out.polyIndex
      /\ \A i \in 1 .. out.polyIndex - 1 : out.polys[i] = gb[i]
      /\ Len(written) = out.termIndex - 1
      /\ \A j \in 1 .. out.termIndex - 1 : written[j] = p[j]
      /\ adapter.term =
           IF out.termIndex <= Len(p) THEN out.termIndex ELSE 1
      /\ adapter.polyIndex =
           IF out.termIndex <= Len(p) THEN out.polyIndex
           ELSE FirstNonZero(gb, out.polyIndex + 1)

IsAdapter(ad) == ad = [basis |-> ad.basis, polyIndex |-> ad.polyIndex, term |-> ad.term]

Underway ==
  /\ adapter.basis \in Results
  /\ IsAdapter(adapter)
  /\ IsOutput(out)
  /\ out.ok = TRUE
  /\ out.checker \in Checkers
  /\ out.polys \in Seq(Seq(RingTerms(conf)))
  /\ out.polyIndex \in 0 .. Len(adapter.basis) + 1
  /\ out.termIndex \in Nat
  /\ out.polyIndex = 0 =>
       /\ out.checker.state = "Initial" /\ out.termIndex = 0 /\ out.polys = <<>>
       /\ adapter.polyIndex = FirstNonZero(adapter.basis, 1) /\ adapter.term = 1
  /\ out.polyIndex # 0 /\ out.termIndex = 0 => BetweenPolynomials
  /\ out.polyIndex # 0 /\ out.termIndex # 0 => InPolynomial

(* The client only changes the order. *)
RingStays ==
  /\ conf = [modulus |-> conf.modulus, varCount |-> conf.varCount,
             comCount |-> conf.comCount, reducer |-> conf.reducer,
             callback |-> conf.callback, order |-> conf.order]
  /\ \E c \in Configurations :
       conf.modulus = c.modulus /\ conf.varCount = c.varCount /\ conf.comCount = c.comCount

OutputInv ==
  /\ RingStays
  /\ phase \notin {"output", "done"} => out = NoOutput
  /\ phase = "output" => Underway
  /\ phase = "done" => out = NoOutput \/ (out.ok = TRUE /\ out.polys = adapter.basis)

LEMMA RingFits ==
  ASSUME ResultsFit, RingStays
  PROVE  /\ Results \subseteq Seq(Seq(RingTerms(conf)))
         /\ conf.varCount \in Nat /\ conf.varCount >= 1
<1>1. PICK c \in Configurations :
        conf.modulus = c.modulus /\ conf.varCount = c.varCount /\ conf.comCount = c.comCount
  BY DEF RingStays
<1>2. RingTerms(conf) = RingTerms(c)
  BY <1>1 DEF RingTerms
<1>3. Results \subseteq Seq(Seq(RingTerms(c))) /\ c \in ConfigurationShape
  BY DEF ResultsFit
<1>4. c.varCount \in Nat \ {0}
  BY <1>3 DEF ConfigurationShape
<1> QED
  BY <1>1, <1>2, <1>3, <1>4

LEMMA BasisIs ==
  ASSUME ResultsFit, RingStays, Underway
  PROVE  /\ adapter.basis \in Seq(Seq(RingTerms(conf)))
         /\ Len(adapter.basis) \in Nat
         /\ DOMAIN adapter.basis = 1..Len(adapter.basis)
         /\ \A i \in 1..Len(adapter.basis) :
              /\ adapter.basis[i] \in Seq(RingTerms(conf))
              /\ Len(adapter.basis[i]) \in Nat
              /\ DOMAIN adapter.basis[i] = 1..Len(adapter.basis[i])
<1> DEFINE T == RingTerms(conf)
           gb == adapter.basis
<1>1. gb \in Seq(Seq(T))
  BY RingFits DEF Underway
<1> HIDE DEF T, gb
<1>2. Len(gb) \in Nat /\ DOMAIN gb = 1..Len(gb) /\ \A i \in 1..Len(gb) : gb[i] \in Seq(T)
  BY <1>1
<1>3. ASSUME NEW i \in 1..Len(gb)
      PROVE  Len(gb[i]) \in Nat /\ DOMAIN gb[i] = 1..Len(gb[i])
  BY <1>2
<1> QED
  BY <1>1, <1>2, <1>3 DEF T, gb

(* The parts of Underway that a step has to show *)
LEMMA StaysUnderway ==
  ASSUME Underway, conf' = conf, adapter'.basis = adapter.basis, IsAdapter(adapter'),
         IsOutput(out'), out'.ok = TRUE, out'.checker \in Checkers,
         out'.polys \in Seq(Seq(RingTerms(conf))),
         out'.polyIndex \in 1 .. Len(adapter.basis) + 1, out'.termIndex \in Nat,
         out'.termIndex = 0 => BetweenPolynomials', out'.termIndex # 0 => InPolynomial'
  PROVE  Underway'
<1>1. Seq(Seq(RingTerms(conf)))' = Seq(Seq(RingTerms(conf)))
  BY DEF RingTerms
<1>2. (out'.polyIndex # 0) /\ out'.polyIndex \in 0 .. Len(adapter.basis) + 1
  OBVIOUS
<1> QED
  BY <1>1, <1>2 DEF Underway, IsOutput, IsAdapter

LEMMA BeginKeeps ==
  ASSUME ResultsFit, RingStays, Underway, OutputIdealBegin
  PROVE  Underway'
<1> DEFINE gb == adapter.basis
<1>1. Len(gb) \in Nat
  BY BasisIs
<1>2. /\ out.checker \in Checkers /\ out.checker.state = "Initial" /\ out.termIndex = 0
      /\ out.polys = <<>> /\ out.ok = TRUE /\ out.polyIndex = 0
      /\ adapter.polyIndex = FirstNonZero(gb, 1) /\ adapter.term = 1
  BY DEF OutputIdealBegin, Underway
<1>3. out' = [out EXCEPT !.checker = IdealBegun(out.checker, Len(gb)), !.polyIndex = 1,
                         !.ok = out.ok /\ MayBeginIdeal(out.checker)]
  BY Zenon DEF OutputIdealBegin
<1>4. (out.ok /\ MayBeginIdeal(out.checker)) = TRUE
  BY <1>2 DEF MayBeginIdeal
<1>5. out' = Output(IdealBegun(out.checker, Len(gb)), 1, 0, <<>>, TRUE)
  BY <1>2, <1>3, <1>4 DEF Output, Underway, IsOutput
<1>6. /\ IsOutput(out') /\ out'.checker = IdealBegun(out.checker, Len(gb))
      /\ out'.polyIndex = 1 /\ out'.termIndex = 0 /\ out'.polys = <<>> /\ out'.ok = TRUE
  BY <1>5 DEF Output, IsOutput
<1>7. /\ out'.checker \in Checkers /\ out'.checker.state = "MakingIdeal"
      /\ out'.checker.claimedPolys = Len(gb) /\ out'.checker.seenPolys = 0
  <2>1. Len(gb) \in Int
    BY <1>1
  <2>2. LET d == IdealBegun(out.checker, Len(gb))
        IN  /\ d \in Checkers /\ d.state = "MakingIdeal"
            /\ d.claimedPolys = Len(gb) /\ d.seenPolys = 0
    BY <1>2, <2>1, IdealBegunIs
  <2> QED
    BY <1>6, <2>2
<1>8. adapter' = adapter /\ conf' = conf /\ IsAdapter(adapter)
  BY DEF OutputIdealBegin, Underway
<1>9. BetweenPolynomials'
  BY <1>1, <1>2, <1>6, <1>7, <1>8 DEF BetweenPolynomials
<1>10. out'.polys \in Seq(Seq(RingTerms(conf)))
  BY <1>6
<1>11. out'.polyIndex \in 1 .. Len(gb) + 1 /\ out'.termIndex \in Nat
  BY <1>1, <1>6
<1>12. IsAdapter(adapter') /\ adapter'.basis = adapter.basis
  BY <1>8
<1> QED
  BY <1>6, <1>7, <1>8, <1>9, <1>10, <1>11, <1>12, StaysUnderway

LEMMA PolynomialBeginKeeps ==
  ASSUME ResultsFit, RingStays, Underway, OutputPolynomialBegin
  PROVE  Underway'
<1> DEFINE gb == adapter.basis
           i == out.polyIndex
           n == Len(gb[i])
           c == PolynomialBegun(out.checker, n)
           ps == Append(out.polys, <<>>)
<1>1. /\ i \in 1..Len(gb) /\ out.termIndex = 0 /\ Len(gb) \in Nat
      /\ n \in Nat /\ DOMAIN gb[i] = 1..n
  BY BasisIs DEF OutputPolynomialBegin
<1>2. /\ out.checker \in Checkers /\ out.ok = TRUE /\ BetweenPolynomials
      /\ out.polys \in Seq(Seq(RingTerms(conf))) /\ IsOutput(out)
  BY <1>1 DEF Underway
<1>3. out' = [out EXCEPT !.checker = c, !.termIndex = 1, !.polys = ps,
                         !.ok = out.ok /\ MayBeginPolynomial(out.checker)]
  BY Zenon DEF OutputPolynomialBegin
<1>4. (out.ok /\ MayBeginPolynomial(out.checker)) = TRUE
  <2>1. i - 1 < Len(gb)
    BY <1>1
  <2> QED
    BY <1>2, <2>1 DEF MayBeginPolynomial, BetweenPolynomials
<1>5. out' = Output(c, i, 1, ps, TRUE)
  BY <1>2, <1>3, <1>4 DEF Output, IsOutput
<1> HIDE DEF c, ps
<1>6. /\ IsOutput(out') /\ out'.checker = c /\ out'.polyIndex = i /\ out'.termIndex = 1
      /\ out'.polys = ps /\ out'.ok = TRUE
  BY <1>5 DEF Output, IsOutput
<1>7. /\ c \in Checkers /\ c.state = "MakingPoly"
      /\ c.claimedPolys = out.checker.claimedPolys
      /\ c.seenPolys = out.checker.seenPolys + 1
      /\ c.claimedTerms = n /\ c.seenTerms = 0
  <2>1. n \in Int
    BY <1>1
  <2> QED
    BY <1>2, <2>1, PolynomialBegunIs DEF c
<1>8. /\ ps \in Seq(Seq(RingTerms(conf))) /\ Len(ps) = Len(out.polys) + 1
      /\ ps[Len(out.polys) + 1] = <<>>
      /\ \A j \in 1..Len(out.polys) : ps[j] = out.polys[j]
  <2>1. <<>> \in Seq(RingTerms(conf))
    OBVIOUS
  <2> QED
    BY <1>2, <2>1 DEF ps
<1>9. adapter' = adapter /\ conf' = conf /\ IsAdapter(adapter)
  BY DEF OutputPolynomialBegin, Underway
<1>10. /\ out.checker.claimedPolys = Len(gb) /\ out.checker.seenPolys = i - 1
       /\ Len(out.polys) = i - 1 /\ \A j \in 1 .. i - 1 : out.polys[j] = gb[j]
       /\ adapter.polyIndex = FirstNonZero(gb, i) /\ adapter.term = 1
  BY <1>2 DEF BetweenPolynomials
<1>11. /\ c.seenPolys = i /\ Len(ps) = i /\ ps[i] = <<>> /\ Len(ps[i]) = 0
       /\ \A j \in 1 .. i - 1 : ps[j] = gb[j]
  BY <1>1, <1>7, <1>8, <1>10
<1>12. adapter.polyIndex = IF 1 <= n THEN i ELSE FirstNonZero(gb, i + 1)
  <2>1. FirstNonZero(gb, i) = IF gb[i] = <<>> THEN FirstNonZero(gb, i + 1) ELSE i
    BY <1>1, FirstNonZeroSteps
  <2>2. gb[i] \in Seq(RingTerms(conf))
    BY <1>1, BasisIs
  <2>3. gb[i] = <<>> <=> ~(1 <= n)
    BY <1>1, <2>2
  <2> QED
    BY <1>10, <2>1, <2>3
<1>13. InPolynomial'
  <2>1. 1 <= n + 1 /\ 1 - 1 = 0 /\ i <= Len(gb) /\ (1 <= n \/ ~(1 <= n))
    BY <1>1
  <2>2. adapter.term = IF 1 <= n THEN 1 ELSE 1
    BY <1>10
  <2> QED
    BY <1>6, <1>7, <1>9, <1>10, <1>11, <1>12, <2>1, <2>2 DEF InPolynomial
<1>14. out'.polyIndex \in 1 .. Len(gb) + 1 /\ out'.termIndex \in Nat /\ out'.termIndex # 0
  BY <1>1, <1>6
<1>15. IsAdapter(adapter') /\ adapter'.basis = adapter.basis
  BY <1>9
<1> QED
  BY <1>6, <1>7, <1>8, <1>9, <1>13, <1>14, <1>15, StaysUnderway

(* The adapter's next term is the one that the loop asks for. *)
LEMMA TermIsCurrent ==
  ASSUME ResultsFit, RingStays, Underway, InPolynomial,
         NEW i, i = out.polyIndex, i \in 1..Len(adapter.basis),
         NEW t, t = out.termIndex, t \in 1..Len(adapter.basis[i])
  PROVE  /\ CurrentTerm(adapter) = adapter.basis[i][t]
         /\ CurrentTerm(adapter) \in RingTerms(conf)
         /\ adapter.polyIndex \in DOMAIN adapter.basis
<1> DEFINE gb == adapter.basis
<1>1. /\ Len(gb) \in Nat /\ DOMAIN gb = 1..Len(gb) /\ gb[i] \in Seq(RingTerms(conf))
      /\ Len(gb[i]) \in Nat /\ DOMAIN gb[i] = 1..Len(gb[i])
  BY BasisIs
<1>2. t <= Len(gb[i])
  BY <1>1
<1>3. adapter.polyIndex = i /\ adapter.term = t
  BY <1>2 DEF InPolynomial
<1>4. gb[i][t] \in RingTerms(conf)
  BY <1>1
<1> QED
  BY <1>1, <1>3, <1>4 DEF CurrentTerm

LEMMA NextTermIs ==
  ASSUME ResultsFit, RingStays, Underway, InPolynomial,
         NEW i, i = out.polyIndex, i \in 1..Len(adapter.basis),
         NEW t, t = out.termIndex, t \in 1..Len(adapter.basis[i])
  PROVE  LET ad == NextTerm(adapter)
         IN  /\ IsAdapter(ad) /\ ad.basis = adapter.basis
             /\ ad.term = IF t + 1 <= Len(adapter.basis[i]) THEN t + 1 ELSE 1
             /\ ad.polyIndex = IF t + 1 <= Len(adapter.basis[i]) THEN i
                               ELSE FirstNonZero(adapter.basis, i + 1)
<1> DEFINE gb == adapter.basis
           n == Len(gb[i])
<1>1. Len(gb) \in Nat /\ n \in Nat
  BY BasisIs
<1>2. t <= n
  BY <1>1
<1>3. adapter.polyIndex = i /\ adapter.term = t /\ IsAdapter(adapter)
  BY <1>2 DEF InPolynomial, Underway
<1>4. CASE t < n
  <2>1. NextTerm(adapter) = [adapter EXCEPT !.term = t + 1]
    BY <1>3, <1>4, Zenon DEF NextTerm
  <2>2. \A k : LET ad == [adapter EXCEPT !.term = k]
               IN  /\ IsAdapter(ad) /\ ad.basis = gb /\ ad.term = k
                   /\ ad.polyIndex = adapter.polyIndex
    BY <1>3 DEF IsAdapter
  <2>3. t + 1 <= n
    BY <1>1, <1>4
  <2> QED
    BY <2>1, <2>2, <2>3, <1>3, Zenon
<1>5. CASE ~(t < n)
  <2>1. NextTerm(adapter) =
          [adapter EXCEPT !.polyIndex = FirstNonZero(gb, i + 1), !.term = 1]
    BY <1>3, <1>5, Zenon DEF NextTerm
  <2>2. ASSUME NEW k
        PROVE  LET ad == [adapter EXCEPT !.polyIndex = k, !.term = 1]
               IN  /\ IsAdapter(ad) /\ ad.basis = gb /\ ad.term = 1
                   /\ ad.polyIndex = k
    <3>1. ASSUME NEW ad, ad = [adapter EXCEPT !.polyIndex = k, !.term = 1]
          PROVE  ad = [basis |-> gb, polyIndex |-> k, term |-> 1]
      BY <1>3, <3>1 DEF IsAdapter
    <3> QED
      BY <3>1 DEF IsAdapter
  <2>3. ~(t + 1 <= n)
    BY <1>1, <1>5
  <2> QED
    BY <2>1, <2>2, <2>3, Zenon
<1> QED
  BY <1>4, <1>5

(* All calls for a term of the ring pass, one for each variable among them. *)
LEMMA TermPasses ==
  ASSUME ResultsFit, RingStays, NEW term \in RingTerms(conf), NEW c \in Checkers,
         c.state = "MakingPoly", c.claimedTerms # NoClaim => c.seenTerms < c.claimedTerms
  PROVE  LET begun == TermBegun(c)
             atLast == ExponentAppended(begun, conf.varCount - 1)
         IN  /\ MayBeginTerm(c, term.com, conf)
             /\ MayAppendExponent(begun, 0, conf)
             /\ \A v \in 1 .. conf.varCount - 1 :
                  MayAppendExponent(ExponentAppended(begun, v - 1), v, conf)
             /\ MayEndTerm(atLast, term.coef, conf)
             /\ TermEnded(atLast) \in Checkers /\ TermEnded(atLast).state = "MakingPoly"
             /\ TermEnded(atLast).claimedPolys = c.claimedPolys
             /\ TermEnded(atLast).seenPolys = c.seenPolys
             /\ TermEnded(atLast).claimedTerms = c.claimedTerms
             /\ TermEnded(atLast).seenTerms = c.seenTerms + 1
<1> DEFINE begun == TermBegun(c)
           last == conf.varCount - 1
           atLast == ExponentAppended(begun, last)
<1>1. conf.varCount \in Nat /\ conf.varCount >= 1
  BY RingFits
<1>2. \E r \in Configurations :
        r \in ConfigurationShape /\ conf.modulus = r.modulus /\ conf.comCount = r.comCount
  BY DEF RingStays, ResultsFit
<1>3. conf.modulus \in Nat /\ conf.comCount \in Nat
  BY <1>2 DEF ConfigurationShape
<1>4. term.coef \in 1 .. conf.modulus - 1 /\ term.com \in 0 .. conf.comCount - 1
  BY DEF RingTerms
<1>5. /\ begun \in Checkers /\ begun.state = "MakingTerm"
      /\ begun.claimedPolys = c.claimedPolys /\ begun.seenPolys = c.seenPolys
      /\ begun.claimedTerms = c.claimedTerms /\ begun.seenTerms = c.seenTerms + 1
      /\ begun.lastVar = NoVar
  BY TermBegunIs
<1> HIDE DEF begun
<1>6. ASSUME NEW v \in Int
      PROVE  LET d == ExponentAppended(begun, v)
             IN  /\ d \in Checkers /\ d.state = begun.state /\ d.lastVar = v
                 /\ d.claimedPolys = begun.claimedPolys /\ d.seenPolys = begun.seenPolys
                 /\ d.claimedTerms = begun.claimedTerms /\ d.seenTerms = begun.seenTerms
  BY <1>5, ExponentAppendedIs
<1>7. last \in Int
  BY <1>1
<1>8. /\ atLast \in Checkers /\ atLast.state = begun.state
      /\ atLast.claimedPolys = begun.claimedPolys /\ atLast.seenPolys = begun.seenPolys
      /\ atLast.claimedTerms = begun.claimedTerms /\ atLast.seenTerms = begun.seenTerms
  BY <1>6, <1>7
<1>9. MayBeginTerm(c, term.com, conf)
  BY <1>3, <1>4 DEF MayBeginTerm
<1>10. MayAppendExponent(begun, 0, conf)
  BY <1>1, <1>5 DEF MayAppendExponent
<1>11. ASSUME NEW v \in 1 .. conf.varCount - 1
       PROVE  MayAppendExponent(ExponentAppended(begun, v - 1), v, conf)
  <2>1. v - 1 \in Int /\ v - 1 < v /\ v < conf.varCount
    BY <1>1
  <2>2. ExponentAppended(begun, v - 1).state = "MakingTerm"
        /\ ExponentAppended(begun, v - 1).lastVar = v - 1
    BY <1>5, <1>6, <2>1
  <2> QED
    BY <2>1, <2>2 DEF MayAppendExponent
<1> HIDE DEF atLast
<1>12. MayEndTerm(atLast, term.coef, conf)
  BY <1>3, <1>4, <1>5, <1>8 DEF MayEndTerm
<1>13. LET d == TermEnded(atLast)
       IN  /\ d \in Checkers /\ d.state = "MakingPoly"
           /\ d.claimedPolys = atLast.claimedPolys /\ d.seenPolys = atLast.seenPolys
           /\ d.claimedTerms = atLast.claimedTerms /\ d.seenTerms = atLast.seenTerms
  BY <1>8, StateChanges DEF TermEnded
<1> QED
  BY <1>5, <1>8, <1>9, <1>10, <1>11, <1>12, <1>13 DEF begun, atLast

LEMMA TermKeeps ==
  ASSUME ResultsFit, RingStays, Underway, OutputTerm
  PROVE  Underway'
<1> DEFINE gb == adapter.basis
           T == RingTerms(conf)
           i == out.polyIndex
           t == out.termIndex
           n == Len(gb[i])
           term == CurrentTerm(adapter)
           begun == TermBegun(out.checker)
           atLast == ExponentAppended(begun, conf.varCount - 1)
           c == TermEnded(atLast)
           w == Append(out.polys[i], term)
           ps == [out.polys EXCEPT ![i] = w]
           passes == /\ MayBeginTerm(out.checker, term.com, conf)
                     /\ MayAppendExponent(begun, 0, conf)
                     /\ \A v \in 1 .. conf.varCount - 1 :
                          MayAppendExponent(ExponentAppended(begun, v - 1), v, conf)
                     /\ MayEndTerm(atLast, term.coef, conf)
<1>1. /\ i \in 1..Len(gb) /\ t \in 1..n /\ Len(gb) \in Nat /\ n \in Nat
      /\ gb[i] \in Seq(T)
  BY BasisIs DEF OutputTerm
<1>2. /\ out.checker \in Checkers /\ out.ok = TRUE /\ out.polys \in Seq(Seq(T))
      /\ IsOutput(out)
  BY DEF Underway
<1>3. InPolynomial
  BY <1>1 DEF Underway
<1>4. /\ term = gb[i][t] /\ term \in T /\ adapter.polyIndex \in DOMAIN gb
  BY <1>1, <1>3, TermIsCurrent
<1>5. /\ out.checker.state = "MakingPoly" /\ out.checker.claimedPolys = Len(gb)
      /\ out.checker.seenPolys = i /\ out.checker.claimedTerms = n
      /\ out.checker.seenTerms = t - 1
      /\ Len(out.polys) = i /\ \A j \in 1 .. i - 1 : out.polys[j] = gb[j]
      /\ Len(out.polys[i]) = t - 1 /\ \A j \in 1 .. t - 1 : out.polys[i][j] = gb[i][j]
  BY <1>3 DEF InPolynomial
<1>6. /\ passes
      /\ c \in Checkers /\ c.state = "MakingPoly"
      /\ c.claimedPolys = out.checker.claimedPolys
      /\ c.seenPolys = out.checker.seenPolys
      /\ c.claimedTerms = out.checker.claimedTerms
      /\ c.seenTerms = out.checker.seenTerms + 1
  <2>1. out.checker.seenTerms < out.checker.claimedTerms
    BY <1>1, <1>5
  <2> QED
    BY <1>2, <1>4, <1>5, <2>1, TermPasses
<1>7. out' = [out EXCEPT !.checker = c, !.termIndex = t + 1, !.polys[i] = w,
                         !.ok = out.ok /\ passes]
  BY Zenon DEF OutputTerm
<1>8. adapter' = NextTerm(adapter) /\ conf' = conf
  BY <1>4 DEF OutputTerm
<1> HIDE DEF passes, c, w, term
<1>9. (out.ok /\ passes) = TRUE
  BY <1>2, <1>6
<1>10. out' = Output(c, i, t + 1, ps, TRUE)
  <2>1. out' = [out EXCEPT !.checker = c, !.termIndex = t + 1, !.polys = ps,
                           !.ok = TRUE]
    BY <1>7, <1>9, Zenon
  <2> HIDE DEF ps
  <2>2. ASSUME NEW k, out' = [out EXCEPT !.checker = c, !.termIndex = k, !.polys = ps,
                                         !.ok = TRUE]
        PROVE  out' = Output(c, i, k, ps, TRUE)
    BY <1>2, <2>2 DEF Output, IsOutput
  <2> QED
    BY <2>1, <2>2, Zenon
<1>11. /\ IsOutput(out') /\ out'.checker = c /\ out'.polyIndex = i
       /\ out'.termIndex = t + 1 /\ out'.polys = ps /\ out'.ok = TRUE
  BY <1>10 DEF Output, IsOutput
<1>12. /\ out.polys[i] \in Seq(T) /\ w \in Seq(T) /\ Len(w) = t /\ w[t] = gb[i][t]
       /\ \A j \in 1 .. t - 1 : w[j] = gb[i][j]
  <2>1. out.polys[i] \in Seq(T)
    BY <1>1, <1>2, <1>5
  <2>2. w \in Seq(T) /\ Len(w) = Len(out.polys[i]) + 1
        /\ w[Len(out.polys[i]) + 1] = term
        /\ \A j \in 1..Len(out.polys[i]) : w[j] = out.polys[i][j]
    BY <1>4, <2>1 DEF w
  <2>3. Len(out.polys[i]) + 1 = t
    BY <1>1, <1>5
  <2> QED
    BY <1>4, <1>5, <2>1, <2>2, <2>3
<1>13. /\ ps \in Seq(Seq(T)) /\ Len(ps) = i /\ ps[i] = w
       /\ \A j \in 1 .. i - 1 : ps[j] = gb[j]
  <2>1. i \in 1..Len(out.polys)
    BY <1>1, <1>5
  <2>2. /\ ps \in Seq(Seq(T)) /\ Len(ps) = Len(out.polys)
        /\ \A j \in 1..Len(out.polys) : ps[j] = IF j = i THEN w ELSE out.polys[j]
    BY <1>2, <1>12, <2>1, ExceptSeq
  <2>3. \A j \in 1 .. i - 1 : j \in 1..Len(out.polys) /\ j # i
    BY <1>1, <1>5
  <2> QED
    BY <1>5, <2>1, <2>2, <2>3
<1> HIDE DEF ps
<1>14. LET ad == adapter'
       IN  /\ IsAdapter(ad) /\ ad.basis = gb
           /\ ad.term = IF t + 1 <= n THEN t + 1 ELSE 1
           /\ ad.polyIndex = IF t + 1 <= n THEN i ELSE FirstNonZero(gb, i + 1)
  <2>1. LET ad == NextTerm(adapter)
        IN  /\ IsAdapter(ad) /\ ad.basis = gb
            /\ ad.term = IF t + 1 <= n THEN t + 1 ELSE 1
            /\ ad.polyIndex = IF t + 1 <= n THEN i ELSE FirstNonZero(gb, i + 1)
    BY <1>1, <1>3, NextTermIs
  <2> QED
    BY <1>8, <2>1
<1>15. c.seenTerms = (t + 1) - 1 /\ Len(w) = (t + 1) - 1 /\ t + 1 <= n + 1 /\ i <= Len(gb)
  <2>1. c.seenTerms = (t - 1) + 1
    BY <1>5, <1>6
  <2>2. t \in Int /\ t <= n /\ i <= Len(gb)
    BY <1>1
  <2>3. Len(w) = t
    BY <1>12
  <2>4. ASSUME NEW x \in Int, NEW y \in Int, x <= y
        PROVE  (x - 1) + 1 = (x + 1) - 1 /\ x = (x + 1) - 1 /\ x + 1 <= y + 1
    BY <2>4
  <2>5. n \in Int
    BY <1>1
  <2>6. (t - 1) + 1 = (t + 1) - 1 /\ t = (t + 1) - 1 /\ t + 1 <= n + 1
    BY <2>2, <2>4, <2>5, Zenon
  <2> QED
    BY <2>1, <2>2, <2>3, <2>6, Zenon
<1>16. \A j \in 1 .. (t + 1) - 1 : w[j] = gb[i][j]
  <2>1. \A x \in Int : \A j \in 1 .. (x + 1) - 1 : j = x \/ j \in 1 .. x - 1
    OBVIOUS
  <2>2. t \in Int
    BY <1>1
  <2>3. \A j \in 1 .. (t + 1) - 1 : j = t \/ j \in 1 .. t - 1
    BY <2>1, <2>2, Zenon
  <2> QED
    BY <1>12, <2>3, Zenon
<1>17. InPolynomial'
  BY <1>5, <1>6, <1>11, <1>13, <1>14, <1>15, <1>16 DEF InPolynomial
<1>18. /\ out'.polyIndex \in 1 .. Len(gb) + 1 /\ out'.termIndex \in Nat
       /\ out'.termIndex # 0
  BY <1>1, <1>11
<1> QED
  BY <1>6, <1>8, <1>11, <1>13, <1>14, <1>17, <1>18, StaysUnderway

LEMMA SequencesEqual ==
  ASSUME NEW T, NEW p \in Seq(T), NEW q \in Seq(T), Len(p) = Len(q),
         \A j \in 1..Len(p) : p[j] = q[j]
  PROVE  p = q
  BY SeqEqual

LEMMA PolynomialDoneKeeps ==
  ASSUME ResultsFit, RingStays, Underway, OutputPolynomialDone
  PROVE  Underway'
<1> DEFINE gb == adapter.basis
           T == RingTerms(conf)
           i == out.polyIndex
           n == Len(gb[i])
           c == PolynomialEnded(out.checker)
<1>1. /\ i \in 1..Len(gb) /\ out.termIndex = n + 1 /\ Len(gb) \in Nat /\ n \in Nat
      /\ gb[i] \in Seq(T)
  BY BasisIs DEF OutputPolynomialDone
<1>2. /\ out.checker \in Checkers /\ out.ok = TRUE /\ out.polys \in Seq(Seq(T))
      /\ IsOutput(out)
  BY DEF Underway
<1>3. InPolynomial
  BY <1>1 DEF Underway
<1>4. (n + 1) - 1 = n /\ ~(n + 1 <= n)
  BY <1>1
<1>5. /\ out.checker.state = "MakingPoly" /\ out.checker.claimedPolys = Len(gb)
      /\ out.checker.seenPolys = i /\ out.checker.claimedTerms = n
      /\ out.checker.seenTerms = n
      /\ Len(out.polys) = i /\ \A j \in 1 .. i - 1 : out.polys[j] = gb[j]
      /\ Len(out.polys[i]) = n /\ \A j \in 1..n : out.polys[i][j] = gb[i][j]
      /\ adapter.term = 1 /\ adapter.polyIndex = FirstNonZero(gb, i + 1)
  BY <1>1, <1>3, <1>4 DEF InPolynomial
<1>6. out.polys[i] = gb[i]
  <2>1. out.polys[i] \in Seq(T)
    BY <1>1, <1>2, <1>5
  <2> QED
    BY <1>1, <1>5, <2>1, SequencesEqual
<1>7. out' = [out EXCEPT !.checker = c, !.polyIndex = i + 1, !.termIndex = 0,
                         !.ok = out.ok /\ MayEndPolynomial(out.checker)]
  BY Zenon DEF OutputPolynomialDone
<1>8. (out.ok /\ MayEndPolynomial(out.checker)) = TRUE
  BY <1>2, <1>5 DEF MayEndPolynomial
<1>9. LET d == c
      IN  /\ d \in Checkers /\ d.state = "MakingIdeal"
          /\ d.claimedPolys = out.checker.claimedPolys
          /\ d.seenPolys = out.checker.seenPolys
  BY <1>2, StateChanges DEF PolynomialEnded
<1> HIDE DEF c
<1>10. out' = Output(c, i + 1, 0, out.polys, TRUE)
  <2>1. out' = [out EXCEPT !.checker = c, !.polyIndex = i + 1, !.termIndex = 0,
                           !.ok = TRUE]
    BY <1>7, <1>8, Zenon
  <2>2. ASSUME NEW k, out' = [out EXCEPT !.checker = c, !.polyIndex = k, !.termIndex = 0,
                                         !.ok = TRUE]
        PROVE  out' = Output(c, k, 0, out.polys, TRUE)
    BY <1>2, <2>2 DEF Output, IsOutput
  <2> QED
    BY <2>1, <2>2, Zenon
<1>11. /\ IsOutput(out') /\ out'.checker = c /\ out'.polyIndex = i + 1
       /\ out'.termIndex = 0 /\ out'.polys = out.polys /\ out'.ok = TRUE
  BY <1>10 DEF Output, IsOutput
<1>12. adapter' = adapter /\ conf' = conf /\ IsAdapter(adapter)
  BY DEF OutputPolynomialDone, Underway
<1>13. \A j \in 1 .. (i + 1) - 1 : out.polys[j] = gb[j]
  BY <1>1, <1>5, <1>6
<1>14. (i + 1) - 1 = i
  BY <1>1
<1>15. BetweenPolynomials'
  BY <1>5, <1>9, <1>11, <1>12, <1>13, <1>14 DEF BetweenPolynomials
<1>16. /\ out'.polyIndex \in 1 .. Len(gb) + 1 /\ out'.termIndex \in Nat
       /\ IsAdapter(adapter') /\ adapter'.basis = adapter.basis
  BY <1>1, <1>11, <1>12
<1> QED
  BY <1>2, <1>9, <1>11, <1>12, <1>15, <1>16, StaysUnderway

LEMMA IdealDoneEnds ==
  ASSUME ResultsFit, RingStays, Underway, OutputIdealDone
  PROVE  out'.ok = TRUE /\ out'.polys = adapter'.basis
<1> DEFINE gb == adapter.basis
           T == RingTerms(conf)
           n == Len(gb)
           c == IdealEnded(out.checker)
<1>1. /\ out.polyIndex = n + 1 /\ n \in Nat /\ gb \in Seq(Seq(T))
  BY BasisIs DEF OutputIdealDone
<1>2. /\ out.checker \in Checkers /\ out.ok = TRUE /\ out.polys \in Seq(Seq(T))
      /\ IsOutput(out)
  BY DEF Underway
<1>3. BetweenPolynomials
  <2>1. ~InPolynomial
    BY <1>1 DEF InPolynomial
  <2>2. out.polyIndex # 0
    BY <1>1
  <2> QED
    BY <2>1, <2>2 DEF Underway
<1>4. (n + 1) - 1 = n
  BY <1>1
<1>5. /\ out.checker.state = "MakingIdeal" /\ out.checker.claimedPolys = n
      /\ out.checker.seenPolys = n
      /\ Len(out.polys) = n /\ \A j \in 1..n : out.polys[j] = gb[j]
  BY <1>1, <1>3, <1>4 DEF BetweenPolynomials
<1>6. out.polys = gb
  BY <1>1, <1>2, <1>5, SequencesEqual
<1>7. (out.ok /\ MayEndIdeal(out.checker)) = TRUE
  BY <1>2, <1>5 DEF MayEndIdeal
<1>8. out' = [out EXCEPT !.checker = c, !.ok = out.ok /\ MayEndIdeal(out.checker)]
  BY Zenon DEF OutputIdealDone
<1>9. out' = Output(c, out.polyIndex, out.termIndex, out.polys, TRUE)
  BY <1>2, <1>7, <1>8 DEF Output, IsOutput
<1>10. adapter' = adapter
  BY DEF OutputIdealDone
<1> QED
  BY <1>6, <1>9, <1>10 DEF Output

LEMMA ComputeDoneBegins ==
  ASSUME ResultsFit, OutputInv, NEW gb \in Results, ComputeDone(gb)
  PROVE  OutputInv'
<1>1. phase = "compute" /\ out = NoOutput /\ conf' = conf /\ RingStays
  BY DEF ComputeDone, OutputInv
<1>2. RingStays'
  BY <1>1 DEF RingStays
<1>3. CASE HasOutput
  <2>1. /\ phase' = "output" /\ out' = NoOutput
        /\ adapter' = [basis |-> gb, polyIndex |-> FirstNonZero(gb, 1), term |-> 1]
    BY <1>3 DEF ComputeDone
  <2>2. /\ IsAdapter(adapter') /\ adapter'.basis = gb
        /\ adapter'.polyIndex = FirstNonZero(gb, 1) /\ adapter'.term = 1
    BY <2>1 DEF IsAdapter
  <2>3. NewChecker \in Checkers /\ NewChecker.state = "Initial"
    BY DEF NewChecker, Checkers, NoClaim, NoVar
  <2>4. out' = Output(NewChecker, 0, 0, <<>>, TRUE)
    BY <2>1 DEF NoOutput, Output
  <2>5. /\ IsOutput(out') /\ out'.checker = NewChecker /\ out'.polyIndex = 0
        /\ out'.termIndex = 0 /\ out'.polys = <<>> /\ out'.ok = TRUE
    BY <2>4 DEF Output, IsOutput
  <2>6. Len(gb) \in Nat
    <3>1. gb \in Seq(Seq(RingTerms(conf)))
      BY <1>1, RingFits
    <3> QED
      BY <3>1
  <2>7. out'.polyIndex \in 0 .. Len(gb) + 1 /\ out'.termIndex \in Nat
        /\ out'.polys \in Seq(Seq(RingTerms(conf)))'
    BY <2>5, <2>6
  <2>8. Underway'
    BY <2>2, <2>3, <2>5, <2>7 DEF Underway, IsAdapter, IsOutput
  <2> QED
    BY <1>2, <2>1, <2>8 DEF OutputInv
<1>4. CASE ~HasOutput
  <2>1. phase' = "done" /\ out' = NoOutput
    BY <1>1, <1>4 DEF ComputeDone
  <2> QED
    BY <1>2, <2>1 DEF OutputInv
<1> QED
  BY <1>3, <1>4

LEMMA ConfigureKeeps ==
  ASSUME RingStays, NEW b, NEW g, NEW v,
         \/ conf' = [conf EXCEPT !.order.base = b, !.order.gradings = g]
         \/ conf' = [conf EXCEPT !.order.componentBefore = v]
  PROVE  RingStays'
<1>1. /\ conf'.modulus = conf.modulus /\ conf'.varCount = conf.varCount
      /\ conf'.comCount = conf.comCount
      /\ conf' = [modulus |-> conf'.modulus, varCount |-> conf'.varCount,
                  comCount |-> conf'.comCount, reducer |-> conf'.reducer,
                  callback |-> conf'.callback, order |-> conf'.order]
  BY DEF RingStays
<1> QED
  BY <1>1 DEF RingStays

LEMMA InitOutputs == ResultsFit /\ Init => OutputInv
<1> SUFFICES ASSUME ResultsFit, Init
             PROVE  OutputInv
  OBVIOUS
<1>1. conf \in Configurations /\ phase = "configure" /\ out = NoOutput
  BY DEF Init
<1>2. conf \in ConfigurationShape
  BY <1>1 DEF ResultsFit
<1>3. conf = [modulus |-> conf.modulus, varCount |-> conf.varCount,
             comCount |-> conf.comCount, reducer |-> conf.reducer,
             callback |-> conf.callback, order |-> conf.order]
  BY <1>2 DEF ConfigurationShape
<1> QED
  BY <1>1, <1>3 DEF OutputInv, RingStays

LEMMA StepKeepsOutput ==
  ASSUME ResultsFit, OutputInv, [Next]_vars
  PROVE  OutputInv'
<1>1. CASE \E order \in Orders : SetMonomialOrder(order)
  <2>1. PICK order \in Orders : SetMonomialOrder(order)
    BY <1>1
  <2>2. /\ conf' = [conf EXCEPT !.order.base = order.base, !.order.gradings = order.gradings]
        /\ phase = "configure" /\ phase' = phase /\ out' = out
    BY <2>1 DEF SetMonomialOrder
  <2>3. RingStays'
    BY <2>2, ConfigureKeeps DEF OutputInv
  <2> QED
    BY <2>2, <2>3 DEF OutputInv
<1>2. CASE \E value \in {0, 1} : SetComponentBefore(value)
  <2>1. PICK value \in {0, 1} : SetComponentBefore(value)
    BY <1>2
  <2>2. /\ conf' = [conf EXCEPT !.order.componentBefore = value]
        /\ phase = "configure" /\ phase' = phase /\ out' = out
    BY <2>1 DEF SetComponentBefore
  <2>3. RingStays'
    BY <2>2, ConfigureKeeps DEF OutputInv
  <2> QED
    BY <2>2, <2>3 DEF OutputInv
<1>3. ASSUME conf' = conf, out' = NoOutput, phase' \notin {"output", "done"}
      PROVE  OutputInv'
  BY <1>3 DEF OutputInv, RingStays
<1>4. ASSUME conf' = conf, out' = out, adapter' = adapter, phase' = phase
      PROVE  OutputInv'
  BY <1>4 DEF OutputInv, RingStays, Underway, BetweenPolynomials, InPolynomial, RingTerms
<1>5. ASSUME conf' = conf, out' = out, phase \notin {"output", "done"},
             phase' \notin {"output", "done"}
      PROVE  OutputInv'
  BY <1>5 DEF OutputInv, RingStays
<1>6. CASE MakeStream \/ Compute \/ CallNull
  <2>1. /\ conf' = conf /\ out' = out /\ phase \notin {"output", "done"}
        /\ phase' \notin {"output", "done"}
    BY <1>6 DEF MakeStream, Compute, CallNull
  <2> QED
    BY <1>5, <2>1
<1>7. CASE \E n \in Claims : IdealBegin(n)
  BY <1>3, <1>7 DEF IdealBegin
<1>8. CASE \/ \E n \in Claims : AppendPolynomialBegin(n)
           \/ \E com \in 0..conf.comCount : AppendTermBegin(com)
           \/ \E index \in 0..conf.varCount, e \in Exponents : AppendExponent(index, e)
           \/ \E coef \in {0, 1, conf.modulus} : AppendTermDone(coef)
           \/ AppendPolynomialDone \/ IdealDone
           \/ \E action \in Actions : Callback(action)
           \/ UNCHANGED vars
  <2>1. conf' = conf /\ out' = out /\ adapter' = adapter /\ phase' = phase
    BY <1>8 DEF AppendPolynomialBegin, AppendTermBegin, AppendExponent, AppendTermDone,
       AppendPolynomialDone, IdealDone, Callback, vars
  <2> QED
    BY <1>4, <2>1
<1>9. CASE \E gb \in Results : ComputeDone(gb)
  BY <1>9, ComputeDoneBegins
<1>10. CASE OutputIdealBegin \/ OutputPolynomialBegin \/ OutputTerm \/ OutputPolynomialDone
  <2>1. phase = "output" /\ phase' = phase /\ conf' = conf
    BY <1>10 DEF OutputIdealBegin, OutputPolynomialBegin, OutputTerm, OutputPolynomialDone
  <2>2. Underway /\ RingStays
    BY <2>1 DEF OutputInv
  <2>3. Underway'
    BY <1>10, <2>2, BeginKeeps, PolynomialBeginKeeps, TermKeeps, PolynomialDoneKeeps
  <2> QED
    BY <2>1, <2>2, <2>3 DEF OutputInv, RingStays
<1>11. CASE OutputIdealDone
  <2>1. phase = "output" /\ phase' = "done" /\ conf' = conf
    BY <1>11 DEF OutputIdealDone
  <2>2. Underway /\ RingStays
    BY <2>1 DEF OutputInv
  <2> QED
    BY <1>11, <2>1, <2>2, IdealDoneEnds DEF OutputInv, RingStays
<1> QED
  BY <1>1, <1>2, <1>6, <1>7, <1>8, <1>9, <1>10, <1>11 DEF Next

(* The calls on the output stream follow the protocol, and bring the whole *)
(* basis, polynomial by polynomial, for every basis that a computation may *)
(* come to: although the adapter and the loop that asks it for terms count *)
(* separately, and zero polynomials have no terms.                         *)
THEOREM OutputFollows == ResultsFit /\ Spec => []OutputFollowsProtocol
<1>1. OutputInv => OutputFollowsProtocol
  <2> SUFFICES ASSUME OutputInv
               PROVE  OutputFollowsProtocol
    OBVIOUS
  <2>1. NoOutput.ok = TRUE /\ NoOutput.checker.state = "Initial"
    BY DEF NoOutput, NewChecker
  <2>2. out.ok = TRUE
    BY <2>1 DEF OutputInv, Underway
  <2>3. phase = "done" /\ out.checker.state = "HasIdeal" => out.polys = adapter.basis
    BY <2>1 DEF OutputInv
  <2> QED
    BY <2>2, <2>3 DEF OutputFollowsProtocol
<1>2. ResultsFit /\ Init => OutputInv
  BY InitOutputs
<1>3. ResultsFit /\ OutputInv /\ [Next]_vars => OutputInv'
  BY StepKeepsOutput
<1>4. ResultsFit => ResultsFit'
  BY DEF ResultsFit
<1> QED
  BY <1>1, <1>2, <1>3, <1>4, PTL DEF Spec
=============================================================================
