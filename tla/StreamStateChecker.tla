------------------------- MODULE StreamStateChecker -------------------------
(***************************************************************************)
(* The protocol of ideal streams, as StreamStateChecker has it: for each   *)
(* call a condition under which the checker lets it pass, and its state    *)
(* after the call.  A call that does not pass throws before anything has   *)
(* changed.                                                                *)
(***************************************************************************)
EXTENDS Integers

NoClaim == -1  \* begun without a count
NoVar == -1    \* the largest VarIndex, which stands for none

NewChecker ==
  [state |-> "Initial", claimedPolys |-> NoClaim, seenPolys |-> 0,
   claimedTerms |-> NoClaim, seenTerms |-> 0, lastVar |-> NoVar]

MayBeginIdeal(c) == c.state \in {"Initial", "HasIdeal"}

IdealBegun(c, polyCount) ==
  [c EXCEPT !.state = "MakingIdeal", !.claimedPolys = polyCount, !.seenPolys = 0]

MayBeginPolynomial(c) ==
  /\ c.state = "MakingIdeal"
  /\ c.claimedPolys # NoClaim => c.seenPolys < c.claimedPolys

PolynomialBegun(c, termCount) ==
  [c EXCEPT !.state = "MakingPoly", !.seenPolys = @ + 1,
            !.claimedTerms = termCount, !.seenTerms = 0]

MayBeginTerm(c, com, conf) ==
  /\ c.state = "MakingPoly"
  /\ c.claimedTerms # NoClaim => c.seenTerms < c.claimedTerms
  /\ com < conf.comCount

TermBegun(c) ==
  [c EXCEPT !.state = "MakingTerm", !.seenTerms = @ + 1, !.lastVar = NoVar]

MayAppendExponent(c, index, conf) ==
  /\ c.state = "MakingTerm"
  /\ index < conf.varCount
  /\ c.lastVar = NoVar \/ c.lastVar < index

ExponentAppended(c, index) == [c EXCEPT !.lastVar = index]

MayEndTerm(c, coefficient, conf) ==
  /\ 0 < coefficient /\ coefficient < conf.modulus
  /\ c.state = "MakingTerm"

TermEnded(c) == [c EXCEPT !.state = "MakingPoly"]

MayEndPolynomial(c) ==
  /\ c.state = "MakingPoly"
  /\ c.claimedTerms # NoClaim => c.seenTerms = c.claimedTerms

PolynomialEnded(c) == [c EXCEPT !.state = "MakingIdeal"]

MayEndIdeal(c) ==
  /\ c.state = "MakingIdeal"
  /\ c.claimedPolys # NoClaim => c.seenPolys = c.claimedPolys

IdealEnded(c) == [c EXCEPT !.state = "HasIdeal"]
=============================================================================
