--------------------------- MODULE MCClassicGBAlg ---------------------------
(***************************************************************************)
(* Instances of ClassicGBAlg for TLC: a ring in a few variables, or a      *)
(* module over it, ordered by degree and then lexicographically.           *)
(***************************************************************************)
EXTENDS ClassicGBAlg, FiniteSetsExt

CONSTANTS
  InputSize \* the number of polynomials in the input

(* The variables are 1, 2, 3 and 4 or the first of them. *)
Exponent(m, v) == IF v \in Vars THEN m.exp[v] ELSE 0

TotalDegree(m) == Exponent(m, 1) + Exponent(m, 2) + Exponent(m, 3) + Exponent(m, 4)

(* The digits of a number: the degree, the exponents, the component *)
MCOrderRank(m) ==
  LET base == MaxExp + 1
      digits == Exponent(m, 4) + base * (Exponent(m, 3)
                  + base * (Exponent(m, 2) + base * (Exponent(m, 1)
                  + base * TotalDegree(m))))
  IN  digits * (Cardinality(Components) + 1) + m.comp

Bag(s) == [m \in Mono |-> Cardinality({i \in DOMAIN s : s[i] = m})]

(* every input of InputSize polynomials *)
MCInputs == {Bag(s) : s \in [1..InputSize -> Mono]}

NotPreferred == [i \in Gens |-> 0]
=============================================================================
