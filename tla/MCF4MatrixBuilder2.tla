------------------------- MODULE MCF4MatrixBuilder2 -------------------------
(* Instances of F4MatrixBuilder2 for TLC: monomials in four variables, each
   digit an exponent, ordered lexicographically. *)
EXTENDS F4MatrixBuilder2

CONSTANTS p1, p2, p3, p4, q1, q2

MCTerms ==
  p1 :> <<1110, 1>> @@ p2 :> <<1101, 10>> @@ p3 :> <<1011, 1001>> @@
  p4 :> <<111, 101>> @@ q1 :> <<1111, 1101, 2>> @@ q2 :> <<1110, 2>>

MCMonos == 0..1111

Basis == {p1, p2, p3, p4}
ReducersOf == 1110 :> {p1} @@ 1101 :> {p2} @@ 1111 :> {p1, p4}
MCReducers == [m \in MCMonos |-> IF m \in DOMAIN ReducersOf THEN ReducersOf[m] ELSE {}]

SPair(a, b) == [lead |-> 1111, poly |-> a, other |-> b]
Polynomial(p) == [lead |-> NoLead, poly |-> p, other |-> NoPoly]

(* Two S-pairs that share an element; two that do not; polynomials; too many
   columns for the halves, and for the rows. *)
MCInputs ==
  {[tasks |-> {SPair(p1, p2), SPair(p1, p3)}, maxColumns |-> 9],
   [tasks |-> {SPair(p1, p2), SPair(p3, p4)}, maxColumns |-> 9],
   [tasks |-> {Polynomial(q1), Polynomial(q2)}, maxColumns |-> 9],
   [tasks |-> {SPair(p1, p2)}, maxColumns |-> 0],
   [tasks |-> {SPair(p1, p2)}, maxColumns |-> 2]}
=============================================================================
