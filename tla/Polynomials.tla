----------------------------- MODULE Polynomials -----------------------------
(***************************************************************************)
(* Polynomials in one variable over a prime field.  A monomial is written  *)
(* as its exponent, a polynomial is a function from the monomials to their *)
(* coefficients modulo P.                                                  *)
(***************************************************************************)
EXTENDS Naturals, FiniteSetsExt

CONSTANTS
  P,       \* the modulus
  Degree   \* no monomial is larger

Monos == 0 .. Degree
Nil == [m \in Monos |-> 0]

Plus(f, g) == [m \in Monos |-> (f[m] + g[m]) % P]
Times(c, u, f) ==
  [m \in Monos |-> IF m >= u THEN (c * f[m - u]) % P ELSE 0]

Support(f) == {m \in Monos : f[m] # 0}
Lead(f) == Max(Support(f))
Only(f, S) == [m \in Monos |-> IF m \in S THEN f[m] ELSE 0]

(* The multiple of f with leading coefficient 1 *)
Monic(f) ==
  IF f = Nil
    THEN Nil
    ELSE Times(CHOOSE c \in 1 .. P - 1 : (c * f[Lead(f)]) % P = 1, 0, f)
=============================================================================
