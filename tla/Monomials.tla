----------------------------- MODULE Monomials -----------------------------
(***************************************************************************)
(* The monomials of a free module over a polynomial ring, as the classic   *)
(* Groebner basis code sees them: an exponent for each variable and the    *)
(* index of a module component (an ideal has only one).  The operators are *)
(* those of MonoMonoid.hpp that SPairs, PolyBasis and ClassicGBAlg call.   *)
(*                                                                         *)
(* The monomial order and the grading are parameters of the code           *)
(* (MonoOrder.hpp), so they are constants here.  MaxExp bounds the         *)
(* exponents: it closes the set of monomials under lcm, which is all that  *)
(* the S-pair criteria compute.                                            *)
(***************************************************************************)
EXTENDS Integers

CONSTANTS
  Vars,         \* the variables of the ring
  MaxExp,       \* bound: the largest exponent
  Components,   \* the components of the free module
  OrderRank(_), \* the monomial order: m < n iff OrderRank(m) < OrderRank(n)
  Degree(_)     \* the most significant grading of the order

Mono == [exp : [Vars -> 0..MaxExp], comp : Components]

ASSUME MaxExpAssumption == MaxExp \in Nat

(* A monomial order is total and refines divisibility. *)
ASSUME OrderAssumption ==
  /\ \A m \in Mono : OrderRank(m) \in Nat
  /\ \A m, n \in Mono : OrderRank(m) = OrderRank(n) => m = n
  /\ \A m, n \in Mono :
       (/\ m.comp = n.comp
        /\ \A v \in Vars : m.exp[v] <= n.exp[v])
       => OrderRank(m) <= OrderRank(n)

ASSUME DegreeAssumption == \A m \in Mono : Degree(m) \in Int

(* dividesWithComponent *)
Divides(m, n) == m.comp = n.comp /\ \A v \in Vars : m.exp[v] <= n.exp[v]

(* lcm; the callers have compared the components *)
Lcm(m, n) ==
  [exp  |-> [v \in Vars |-> IF m.exp[v] >= n.exp[v] THEN m.exp[v] ELSE n.exp[v]],
   comp |-> m.comp]

(* Mutated form: one variable is enough. *)
RelativelyPrimeSomewhere(m, n) == \E v \in Vars : m.exp[v] = 0 \/ n.exp[v] = 0

(* The component plays no part in it. *)
RelativelyPrime(m, n) == \A v \in Vars : m.exp[v] = 0 \/ n.exp[v] = 0
=============================================================================
