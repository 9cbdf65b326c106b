--------------------------- MODULE CoefficientField ---------------------------
(***************************************************************************)
(* The coefficients: PrimeField<T> in integers of a fixed width, and the   *)
(* operations PolyRing offers on them.  A modulus is asked for; if it is   *)
(* refused there is no field.  Then one coefficient is computed on.        *)
(*                                                                         *)
(* A shape gives the widths in bits that matter: of T, of the type that    *)
(* a + b has, of the type products are formed in, and of the integers that *)
(* are turned into elements.                                               *)
(***************************************************************************)
EXTENDS Integers, Sequences, FiniteSetsExt

CONSTANTS
  Shapes,   \* set of [store, sum, product, integer], widths in bits
  Numbers   \* the moduli asked for

VARIABLES
  shape,    \* the shape of the field
  modulus,  \* asked for; 0 before
  charac,   \* mCharac; 0 while there is no field
  result,   \* the coefficient computed on
  want      \* history variable: what result is mathematically

vars == <<shape, modulus, charac, result, want>>

Wrap(x, width) == x % 2^width

MinOf(x, y) == IF x < y THEN x ELSE y

----------------------------------------------------------------------------
(* Which moduli there are *)

IntegerSqrt(n) ==
  LET search[low \in 0 .. n, high \in 0 .. n] ==
        LET mid == low + ((high - low + 1) \div 2)
        IN  IF low >= high THEN low
            ELSE IF mid <= n \div mid THEN search[mid, high]
            ELSE search[low, mid - 1]
  IN  IF n < 2 THEN n ELSE search[1, (n \div 2) + 1]

(* Square and multiply *)
ModularPower(a, exponent, m) ==
  LET power[e \in 0 .. exponent, base \in 0 .. m - 1, product \in 0 .. m - 1] ==
        IF e = 0 THEN product
        ELSE power[e \div 2, (base * base) % m,
                   IF e % 2 = 1 THEN (product * base) % m ELSE product]
  IN  power[exponent, a % m, 1]

Bases == {2, 7, 61}

(* n - 1 is twos times a power of two, <<odd part, number of twos>> *)
SplitTwos(n) ==
  LET split[odd \in 1 .. n, twos \in 0 .. n] ==
        IF odd % 2 = 1 THEN <<odd, twos>> ELSE split[odd \div 2, twos + 1]
  IN  split[n - 1, 0]

(* Some square after the first one is -1. *)
ReachesMinusOne(x, n, twoCount) ==
  LET reaches[i \in 1 .. twoCount, y \in 0 .. n - 1] ==
        i < twoCount /\ LET square == (y * y) % n
                        IN  square = n - 1 \/ reaches[i + 1, square]
  IN  reaches[1, x]

(* Miller-Rabin *)
IsPrime(n) ==
  \/ n \in Bases
  \/ /\ n >= 2
     /\ n % 2 # 0
     /\ LET split == SplitTwos(n)
        IN  \A base \in Bases :
              LET x == ModularPower(base, split[1], n)
              IN  x = 1 \/ x = n - 1 \/ ReachesMinusOne(x, n, split[2])

(* Mutated form: as many as the elements that can be stored. *)
MaxCharacteristicStored(s) == 2^s.store - 1

MaxCharacteristic(s) ==
  MinOf(IntegerSqrt(2^s.product - 1) + 1, 2^s.store - 1)

----------------------------------------------------------------------------
(* PrimeField *)

FieldSum(a, b) ==
  LET s == Wrap(a + b, shape.sum)
  IN  IF a > s \/ s >= charac THEN Wrap(s - charac, shape.store) ELSE s

PlusOne(a) == IF a + 1 = charac THEN 0 ELSE a + 1

Difference(a, b) ==
  IF a < b THEN Wrap(a - b + charac, shape.store) ELSE a - b

NegativeNonZero(a) == charac - a

Negative(a) == IF a = 0 THEN a ELSE NegativeNonZero(a)

Product(a, b) == Wrap(a * b, shape.product) % charac

(* The extended Euclidean algorithm, two turns at a time, every other x as *)
(* its negative                                                            *)
FieldInverse(a0) ==
  LET T(x) == Wrap(x, shape.store)
      turns[a \in 1 .. a0, b \in 1 .. charac, minusLastX \in 0 .. charac, x \in 0 .. charac] ==
        IF a = 1 THEN x
        ELSE LET b2 == T(b - (b \div a) * a)
                 minus2 == T(minusLastX + (b \div a) * x)
             IN  IF b2 = 1 THEN charac - minus2
                 ELSE turns[T(a - (a \div b2) * b2), b2, minus2, T(x + (a \div b2) * minus2)]
  IN  turns[a0, charac, 0, 1]

(* i comes as a signed integer; -i is formed as an unsigned one. *)
ToElement(i) ==
  IF i < 0 THEN Negative(Wrap(-Wrap(i, shape.integer), shape.integer) % charac)
  ELSE i % charac

Elements == 0 .. charac - 1

----------------------------------------------------------------------------
Init ==
  /\ shape \in Shapes
  /\ modulus = 0 /\ charac = 0 /\ result = 0 /\ want = 0

(* The library and the reader refuse a number that is not prime, the field *)
(* one that it is too small for.                                           *)
SetModulus(n) ==
  /\ modulus = 0
  /\ modulus' = n
  /\ charac' = IF IsPrime(n) /\ n <= MaxCharacteristic(shape) THEN n ELSE 0
  /\ UNCHANGED <<shape, result, want>>

Computes(value, exact) ==
  /\ result' = value
  /\ want' = exact % charac
  /\ UNCHANGED <<shape, modulus, charac>>

HaveField == charac # 0

(* The number y of the field with x * y = 1 *)
Reciprocal(x) == CHOOSE y \in Elements : (x * y) % charac = 1

CoefficientFromInt(i) == HaveField /\ Computes(ToElement(i), i)

CoefficientReciprocalTo ==
  HaveField /\ result # 0 /\ Computes(FieldInverse(result), Reciprocal(want))

CoefficientDivide(a) ==
  HaveField /\ result # 0
    /\ Computes(Product(a, FieldInverse(result)), a * Reciprocal(want))

CoefficientAddOneTo == HaveField /\ Computes(PlusOne(result), want + 1)

CoefficientNegateTo == HaveField /\ Computes(Negative(result), -want)

CoefficientNegateNonZero ==
  HaveField /\ result # 0 /\ Computes(NegativeNonZero(result), -want)

CoefficientSubtract(a) == HaveField /\ Computes(Difference(a, result), a - want)

CoefficientAddTo(a) == HaveField /\ Computes(FieldSum(result, a), want + a)

CoefficientAddProductTo(a, b) ==
  HaveField /\ Computes(FieldSum(result, Product(a, b)), want + a * b)

CoefficientMultTo(a) == HaveField /\ Computes(Product(result, a), want * a)

Next ==
  \/ \E n \in Numbers : SetModulus(n)
  \/ \E i \in -(2^(shape.integer - 1)) .. 2^(shape.integer - 1) - 1 : CoefficientFromInt(i)
  \/ CoefficientReciprocalTo
  \/ CoefficientAddOneTo
  \/ CoefficientNegateTo
  \/ CoefficientNegateNonZero
  \/ \E a \in Elements :
       \/ CoefficientDivide(a)
       \/ CoefficientSubtract(a)
       \/ CoefficientAddTo(a)
       \/ CoefficientMultTo(a)
       \/ CoefficientAddProductTo(a, charac - 1)

Spec == Init /\ [][Next]_vars

----------------------------------------------------------------------------
(* A modulus is accepted exactly if it is prime and every product of two   *)
(* elements can be formed: Miller-Rabin with three bases is no guess.      *)
ModulusAccepted ==
  modulus # 0 =>
    (HaveField <=> /\ modulus > 1
                   /\ \A d \in 2 .. modulus - 1 : modulus % d # 0
                   /\ modulus < 2^shape.store
                   /\ (modulus - 1) * (modulus - 1) < 2^shape.product)

(* Computing in integers of fixed width is computing modulo the            *)
(* characteristic: no step wraps around, or two that do cancel.            *)
FieldIsExact == result = want /\ (HaveField => result \in Elements)
=============================================================================
