----------------------------- MODULE MonoMonoid -----------------------------
(***************************************************************************)
(* How monomials are stored, compared and multiplied: MonoMonoid and the   *)
(* MonoOrder it is made from.  A monomial is an array of words,            *)
(*     [component] [exponents] [degrees] [hash],                           *)
(* of which the first, the degrees and the hash may be missing.  Degrees   *)
(* and hash follow from the rest, yet each operation updates them in its   *)
(* own way.  The comparison runs through the array from the right, so the  *)
(* order is turned round, negated and its variables reversed until that    *)
(* gives the right answer.  Two monomials stand for all there are.         *)
(***************************************************************************)
EXTENDS Integers, Sequences, SequencesExt, FiniteSetsExt

CONSTANTS
  Monoids,          \* [vars, hasComponent, storeHash, storeOrder, order]
  Width,            \* the bits of a word
  HashCoefficients, \* one for each variable
  MaxExponent,      \* bound on the exponents that are set or multiplied
  Components        \* the components of module monomials

VARIABLES monoid, a, b

vars == <<monoid, a, b>>

(* componentBefore of an order that looks at the component last *)
ComponentAfterBaseOrder == 99

(* addWrap, toExponent: the value modulo 2^Width, with its sign *)
Wrap(x) == ((x + 2^(Width - 1)) % 2^Width) - 2^(Width - 1)

Bit(P) == IF P THEN 1 ELSE 0
Total(s) == FoldLeft(LAMBDA x, y : x + y, 0, s)
Dot(s, t) == Total([i \in DOMAIN s |-> s[i] * t[i]])

----------------------------------------------------------------------------
(* MonoOrder and the members that Base computes from it *)

HasLexBase(m) == m.order.base \in {"LexFromRight", "LexFromLeft"}
HasFromLeftBase(m) == m.order.base \in {"LexFromLeft", "RevLexFromLeft"}
ComponentGraded(m) == m.order.componentBefore # ComponentAfterBaseOrder
IsTotalDegree(m) == m.order.gradings = <<[v \in 1..m.vars |-> 1]>>

(* Every variable is greater than 1. *)
IsMonomialOrder(order, n) ==
  \A v \in 1..n :
    LET column == SelectSeq([g \in DOMAIN order.gradings |-> order.gradings[g][v]],
                            LAMBDA weight : weight # 0)
    IN  IF column = <<>>
          THEN order.base \in {"LexFromRight", "LexFromLeft"}
          ELSE column[1] > 0

GradingCount(m) == Len(m.order.gradings) + Bit(ComponentGraded(m))

(* The component has a row of zeros. *)
Gradings(m) ==
  LET rows == IF ComponentGraded(m)
                THEN InsertAt(m.order.gradings, m.order.componentBefore + 1,
                              [v \in 1..m.vars |-> 0])
                ELSE m.order.gradings
      turned(row) == IF HasFromLeftBase(m) THEN Reverse(row) ELSE row
      sign == IF HasLexBase(m) THEN 1 ELSE -1
  IN  [g \in DOMAIN rows |-> [v \in 1..m.vars |-> sign * turned(Reverse(rows)[g])[v]]]

(* of the reversed gradings, or 0 *)
ComponentGradingIndex(m) ==
  IF ComponentGraded(m) THEN GradingCount(m) - m.order.componentBefore ELSE 0

OrderIsTotalDegreeRevLex(m) ==
  ~HasLexBase(m) /\ IsTotalDegree(m) /\ ~ComponentGraded(m)

(* The layout; positions in the array count from 1. *)
ExponentsBegin(m) == 1 + Bit(m.hasComponent)
ExponentsEnd(m) == ExponentsBegin(m) + m.vars
OrderEnd(m) == ExponentsEnd(m) + Bit(m.storeOrder) * GradingCount(m)
EntryCount(m) == Max({OrderEnd(m) - 1 + Bit(m.storeHash), 1})

Component(m, x) == x[1]
Exponent(m, x, v) == x[ExponentsBegin(m) + v - 1]
Exponents(m, x) == [v \in 1..m.vars |-> Exponent(m, x, v)]
ExternalVar(m, v) == IF HasFromLeftBase(m) THEN m.vars + 1 - v ELSE v

ComputeDegree(m, x, g) ==
  Wrap(IF OrderIsTotalDegreeRevLex(m) THEN -Total(Exponents(m, x))
       ELSE IF m.hasComponent /\ ComponentGradingIndex(m) = g THEN Component(m, x)
       ELSE Dot(Gradings(m)[g], Exponents(m, x)))

ComputeHash(m, x) ==
  Wrap((IF m.hasComponent THEN Component(m, x) ELSE 0)
         + Dot(Exponents(m, x), SubSeq(HashCoefficients, 1, m.vars)))

Degree(m, x, g) ==
  IF m.storeOrder THEN x[ExponentsEnd(m) + g - 1] ELSE ComputeDegree(m, x, g)
HashOf(m, x) == IF m.storeHash THEN x[OrderEnd(m)] ELSE ComputeHash(m, x)

(* setOrderData and setHash, for a component and exponents *)
Complete(m, c, e) ==
  LET head == (IF m.hasComponent THEN <<c>> ELSE <<>>) \o e
      degrees == IF m.storeOrder
                   THEN [g \in 1..GradingCount(m) |-> ComputeDegree(m, head, g)]
                   ELSE <<>>
      hash == IF m.storeHash THEN <<ComputeHash(m, head)>> ELSE <<>>
  IN  head \o degrees \o hash

Identity(m) == [i \in 1..EntryCount(m) |-> 0]

----------------------------------------------------------------------------
(* Queries *)

(* the degrees from the last, the exponents from the last, the component *)
Compare(m, x, y) ==
  LET degrees == [g \in 1..GradingCount(m) |-> Degree(m, x, g) - Degree(m, y, g)]
      exponents == [v \in 1..m.vars |-> Exponent(m, x, v) - Exponent(m, y, v)]
      component == IF m.hasComponent THEN <<Component(m, x) - Component(m, y)>> ELSE <<>>
      decides == SelectSeq(Reverse(degrees) \o Reverse(exponents) \o component,
                           LAMBDA d : d # 0)
  IN  IF decides = <<>> THEN 0
      ELSE IF (decides[1] > 0) = HasLexBase(m) THEN 1
      ELSE -1

(* x with the product of y and z, which is not formed *)
CompareToProduct(m, x, y, z) ==
  LET degrees == [g \in 1..GradingCount(m) |->
                    Degree(m, x, g) - (Degree(m, y, g) + Degree(m, z, g))]
      entries == [i \in 1 .. ExponentsEnd(m) - 1 |-> x[i] - (y[i] + z[i])]
      decides == SelectSeq(Reverse(degrees) \o Reverse(entries), LAMBDA d : d # 0)
  IN  IF decides = <<>> THEN 0
      ELSE IF (decides[1] > 0) = HasLexBase(m) THEN 1
      ELSE -1

SameComponent(m, x, y) == m.hasComponent => Component(m, x) = Component(m, y)

(* Monomials of one monoid, and of two that may store them differently *)
Equal(m, x, y) == \A i \in 1 .. ExponentsEnd(m) - 1 : x[i] = y[i]
EqualAcross(mx, x, m, y) == \A v \in 1..m.vars : Exponent(mx, x, v) = Exponent(m, y, v)

Divides(m, x, y) == \A v \in 1..m.vars : Exponent(m, x, v) <= Exponent(m, y, v)
DividesAcross(mx, x, m, y) == \A v \in 1..m.vars : Exponent(mx, x, v) <= Exponent(m, y, v)

DividesWithComponent(m, x, y) == SameComponent(m, x, y) /\ Divides(m, x, y)
DividesWithComponentAcross(mx, x, m, y) ==
  /\ mx.hasComponent /\ m.hasComponent => Component(mx, x) = Component(m, y)
  /\ DividesAcross(mx, x, m, y)

(* No exponent of d is above both of those of x and of y. *)
DividesLcm(md, d, mx, x, m, y) ==
  \A v \in 1..m.vars : \/ Exponent(md, d, v) <= Exponent(mx, x, v)
                       \/ Exponent(md, d, v) <= Exponent(m, y, v)

IsLcm(m, x, y, lcm) ==
  \A v \in 1..m.vars :
    Exponent(m, lcm, v) = Max({Exponent(m, x, v), Exponent(m, y, v)})

IsLcmAcross(mx, x, my, y, m, lcm) ==
  /\ m.hasComponent =>
       Component(m, lcm) = IF mx.hasComponent THEN Component(mx, x) ELSE Component(my, y)
  /\ \A v \in 1..m.vars :
       Exponent(m, lcm, v) = Max({Exponent(mx, x, v), Exponent(my, y, v)})

RelativelyPrime(m, x, y) ==
  \A v \in 1..m.vars : Exponent(m, x, v) = 0 \/ Exponent(m, y, v) = 0

SizeOfSupport(m, x) == Cardinality({v \in 1..m.vars : Exponent(m, x, v) # 0})

HashOfProduct(m, x, y) == Wrap(HashOf(m, x) + HashOf(m, y))

IsIdentity(m, x) == \A v \in 1..m.vars : Exponent(m, x, v) = 0

IsProductOf(m, x, y, xy) ==
  \A i \in 1 .. ExponentsEnd(m) - 1 : xy[i] = x[i] + y[i]

(* Two words of the array as one of twice the width; k counts from 0. *)
DoubleWord(x, k) == (x[2 * k + 1] % 2^Width) + (x[2 * k + 2] % 2^Width) * 2^Width

(* Two words at a time, which takes in the one after the exponents *)
IsProductOfHintTrue(m, x, y, xy) ==
  IF ~m.storeHash /\ ~m.storeOrder
    THEN IsProductOf(m, x, y, xy)
    ELSE \A k \in 0 .. m.vars \div 2 :
           DoubleWord(xy, k) = (DoubleWord(x, k) + DoubleWord(y, k)) % 2^(2 * Width)

IsTwoProductsOfHintTrue(m, x, y, z, xz, yz) ==
  IF ~m.storeHash /\ ~m.storeOrder
    THEN IsProductOf(m, x, z, xz) /\ IsProductOf(m, y, z, yz)
    ELSE \A k \in 0 .. m.vars \div 2 :
           /\ DoubleWord(xz, k) = (DoubleWord(x, k) + DoubleWord(z, k)) % 2^(2 * Width)
           /\ DoubleWord(yz, k) = (DoubleWord(y, k) + DoubleWord(z, k)) % 2^(2 * Width)

(* Mutated form: the degrees are left out. *)
HasAmpleExponents(m, x) ==
  \A v \in 1..m.vars : Exponent(m, x, v) <= (2^(Width - 1) - 1) \div 2

HasAmpleCapacity(m, x) ==
  LET limit == (2^(Width - 1) - 1) \div 2
      inRange(value) == -limit <= value /\ value <= limit
  IN  /\ \A v \in 1..m.vars : inRange(Exponent(m, x, v))
      /\ \A g \in 1..GradingCount(m) : inRange(Degree(m, x, g))

----------------------------------------------------------------------------
(* Operations on a, with b *)

Product(m, x, y) == [i \in 1..EntryCount(m) |-> Wrap(x[i] + y[i])]
Quotient(m, x, y) == [i \in 1..EntryCount(m) |-> Wrap(x[i] - y[i])]

Init ==
  /\ monoid \in {m \in Monoids : IsMonomialOrder(m.order, m.vars)}
  /\ a = Identity(monoid)
  /\ b = Identity(monoid)

(* updateOrderData, for one grading *)
UpdateDegree(v, change, g) ==
  Wrap(a[ExponentsEnd(monoid) + g - 1]
         + (IF OrderIsTotalDegreeRevLex(monoid) THEN -change
            ELSE Gradings(monoid)[g][v] * change))

SetExponent(v, new) ==
  LET at == ExponentsBegin(monoid) + v - 1
      change == new - a[at]
      updated(i) ==
        IF i = at THEN new
        ELSE IF i >= ExponentsEnd(monoid) /\ i < OrderEnd(monoid)
          THEN UpdateDegree(v, change, i + 1 - ExponentsEnd(monoid))
        ELSE IF i >= OrderEnd(monoid) THEN Wrap(a[i] + change * HashCoefficients[v])
        ELSE a[i]
  IN  /\ a' = [i \in DOMAIN a |-> updated(i)]
      /\ UNCHANGED <<monoid, b>>

SetExternalExponents(e) ==
  /\ a' = Complete(monoid, IF monoid.hasComponent THEN Component(monoid, a) ELSE 0,
                   [v \in 1..monoid.vars |-> e[ExternalVar(monoid, v)]])
  /\ UNCHANGED <<monoid, b>>

SetComponent(new) ==
  /\ monoid.hasComponent
  /\ LET graded == ExponentsEnd(monoid) + ComponentGradingIndex(monoid) - 1
         updated(i) ==
           IF i = 1 THEN new
           ELSE IF ComponentGraded(monoid) /\ i = graded THEN new
           ELSE IF i = OrderEnd(monoid) THEN Wrap(a[i] + new - a[1])
           ELSE a[i]
     IN  a' = [i \in DOMAIN a |-> updated(i)]
  /\ UNCHANGED <<monoid, b>>

(* The caller sees to it that products do not overflow. *)
MultiplyInPlace ==
  /\ \A v \in 1..monoid.vars :
       Exponent(monoid, a, v) + Exponent(monoid, b, v) <= MaxExponent
  /\ monoid.hasComponent => Component(monoid, a) = 0 \/ Component(monoid, b) = 0
  /\ a' = Product(monoid, a, b)
  /\ UNCHANGED <<monoid, b>>

DivideInPlace ==
  /\ Divides(monoid, b, a)
  /\ monoid.hasComponent => Component(monoid, b) \in {0, Component(monoid, a)}
  /\ a' = Quotient(monoid, a, b)
  /\ UNCHANGED <<monoid, b>>

ColonOf(x, y) ==
  [v \in 1..monoid.vars |->
     Max({Exponent(monoid, x, v), Exponent(monoid, y, v)}) - Exponent(monoid, y, v)]

Colons ==
  /\ SameComponent(monoid, a, b)
  /\ a' = Complete(monoid, 0, ColonOf(a, b))
  /\ b' = Complete(monoid, 0, ColonOf(b, a))
  /\ UNCHANGED monoid

(* (a : b) times b *)
ColonMultiply ==
  /\ SameComponent(monoid, a, b)
  /\ a' = Complete(monoid, IF monoid.hasComponent THEN Component(monoid, b) ELSE 0,
                   [v \in 1..monoid.vars |-> Exponent(monoid, b, v) + ColonOf(a, b)[v]])
  /\ UNCHANGED <<monoid, b>>

Lcm ==
  /\ SameComponent(monoid, a, b)
  /\ b' = Complete(monoid, IF monoid.hasComponent THEN Component(monoid, a) ELSE 0,
                   [v \in 1..monoid.vars |->
                      Max({Exponent(monoid, a, v), Exponent(monoid, b, v)})])
  /\ UNCHANGED <<monoid, a>>

Swap ==
  /\ a' = b
  /\ b' = a
  /\ UNCHANGED monoid

Next ==
  \/ \E v \in 1..monoid.vars, e \in 0..MaxExponent : SetExponent(v, e)
  \/ \E e \in [1..monoid.vars -> 0..1] : SetExternalExponents(e)
  \/ \E c \in Components : SetComponent(c)
  \/ MultiplyInPlace
  \/ DivideInPlace
  \/ Colons
  \/ ColonMultiply
  \/ Lcm
  \/ Swap

Spec == Init /\ [][Next]_vars

----------------------------------------------------------------------------
(* create: a monoid of the same order with another layout *)
MakeOrder(m) ==
  LET upright == Reverse(Gradings(m))
      sign == IF HasLexBase(m) THEN 1 ELSE -1
      rows == [g \in DOMAIN upright |-> [v \in 1..m.vars |-> sign * upright[g][v]]]
      before == GradingCount(m) - ComponentGradingIndex(m)
  IN  [base |-> IF HasLexBase(m) THEN "LexFromRight" ELSE "RevLexFromRight",
       componentBefore |-> IF ComponentGraded(m) THEN before ELSE ComponentAfterBaseOrder,
       gradings |-> IF ComponentGraded(m) THEN RemoveAt(rows, before + 1) ELSE rows]

Create(m, storeHash, storeOrder) ==
  [m EXCEPT !.order = MakeOrder(m), !.storeHash = storeHash, !.storeOrder = storeOrder]

(* Degrees and hash are taken over, not computed again. *)
CopyTo(m, x) ==
  (IF m.hasComponent THEN <<Component(monoid, x)>> ELSE <<>>)
    \o Exponents(monoid, x)
    \o (IF m.storeOrder THEN [g \in 1..GradingCount(m) |-> Degree(monoid, x, g)] ELSE <<>>)
    \o (IF m.storeHash THEN <<HashOf(monoid, x)>> ELSE <<>>)

----------------------------------------------------------------------------
TypeOK ==
  /\ monoid \in Monoids
  /\ \A x \in {a, b} :
       /\ x \in Seq(-2^(Width - 1) .. 2^(Width - 1) - 1)
       /\ Len(x) = EntryCount(monoid)

(* Degrees and hash are those of the exponents and the component, however  *)
(* the monomial came about: by updates, word by word from others, anew.    *)
DataMatchExponents ==
  \A x \in {a, b} :
    x = Complete(monoid, IF monoid.hasComponent THEN x[1] ELSE 0, Exponents(monoid, x))

(* What decides in the order, the greater the more: as the documentation   *)
(* of MonoOrder has it, for variables as they are outside.                 *)
OrderKey(m, x) ==
  LET order == m.order
      lex == HasLexBase(m)
      e == [v \in 1..m.vars |-> Exponent(m, x, ExternalVar(m, v))]
      signed(k) == IF lex THEN k ELSE -k
      component == IF m.hasComponent THEN <<signed(Component(m, x))>> ELSE <<0>>
      rows == [g \in DOMAIN order.gradings |-> Dot(order.gradings[g], e)]
      base == [v \in 1..m.vars |->
                 signed(IF HasFromLeftBase(m) THEN e[v] ELSE e[m.vars + 1 - v])]
  IN  (IF ComponentGraded(m)
         THEN SubSeq(rows, 1, order.componentBefore) \o component
              \o SubSeq(rows, order.componentBefore + 1, Len(rows))
         ELSE rows)
      \o base
      \o (IF ComponentGraded(m) THEN <<>> ELSE component)

LexLess(s, t) ==
  \E i \in DOMAIN s : s[i] < t[i] /\ \A j \in 1 .. i - 1 : s[j] = t[j]

(* The comparison of two arrays from the right is that of the order which  *)
(* the monoid was made from.                                               *)
CompareIsOrder ==
  LET r == Compare(monoid, a, b)
  IN  /\ (r = -1) = LexLess(OrderKey(monoid, a), OrderKey(monoid, b))
      /\ (r = 1) = LexLess(OrderKey(monoid, b), OrderKey(monoid, a))

(* The copies that lookup structures keep in a monoid of another layout    *)
(* compare as the originals do.                                            *)
CopiesCompareAlike ==
  \A hash, order \in BOOLEAN :
    LET m == Create(monoid, hash, order)
    IN  Compare(m, CopyTo(m, a), CopyTo(m, b)) = Compare(monoid, a, b)

(* Comparing two words at once gives what comparing each would, whatever   *)
(* is stored in the word after the exponents.  The monoid that the program *)
(* uses has a component, which keeps that word in the upper half.          *)
HintTrueAgrees ==
  LET m == monoid
      products == {Product(m, a, b), a, Identity(m)}
  IN  m.hasComponent =>
        \A xy \in products :
          IsProductOfHintTrue(m, a, b, xy) = IsProductOf(m, a, b, xy)

(* No exponent and no degree of the product overflows. *)
ProductFits(m, x, y) ==
  /\ \A v \in 1..m.vars :
       Exponent(m, Product(m, x, y), v) = Exponent(m, x, v) + Exponent(m, y, v)
  /\ \A g \in 1..GradingCount(m) :
       Degree(m, Product(m, x, y), g) = Degree(m, x, g) + Degree(m, y, g)

(* Multiplying monomials of ample capacity overflows neither exponents nor *)
(* degrees.                                                                *)
AmpleCapacitySuffices ==
  HasAmpleCapacity(monoid, a) /\ HasAmpleCapacity(monoid, b) => ProductFits(monoid, a, b)

(* What is asked about products, quotients and least common multiples      *)
(* without forming them is answered as if they had been formed.            *)
QueriesAgree ==
  LET m == monoid
      product == Product(m, a, b)
      lcm == Complete(m, IF m.hasComponent THEN Component(m, a) ELSE 0,
                      [v \in 1..m.vars |-> Max({Exponent(m, a, v), Exponent(m, b, v)})])
      hint == <<IsProductOf(m, a, b, product), IsProductOf(m, b, b, lcm)>>
  IN  /\ Equal(m, a, b) = (a = b)
      /\ IsIdentity(m, a) = Divides(m, a, Identity(m))
      /\ Divides(m, b, a) = \A v \in 1..m.vars : Exponent(m, Quotient(m, a, b), v) >= 0
      /\ \A d \in {a, b, lcm, product} :
           /\ DividesLcm(m, d, m, a, m, b) = Divides(m, d, lcm)
           /\ IsLcm(m, a, b, d) = EqualAcross(m, d, m, lcm)
           /\ ProductFits(m, a, b) =>
                CompareToProduct(m, d, a, b) = Compare(m, d, product)
      /\ RelativelyPrime(m, a, b) = IsLcm(m, a, b, product)
      /\ RelativelyPrime(m, a, b) =
           (SizeOfSupport(m, lcm) = SizeOfSupport(m, a) + SizeOfSupport(m, b))
      /\ HashOfProduct(m, a, b) = HashOf(m, product)
      /\ m.hasComponent =>
           IsTwoProductsOfHintTrue(m, a, b, b, product, lcm) = (hint[1] /\ hint[2])

(* A copy in another layout has its degrees and its hash right, and is     *)
(* taken for the original.                                                 *)
CopiesAnswerAlike ==
  \A hash, order \in BOOLEAN :
    LET m == Create(monoid, hash, order)
        copy(x) == CopyTo(m, x)
        lcm == Complete(monoid, IF m.hasComponent THEN Component(monoid, b) ELSE 0,
                        [v \in 1..m.vars |->
                           Max({Exponent(monoid, a, v), Exponent(monoid, b, v)})])
    IN  /\ copy(a) = Complete(m, IF m.hasComponent THEN a[1] ELSE 0, Exponents(monoid, a))
        /\ DividesWithComponentAcross(m, copy(a), monoid, b)
             = DividesWithComponent(monoid, a, b)
        /\ DividesLcm(m, copy(a), m, copy(b), monoid, a) = DividesLcm(monoid, a, monoid, b, monoid, a)
        /\ SameComponent(monoid, a, b) => IsLcmAcross(m, copy(a), m, copy(b), monoid, lcm)
=============================================================================
