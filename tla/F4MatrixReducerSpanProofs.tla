---------------------- MODULE F4MatrixReducerSpanProofs ----------------------
(***************************************************************************)
(* No step of F4MatrixReducer changes what the rows span, for any modulus  *)
(* that is a prime, any matrix and whatever order the threads come in.     *)
(*                                                                         *)
(* The span of finitely many rows is the least space that holds them, so   *)
(* that two spans are shown to be equal by showing that each holds the     *)
(* rows of the other.  The multiples of rows that a loop adds are a row of *)
(* sums, one for each column (Combined), so that what a loop leaves can be *)
(* compared with what the same multiples leave in another order.           *)
(***************************************************************************)
EXTENDS F4MatrixReducerProofs

-----------------------------------------------------------------------------
(* Sums and products modulo the modulus *)

(* Numbers that leave the same remainder differ by a multiple. *)
LEMMA SameRemainder ==
  ASSUME NEW x \in Nat, NEW y \in Nat, NEW j \in Int, x = y + j * Modulus
  PROVE  x % Modulus = y % Modulus
<1>1. Modulus \in Nat /\ Modulus > 0
  BY Remainders
<1> DEFINE q == y \div Modulus
           r == y % Modulus
<1>2. q \in Int /\ r \in 0..Modulus - 1 /\ y = q * Modulus + r
  BY <1>1
<1> HIDE DEF q, r
<1>3. x = (j + q) * Modulus + r /\ j + q \in Int
  BY <1>1, <1>2
<1>4. \A i \in Int : (i * Modulus + r) % Modulus = r
  BY <1>1, <1>2, RemainderIs
<1>5. ((j + q) * Modulus + r) % Modulus = r
  BY <1>3, <1>4
<1> QED
  BY <1>3, <1>5 DEF r

LEMMA Quotients ==
  ASSUME NEW x \in Nat
  PROVE  x % Modulus \in Scalar /\ x % Modulus \in Nat
         /\ \E q \in Int : x = (x % Modulus) + q * Modulus
<1>1. Modulus \in Nat /\ Modulus > 0
  BY Remainders
<1> DEFINE q == x \div Modulus
           r == x % Modulus
<1>2. q \in Int /\ r \in 0..Modulus - 1 /\ x = q * Modulus + r
  BY <1>1
<1>3. x % Modulus \in Scalar
  BY Remainders
<1> HIDE DEF q
<1>4. r \in Nat /\ x = r + q * Modulus
  BY <1>1, <1>2
<1> QED
  BY <1>2, <1>3, <1>4

(* A sum and a product, whenever their parts are taken modulo the modulus *)
LEMMA SumOfRemainders ==
  ASSUME NEW x \in Nat, NEW a \in Nat, NEW y \in Nat
  PROVE  /\ ((x % Modulus) + a * y) % Modulus = (x + a * y) % Modulus
         /\ (x + (a % Modulus) * y) % Modulus = (x + a * y) % Modulus
         /\ (x + a * (y % Modulus)) % Modulus = (x + a * y) % Modulus
<1>1. Modulus \in Nat
  BY Remainders
<1>2. PICK i \in Int : x = (x % Modulus) + i * Modulus
  BY Quotients
<1>3. PICK j \in Int : a = (a % Modulus) + j * Modulus
  BY Quotients
<1>4. PICK k \in Int : y = (y % Modulus) + k * Modulus
  BY Quotients
<1>5. x % Modulus \in Nat /\ a % Modulus \in Nat /\ y % Modulus \in Nat
  BY Quotients
<1>6. PICK p \in Nat, q \in Nat, r \in Nat : p = x % Modulus /\ q = a % Modulus /\ r = y % Modulus
  BY <1>5
<1>7. x = p + i * Modulus /\ a = q + j * Modulus /\ y = r + k * Modulus
  BY <1>2, <1>3, <1>4, <1>6
<1>8. x + a * y = (p + a * y) + i * Modulus
  BY <1>1, <1>7
<1>9. x + a * y = (x + q * y) + (j * y) * Modulus
  <2>1. a * y = q * y + (j * y) * Modulus
    BY <1>1, <1>7
  <2>2. a * y \in Int /\ q * y \in Int /\ (j * y) * Modulus \in Int
    BY <1>1
  <2> QED
    BY <2>1, <2>2
<1>10. x + a * y = (x + a * r) + (a * k) * Modulus
  <2>1. a * y = a * r + (a * k) * Modulus
    BY <1>1, <1>7
  <2>2. a * y \in Int /\ a * r \in Int /\ (a * k) * Modulus \in Int
    BY <1>1
  <2> QED
    BY <2>1, <2>2
<1>11. /\ x + a * y \in Nat /\ p + a * y \in Nat /\ x + q * y \in Nat /\ x + a * r \in Nat
       /\ j * y \in Int /\ a * k \in Int
  BY <1>1
<1>12. (x + a * y) % Modulus = (p + a * y) % Modulus
  BY <1>8, <1>11, SameRemainder
<1>13. (x + a * y) % Modulus = (x + q * y) % Modulus
  BY <1>9, <1>11, SameRemainder
<1>14. (x + a * y) % Modulus = (x + a * r) % Modulus
  BY <1>10, <1>11, SameRemainder
<1> QED
  BY <1>6, <1>12, <1>13, <1>14

(* An entry with a multiple of another added *)
Plus(x, a, y) == (x + a * y) % Modulus

LEMMA PlusIsScalar ==
  ASSUME NEW x \in Nat, NEW a \in Nat, NEW y \in Nat
  PROVE  Plus(x, a, y) \in Scalar /\ Plus(x, a, y) \in Nat
<1>1. x + a * y \in Nat
  OBVIOUS
<1> QED
  BY <1>1, Quotients DEF Plus

LEMMA SumOfSums ==
  ASSUME NEW v \in Nat, NEW a \in Nat, NEW x \in Nat, NEW b \in Nat, NEW w \in Nat,
         NEW c \in Nat
  PROVE  Plus(Plus(v, a, x), b, Plus(w, c, x)) = Plus(Plus(v, b, w), Plus(a, b, c), x)
<1>1. /\ v + a * x \in Nat /\ w + c * x \in Nat /\ v + b * w \in Nat /\ a + b * c \in Nat
      /\ (w + c * x) % Modulus \in Nat /\ (a + b * c) % Modulus \in Nat
  <2>1. /\ v + a * x \in Nat /\ w + c * x \in Nat /\ v + b * w \in Nat /\ a + b * c \in Nat
    OBVIOUS
  <2> QED
    BY <2>1, Quotients
<1>2. PICK p \in Nat, q \in Nat, r \in Nat, s \in Nat :
        p = v + a * x /\ q = w + c * x /\ r = v + b * w /\ s = a + b * c
  BY <1>1
<1>3. q % Modulus \in Nat /\ s % Modulus \in Nat
  BY Quotients
<1>4. ((p % Modulus) + b * (q % Modulus)) % Modulus = (p + b * q) % Modulus
  <2>1. ((p % Modulus) + b * (q % Modulus)) % Modulus = (p + b * (q % Modulus)) % Modulus
    BY <1>3, SumOfRemainders
  <2>2. (p + b * (q % Modulus)) % Modulus = (p + b * q) % Modulus
    BY SumOfRemainders
  <2> QED
    BY <2>1, <2>2
<1>5. ((r % Modulus) + (s % Modulus) * x) % Modulus = (r + s * x) % Modulus
  <2>1. ((r % Modulus) + (s % Modulus) * x) % Modulus = (r + (s % Modulus) * x) % Modulus
    BY <1>3, SumOfRemainders
  <2>2. (r + (s % Modulus) * x) % Modulus = (r + s * x) % Modulus
    BY SumOfRemainders
  <2> QED
    BY <2>1, <2>2
<1>6. p + b * q = r + s * x
  <2>1. b * q = b * w + b * c * x
    BY <1>2
  <2>2. s * x = a * x + b * c * x
    BY <1>2
  <2>3. b * w \in Nat /\ b * c * x \in Nat /\ a * x \in Nat /\ b * q \in Nat /\ s * x \in Nat
    OBVIOUS
  <2> QED
    BY <1>2, <2>1, <2>2, <2>3
<1> QED
  BY <1>2, <1>4, <1>5, <1>6 DEF Plus

LEMMA SumOfSumsAt ==
  ASSUME NEW v, NEW w, NEW x, NEW i, v[i] \in Nat, w[i] \in Nat, x[i] \in Nat,
         NEW a \in Nat, NEW b \in Nat, NEW c \in Nat
  PROVE  Plus(Plus(v[i], a, x[i]), b, Plus(w[i], c, x[i])) =
           Plus(Plus(v[i], b, w[i]), Plus(a, b, c), x[i])
<1>1. PICK p \in Nat, q \in Nat, r \in Nat : p = v[i] /\ q = w[i] /\ r = x[i]
  OBVIOUS
<1>2. Plus(Plus(p, a, r), b, Plus(q, c, r)) = Plus(Plus(p, b, q), Plus(a, b, c), r)
  BY SumOfSums, SMTT(20)
<1> QED
  BY <1>1, <1>2

(* What takes a multiple off again *)
Opposite(a) == (Modulus - a) % Modulus

LEMMA SumTakenBack ==
  ASSUME NEW v \in Nat, NEW a \in Scalar, NEW w \in Nat
  PROVE  /\ Opposite(a) \in Scalar
         /\ Plus(Plus(v, a, w), Opposite(a), w) = v % Modulus
<1>1. Modulus \in Nat /\ a \in Nat /\ Modulus - a \in Nat
  BY Remainders DEF Scalar
<1>2. PICK b \in Nat : b = Modulus - a
  BY <1>1
<1>3. Opposite(a) = b % Modulus /\ b % Modulus \in Scalar /\ b % Modulus \in Nat
  BY <1>2, Quotients DEF Opposite
<1>4. v + a * w \in Nat /\ b * w \in Nat
  BY <1>1
<1>5. PICK s \in Nat : s = v + a * w
  BY <1>4
<1>6. ((s % Modulus) + (b % Modulus) * w) % Modulus = (s + b * w) % Modulus
  <2>1. ((s % Modulus) + (b % Modulus) * w) % Modulus = (s + (b % Modulus) * w) % Modulus
    BY <1>3, SumOfRemainders
  <2>2. (s + (b % Modulus) * w) % Modulus = (s + b * w) % Modulus
    BY SumOfRemainders
  <2> QED
    BY <2>1, <2>2
<1>7. s + b * w = v + w * Modulus
  <2>1. b * w = w * Modulus - a * w
    BY <1>1, <1>2
  <2>2. a * w \in Nat /\ w * Modulus \in Nat
    BY <1>1
  <2> QED
    BY <1>4, <1>5, <2>1, <2>2
<1>8. (s + b * w) % Modulus = v % Modulus
  BY <1>4, <1>7, SameRemainder
<1> QED
  BY <1>3, <1>5, <1>6, <1>8 DEF Plus

-----------------------------------------------------------------------------
(* Spaces of rows *)

(* Rows as they are stored, and rows of sums *)
RowsOn(cols) == [cols -> Scalar]
SumsOn(cols) == [cols -> Nat]

Subspace(V, cols) ==
  /\ V \subseteq RowsOn(cols) /\ ZeroRow(cols) \in V
  /\ \A v, w \in V : \A a \in Scalar : ReducedBy(v, a, w) \in V

LEMMA ScalarsAreNumbers ==
  /\ Scalar \subseteq Nat
  /\ \A cols : RowsOn(cols) \subseteq SumsOn(cols)
<1>1. Scalar \subseteq Nat
  BY Remainders DEF Scalar
<1> QED
  BY <1>1 DEF RowsOn, SumsOn

LEMMA Entries ==
  ASSUME NEW cols, NEW c \in cols
  PROVE  /\ \A v \in SumsOn(cols) : v[c] \in Nat
         /\ \A v \in RowsOn(cols) : v[c] \in Nat /\ v[c] \in Scalar /\ v[c] % Modulus = v[c]
<1>1. \A v \in SumsOn(cols) : v[c] \in Nat
  BY DEF SumsOn
<1>2. \A v \in RowsOn(cols) : v[c] \in Scalar
  BY DEF RowsOn
<1> QED
  BY <1>1, <1>2, Remainders, ScalarsAreNumbers

LEMMA ReducedByIs ==
  ASSUME NEW cols, NEW v \in SumsOn(cols), NEW w \in SumsOn(cols), NEW a \in Nat
  PROVE  /\ ReducedBy(v, a, w) \in RowsOn(cols)
         /\ \A c \in cols : ReducedBy(v, a, w)[c] = Plus(v[c], a, w[c])
<1>1. AddRowMultiple(v, a, w) = [c \in cols |-> v[c] + a * w[c]]
  BY DEF AddRowMultiple, SumsOn
<1>2. \A c \in cols : v[c] \in Nat /\ w[c] \in Nat
  BY DEF SumsOn
<1>3. \A c \in cols : v[c] + a * w[c] \in Nat
  BY <1>2
<1>4. ReducedBy(v, a, w) = [c \in cols |-> Plus(v[c], a, w[c])]
  BY <1>1 DEF ReducedBy, TakeModulus, Plus
<1>5. \A c \in cols : Plus(v[c], a, w[c]) \in Scalar
  BY <1>2, PlusIsScalar
<1>6. ReducedBy(v, a, w) \in RowsOn(cols)
  BY <1>4, <1>5 DEF RowsOn
<1> QED
  BY <1>4, <1>6

(* Rows are equal if they are in every column. *)
LEMMA RowsEqual ==
  ASSUME NEW cols, NEW v \in RowsOn(cols), NEW w \in RowsOn(cols),
         \A c \in cols : v[c] = w[c]
  PROVE  v = w
  BY DEF RowsOn

LEMMA ZeroRowIs ==
  ASSUME NEW cols
  PROVE  /\ ZeroRow(cols) \in RowsOn(cols) /\ \A c \in cols : ZeroRow(cols)[c] = 0
         /\ \A v \in RowsOn(cols) : \A x \in SumsOn(cols) : ReducedBy(v, 0, x) = v
         /\ \A v \in RowsOn(cols) : ReducedBy(ZeroRow(cols), 1, v) = v
         /\ \A v \in RowsOn(cols) : Zero(v) <=> v = ZeroRow(cols)
<1>1. ZeroRow(cols) \in RowsOn(cols) /\ \A c \in cols : ZeroRow(cols)[c] = 0
  BY Remainders DEF ZeroRow, RowsOn
<1>2. ASSUME NEW v \in RowsOn(cols), NEW x \in SumsOn(cols)
      PROVE  ReducedBy(v, 0, x) = v
  <2>1. v \in SumsOn(cols) /\ 0 \in Nat
    BY ScalarsAreNumbers
  <2>2. /\ ReducedBy(v, 0, x) \in RowsOn(cols)
        /\ \A c \in cols : ReducedBy(v, 0, x)[c] = Plus(v[c], 0, x[c])
    BY <2>1, ReducedByIs
  <2>3. ASSUME NEW c \in cols
        PROVE  Plus(v[c], 0, x[c]) = v[c]
    <3>1. v[c] \in Nat /\ x[c] \in Nat /\ v[c] % Modulus = v[c]
      BY Entries
    <3>2. v[c] + 0 * x[c] = v[c]
      BY <3>1
    <3> QED
      BY <3>1, <3>2 DEF Plus
  <2> QED
    BY <2>2, <2>3, RowsEqual
<1>3. ASSUME NEW v \in RowsOn(cols)
      PROVE  ReducedBy(ZeroRow(cols), 1, v) = v
  <2>1. v \in SumsOn(cols) /\ ZeroRow(cols) \in SumsOn(cols) /\ 1 \in Nat
    BY <1>1, ScalarsAreNumbers
  <2>2. /\ ReducedBy(ZeroRow(cols), 1, v) \in RowsOn(cols)
        /\ \A c \in cols : ReducedBy(ZeroRow(cols), 1, v)[c] =
                             Plus(ZeroRow(cols)[c], 1, v[c])
    BY <2>1, ReducedByIs
  <2>3. ASSUME NEW c \in cols
        PROVE  Plus(ZeroRow(cols)[c], 1, v[c]) = v[c]
    <3>1. v[c] \in Nat /\ v[c] % Modulus = v[c]
      BY Entries
    <3>2. ZeroRow(cols)[c] + 1 * v[c] = v[c]
      BY <1>1, <3>1
    <3> QED
      BY <3>1, <3>2 DEF Plus
  <2> QED
    BY <2>2, <2>3, RowsEqual
<1>4. ASSUME NEW v \in RowsOn(cols)
      PROVE  Zero(v) <=> v = ZeroRow(cols)
  BY <1>1 DEF Zero, ZeroRow, RowsOn
<1> QED
  BY <1>1, <1>2, <1>3, <1>4

(* A space has a row if and only if it has the row reduced by one of its own. *)
LEMMA SpaceClosed ==
  ASSUME NEW cols, NEW V, Subspace(V, cols), NEW v \in RowsOn(cols), NEW w \in V,
         NEW a \in Scalar
  PROVE  ReducedBy(v, a, w) \in V <=> v \in V
<1>1. w \in RowsOn(cols)
  BY DEF Subspace
<1>2. v \in V => ReducedBy(v, a, w) \in V
  BY DEF Subspace
<1>3. v \in SumsOn(cols) /\ w \in SumsOn(cols) /\ a \in Nat
  BY <1>1, ScalarsAreNumbers
<1>4. PICK u : u = ReducedBy(v, a, w)
  OBVIOUS
<1>5. u \in RowsOn(cols) /\ \A c \in cols : u[c] = Plus(v[c], a, w[c])
  <2>1. /\ ReducedBy(v, a, w) \in RowsOn(cols)
        /\ \A c \in cols : ReducedBy(v, a, w)[c] = Plus(v[c], a, w[c])
    BY <1>3, ReducedByIs
  <2> QED
    BY <1>4, <2>1
<1>6. PICK b \in Scalar : b = Opposite(a)
  <2>1. 0 \in Nat
    OBVIOUS
  <2> QED
    BY <2>1, SumTakenBack
<1>7. u \in SumsOn(cols) /\ b \in Nat
  BY <1>5, ScalarsAreNumbers
<1>8. \A c \in cols : ReducedBy(u, b, w)[c] = Plus(u[c], b, w[c])
  BY <1>3, <1>7, ReducedByIs
<1>9. ASSUME NEW c \in cols
      PROVE  Plus(u[c], b, w[c]) = v[c]
  <2>1. v[c] \in Nat /\ w[c] \in Nat /\ v[c] % Modulus = v[c]
    BY <1>3, Entries
  <2>2. Plus(Plus(v[c], a, w[c]), Opposite(a), w[c]) = v[c] % Modulus
    BY <2>1, SumTakenBack
  <2> QED
    BY <1>5, <1>6, <2>1, <2>2
<1>10. ReducedBy(u, b, w) \in RowsOn(cols)
  BY <1>3, <1>7, ReducedByIs
<1>11. ReducedBy(u, b, w) = v
  BY <1>8, <1>9, <1>10, RowsEqual
<1>12. u \in V => v \in V
  BY <1>11 DEF Subspace
<1> QED
  BY <1>2, <1>4, <1>12

LEMMA ExtendedIsSpace ==
  ASSUME NEW cols, NEW V, Subspace(V, cols), NEW x \in RowsOn(cols)
  PROVE  /\ Subspace(Extended(V, x), cols) /\ V \subseteq Extended(V, x) /\ x \in Extended(V, x)
         /\ \A W : Subspace(W, cols) /\ V \subseteq W /\ x \in W => Extended(V, x) \subseteq W
<1>1. /\ V \subseteq RowsOn(cols) /\ ZeroRow(cols) \in V /\ 0 \in Scalar /\ 1 \in Scalar
      /\ x \in SumsOn(cols) /\ RowsOn(cols) \subseteq SumsOn(cols) /\ Scalar \subseteq Nat
  BY Remainders, ScalarsAreNumbers DEF Subspace
<1>2. \A v \in V : \A a \in Scalar : ReducedBy(v, a, x) \in RowsOn(cols)
  BY <1>1, ReducedByIs
<1>3. Extended(V, x) \subseteq RowsOn(cols)
  BY <1>2 DEF Extended
<1>4. \A v \in V : ReducedBy(v, 0, x) = v
  BY <1>1, ZeroRowIs
<1>5. V \subseteq Extended(V, x)
  BY <1>1, <1>4 DEF Extended
<1>6. x \in Extended(V, x)
  <2>1. ReducedBy(ZeroRow(cols), 1, x) = x
    BY ZeroRowIs
  <2> QED
    BY <1>1, <2>1 DEF Extended
<1>7. ASSUME NEW y \in Extended(V, x), NEW z \in Extended(V, x), NEW b \in Scalar
      PROVE  ReducedBy(y, b, z) \in Extended(V, x)
  <2>1. PICK v \in V, a \in Scalar : y = ReducedBy(v, a, x)
    BY DEF Extended
  <2>2. PICK w \in V, c \in Scalar : z = ReducedBy(w, c, x)
    BY DEF Extended
  <2>3. /\ v \in SumsOn(cols) /\ w \in SumsOn(cols) /\ a \in Nat /\ b \in Nat /\ c \in Nat
    BY <1>1
  <2>4. \A i \in cols : y[i] = Plus(v[i], a, x[i])
    <3>1. \A i \in cols : ReducedBy(v, a, x)[i] = Plus(v[i], a, x[i])
      BY <1>1, <2>3, ReducedByIs
    <3> QED
      BY <2>1, <3>1
  <2>5. \A i \in cols : z[i] = Plus(w[i], c, x[i])
    <3>1. \A i \in cols : ReducedBy(w, c, x)[i] = Plus(w[i], c, x[i])
      BY <1>1, <2>3, ReducedByIs
    <3> QED
      BY <2>2, <3>1
  <2>6. y \in SumsOn(cols) /\ z \in SumsOn(cols)
    BY <1>1, <1>3
  <2>7. ReducedBy(v, b, w) \in V
    BY DEF Subspace
  <2>8. PICK d \in Scalar : d = Plus(a, b, c)
    BY <2>3, PlusIsScalar
  <2>9. /\ ReducedBy(v, b, w) \in SumsOn(cols)
        /\ \A i \in cols : ReducedBy(v, b, w)[i] = Plus(v[i], b, w[i])
    BY <1>1, <2>3, <2>7, ReducedByIs
  <2>10. PICK u \in V : u = ReducedBy(v, b, w)
    BY <2>7
  <2>11. /\ ReducedBy(u, d, x) \in RowsOn(cols)
         /\ \A i \in cols : ReducedBy(u, d, x)[i] = Plus(u[i], d, x[i])
    <3>1. u \in SumsOn(cols) /\ d \in Nat
      BY <1>1
    <3> QED
      BY <1>1, <3>1, ReducedByIs
  <2>12. /\ ReducedBy(y, b, z) \in RowsOn(cols)
         /\ \A i \in cols : ReducedBy(y, b, z)[i] = Plus(y[i], b, z[i])
    BY <2>3, <2>6, ReducedByIs
  <2>13. \A i \in cols : Plus(y[i], b, z[i]) = Plus(u[i], d, x[i])
    <3>1. ASSUME NEW i \in cols
          PROVE  Plus(y[i], b, z[i]) = Plus(u[i], d, x[i])
      <4>1. /\ v[i] \in Nat /\ w[i] \in Nat /\ x[i] \in Nat
            /\ a \in Nat /\ b \in Nat /\ c \in Nat
        BY <1>1, <2>3, Entries
      <4>2. Plus(Plus(v[i], a, x[i]), b, Plus(w[i], c, x[i])) =
              Plus(Plus(v[i], b, w[i]), Plus(a, b, c), x[i])
        BY <4>1, SumOfSumsAt
      <4>3. u[i] = Plus(v[i], b, w[i])
        BY <2>9, <2>10
      <4> QED
        BY <2>4, <2>5, <2>8, <4>2, <4>3
    <3> QED
      BY <3>1
  <2>14. ReducedBy(y, b, z) = ReducedBy(u, d, x)
    BY <2>11, <2>12, <2>13, RowsEqual
  <2> QED
    BY <2>14 DEF Extended
<1>8. Subspace(Extended(V, x), cols)
  BY <1>1, <1>3, <1>5, <1>7 DEF Subspace
<1>9. \A W : Subspace(W, cols) /\ V \subseteq W /\ x \in W => Extended(V, x) \subseteq W
  BY DEF Extended, Subspace
<1> QED
  BY <1>5, <1>6, <1>8, <1>9

-----------------------------------------------------------------------------
(* Span *)

(* The fold that Span is, over the subsets of rows *)
Spanning(span, cols, rows) ==
  span = [S \in SUBSET rows |->
            IF S = {} THEN {ZeroRow(cols)}
            ELSE Extended(span[S \ {CHOOSE row \in S : TRUE}], CHOOSE row \in S : TRUE)]

(* It is defined for sets of up to n rows. *)
SpanningUpTo(span, cols, rows, n) ==
  span = [S \in {T \in SUBSET rows : Cardinality(T) <= n} |->
            IF S = {} THEN {ZeroRow(cols)}
            ELSE Extended(span[S \ {CHOOSE row \in S : TRUE}], CHOOSE row \in S : TRUE)]

LEMMA OneRowLess ==
  ASSUME NEW rows, IsFiniteSet(rows), NEW S, S \subseteq rows, S # {}
  PROVE  /\ (CHOOSE row \in S : TRUE) \in S
         /\ S \ {CHOOSE row \in S : TRUE} \subseteq rows
         /\ Cardinality(S) \in Nat
         /\ Cardinality(S \ {CHOOSE row \in S : TRUE}) = Cardinality(S) - 1
<1>1. (CHOOSE row \in S : TRUE) \in S
  OBVIOUS
<1>2. IsFiniteSet(S)
  BY FS_Subset
<1>3. PICK x \in S : x = CHOOSE row \in S : TRUE
  BY <1>1
<1>4. Cardinality(S \ {x}) = Cardinality(S) - 1 /\ Cardinality(S) \in Nat
  BY <1>2, FS_RemoveElement, FS_CardinalityType
<1> QED
  BY <1>1, <1>3, <1>4

LEMMA SpanningExists ==
  ASSUME NEW cols, NEW rows, IsFiniteSet(rows)
  PROVE  \E span : Spanning(span, cols, rows)
<1> DEFINE N == Cardinality(rows)
           T == {n \in 0..N : \E span : SpanningUpTo(span, cols, rows, n)}
           Upto(n) == {S \in SUBSET rows : Cardinality(S) <= n}
           Less(S) == S \ {CHOOSE row \in S : TRUE}
           Turn(span, S) == IF S = {} THEN {ZeroRow(cols)}
                            ELSE Extended(span[Less(S)], CHOOSE row \in S : TRUE)
<1>1. N \in Nat /\ \A S \in SUBSET rows : Cardinality(S) \in Nat /\ Cardinality(S) <= N
  BY FS_CardinalityType, FS_Subset
<1>2. \A S \in SUBSET rows : S # {} => /\ Less(S) \in SUBSET rows
                                       /\ Cardinality(Less(S)) = Cardinality(S) - 1
  BY OneRowLess
<1>3. \A f, g : \A S \in SUBSET rows :
        (S # {} => f[Less(S)] = g[Less(S)]) => Turn(f, S) = Turn(g, S)
  OBVIOUS
<1>4. \A n, span : SpanningUpTo(span, cols, rows, n) <=> span = [S \in Upto(n) |-> Turn(span, S)]
  BY DEF SpanningUpTo
<1> HIDE DEF Less, Turn
<1>5. 0 \in T
  <2> DEFINE span == [S \in Upto(0) |-> Turn(<<>>, S)]
  <2>1. \A S \in Upto(0) : S = {}
    <3>1. ASSUME NEW S \in Upto(0), S # {}
          PROVE  FALSE
      BY <1>1, <1>2, <3>1
    <3> QED
      BY <3>1
  <2>2. \A S \in Upto(0) : Turn(<<>>, S) = Turn(span, S)
    BY <1>3, <2>1
  <2>3. span = [S \in Upto(0) |-> Turn(span, S)]
    BY <2>2
  <2>4. 0 \in 0..N
    BY <1>1
  <2> QED
    BY <1>4, <2>3, <2>4
<1>6. ASSUME NEW n \in 1..N, n - 1 \in T
      PROVE  n \in T
  <2>1. PICK before : before = [S \in Upto(n - 1) |-> Turn(before, S)]
    BY <1>4, <1>6, ZenonT(40)
  <2> DEFINE span == [S \in Upto(n) |-> Turn(before, S)]
  <2>2. \A S \in Upto(n - 1) : before[S] = span[S]
    <3>1. \A S \in Upto(n - 1) : S \in Upto(n)
      BY <1>1
    <3>2. \A S \in Upto(n - 1) : before[S] = Turn(before, S)
      BY <2>1
    <3> QED
      BY <3>1, <3>2
  <2>3. \A S \in Upto(n) : S # {} => Less(S) \in Upto(n - 1)
    BY <1>1, <1>2
  <2> HIDE DEF span
  <2>4. \A S \in Upto(n) : Turn(before, S) = Turn(span, S)
    BY <1>3, <2>2, <2>3
  <2>5. span = [S \in Upto(n) |-> Turn(span, S)]
    BY <2>4 DEF span
  <2> QED
    BY <1>4, <2>5
<1> HIDE DEF T
<1>7. N \in T
  <2>1. 0..N \subseteq T
    BY <1>1, <1>5, <1>6, EachTurn
  <2> QED
    BY <1>1, <2>1
<1>8. PICK span : span = [S \in Upto(N) |-> Turn(span, S)]
  BY <1>4, <1>7 DEF T
<1>9. Upto(N) = SUBSET rows
  BY <1>1
<1>10. span = [S \in SUBSET rows |-> Turn(span, S)]
  BY <1>8, <1>9
<1>11. Spanning(span, cols, rows)
  BY <1>10 DEF Spanning, Turn, Less
<1> QED
  BY <1>11

(* Sums belong to a space by what they leave modulo the modulus. *)
Holds(V, S) == \A x \in S : TakeModulus(x) \in V

(* The space that holds S and lies in every other that does *)
LeastSpace(V, S, cols) ==
  /\ Subspace(V, cols) /\ Holds(V, S)
  /\ \A W : Subspace(W, cols) /\ Holds(W, S) => V \subseteq W

LEMMA TakeModulusIs ==
  ASSUME NEW cols, NEW x \in SumsOn(cols)
  PROVE  /\ TakeModulus(x) \in RowsOn(cols) /\ \A c \in cols : TakeModulus(x)[c] = x[c] % Modulus
         /\ x \in RowsOn(cols) => TakeModulus(x) = x
         /\ \A v \in SumsOn(cols) : \A a \in Nat :
              ReducedBy(v, a, TakeModulus(x)) = ReducedBy(v, a, x)
<1>1. TakeModulus(x) = [c \in cols |-> x[c] % Modulus] /\ \A c \in cols : x[c] \in Nat
  BY DEF TakeModulus, SumsOn
<1>2. /\ TakeModulus(x) \in RowsOn(cols)
      /\ \A c \in cols : TakeModulus(x)[c] = x[c] % Modulus
  BY <1>1, Remainders DEF RowsOn
<1>3. x \in RowsOn(cols) => TakeModulus(x) = x
  BY <1>2, Entries, RowsEqual
<1>4. ASSUME NEW v \in SumsOn(cols), NEW a \in Nat
      PROVE  ReducedBy(v, a, TakeModulus(x)) = ReducedBy(v, a, x)
  <2>1. TakeModulus(x) \in SumsOn(cols)
    BY <1>2, ScalarsAreNumbers
  <2>2. /\ ReducedBy(v, a, TakeModulus(x)) \in RowsOn(cols)
        /\ \A c \in cols : ReducedBy(v, a, TakeModulus(x))[c] = Plus(v[c], a, TakeModulus(x)[c])
    BY <2>1, ReducedByIs
  <2>3. /\ ReducedBy(v, a, x) \in RowsOn(cols)
        /\ \A c \in cols : ReducedBy(v, a, x)[c] = Plus(v[c], a, x[c])
    BY ReducedByIs
  <2>4. \A c \in cols : Plus(v[c], a, TakeModulus(x)[c]) = Plus(v[c], a, x[c])
    <3>1. ASSUME NEW c \in cols
          PROVE  Plus(v[c], a, x[c] % Modulus) = Plus(v[c], a, x[c])
      <4>1. v[c] \in Nat /\ x[c] \in Nat
        BY Entries
      <4> QED
        BY <4>1, SumOfRemainders DEF Plus
    <3> QED
      BY <1>2, <3>1
  <2> QED
    BY <2>2, <2>3, <2>4, RowsEqual
<1> QED
  BY <1>2, <1>3, <1>4

LEMMA NothingSpans ==
  ASSUME NEW cols
  PROVE  LeastSpace({ZeroRow(cols)}, {}, cols)
<1>1. PICK z : z = ZeroRow(cols)
  OBVIOUS
<1>2. z \in RowsOn(cols) /\ \A c \in cols : z[c] = 0
  BY <1>1, ZeroRowIs
<1>3. z \in SumsOn(cols)
  BY <1>2, ScalarsAreNumbers
<1>4. ASSUME NEW a \in Scalar
      PROVE  ReducedBy(z, a, z) = z
  <2>1. a \in Nat
    BY ScalarsAreNumbers
  <2>2. ReducedBy(z, a, z) \in RowsOn(cols) /\ \A c \in cols : ReducedBy(z, a, z)[c] = Plus(z[c], a, z[c])
    BY <1>3, <2>1, ReducedByIs
  <2>3. Plus(0, a, 0) = 0
    <3>1. 0 + a * 0 = 0 /\ 0 % Modulus = 0
      BY <2>1, Remainders
    <3> QED
      BY <3>1 DEF Plus
  <2> QED
    BY <1>2, <2>2, <2>3, RowsEqual
<1>5. Subspace({z}, cols)
  BY <1>1, <1>2, <1>4 DEF Subspace
<1> QED
  BY <1>1, <1>5 DEF LeastSpace, Subspace, Holds

LEMMA OneMoreSpans ==
  ASSUME NEW cols, NEW V, NEW S, NEW x \in SumsOn(cols), LeastSpace(V, S \ {x}, cols), x \in S
  PROVE  LeastSpace(Extended(V, x), S, cols)
<1> DEFINE y == TakeModulus(x)
<1>1. Subspace(V, cols) /\ Holds(V, S \ {x})
  BY DEF LeastSpace
<1>2. y \in RowsOn(cols)
  BY TakeModulusIs
<1>3. Extended(V, x) = Extended(V, y)
  <2>1. \A v \in V : \A a \in Scalar : ReducedBy(v, a, x) = ReducedBy(v, a, y)
    <3>1. \A v \in V : v \in SumsOn(cols)
      BY <1>1, ScalarsAreNumbers DEF Subspace
    <3> QED
      BY <3>1, TakeModulusIs, ScalarsAreNumbers
  <2> HIDE DEF y
  <2> QED
    BY <2>1 DEF Extended
<1> HIDE DEF y
<1>4. /\ Subspace(Extended(V, y), cols) /\ V \subseteq Extended(V, y) /\ y \in Extended(V, y)
      /\ \A W : Subspace(W, cols) /\ V \subseteq W /\ y \in W => Extended(V, y) \subseteq W
  BY <1>1, <1>2, ExtendedIsSpace
<1>5. Holds(Extended(V, y), S)
  BY <1>1, <1>4 DEF Holds, y
<1>6. ASSUME NEW W, Subspace(W, cols), Holds(W, S)
      PROVE  Extended(V, y) \subseteq W
  <2>1. Holds(W, S \ {x}) /\ y \in W
    BY <1>6 DEF Holds, y
  <2>2. V \subseteq W
    BY <1>6, <2>1 DEF LeastSpace
  <2> QED
    BY <1>4, <1>6, <2>1, <2>2
<1> QED
  BY <1>3, <1>4, <1>5, <1>6 DEF LeastSpace

LEMMA SpansAreLeast ==
  ASSUME NEW cols, NEW rows, IsFiniteSet(rows), rows \subseteq SumsOn(cols),
         NEW span, Spanning(span, cols, rows)
  PROVE  \A S \in SUBSET rows : LeastSpace(span[S], S, cols)
<1> DEFINE N == Cardinality(rows)
           T == {n \in 0..N : \A S \in SUBSET rows :
                                Cardinality(S) <= n => LeastSpace(span[S], S, cols)}
<1>1. N \in Nat /\ \A S \in SUBSET rows : Cardinality(S) \in Nat /\ Cardinality(S) <= N
  BY FS_CardinalityType, FS_Subset
<1>2. ASSUME NEW S \in SUBSET rows, S = {}
      PROVE  LeastSpace(span[S], S, cols)
  <2>1. span[S] = {ZeroRow(cols)}
    BY <1>2 DEF Spanning
  <2> QED
    BY <1>2, <2>1, NothingSpans
<1>3. 0 \in T
  <2>1. ASSUME NEW S \in SUBSET rows, Cardinality(S) <= 0, S # {}
        PROVE  FALSE
    <3>1. PICK R \in SUBSET rows : Cardinality(R) = Cardinality(S) - 1
      BY <2>1, OneRowLess
    <3> QED
      BY <1>1, <2>1, <3>1
  <2> QED
    BY <1>1, <1>2, <2>1
<1>4. ASSUME NEW n \in 1..N, n - 1 \in T
      PROVE  n \in T
  <2>1. ASSUME NEW S \in SUBSET rows, Cardinality(S) <= n, S # {}
        PROVE  LeastSpace(span[S], S, cols)
    <3>1. PICK x : x = CHOOSE row \in S : TRUE
      OBVIOUS
    <3>2. /\ x \in S /\ S \ {x} \in SUBSET rows
          /\ Cardinality(S) \in Nat /\ Cardinality(S \ {x}) = Cardinality(S) - 1
      BY <2>1, <3>1, OneRowLess
    <3>3. Cardinality(S \ {x}) <= n - 1
      BY <1>1, <2>1, <3>2
    <3>4. LeastSpace(span[S \ {x}], S \ {x}, cols)
      BY <1>4, <3>2, <3>3
    <3>5. span[S] = Extended(span[S \ {x}], x)
      BY <2>1, <3>1 DEF Spanning
    <3>6. x \in SumsOn(cols)
      BY <3>2
    <3> QED
      BY <3>2, <3>4, <3>5, <3>6, OneMoreSpans
  <2> QED
    BY <1>1, <1>2, <2>1
<1> HIDE DEF T
<1>5. N \in T
  <2>1. 0..N \subseteq T
    BY <1>1, <1>3, <1>4, EachTurn
  <2> QED
    BY <1>1, <2>1
<1> QED
  BY <1>1, <1>5 DEF T

(* Span is what it is meant to be. *)
LEMMA SpanIsLeast ==
  ASSUME NEW cols, NEW rows, IsFiniteSet(rows), rows \subseteq SumsOn(cols),
         rows = {} => cols = RightCols
  PROVE  LeastSpace(Span(rows), rows, cols)
<1>1. CASE rows = {}
  <2>1. Span(rows) = {ZeroRow(cols)}
    BY <1>1 DEF Span, FoldSet, MapThenFoldSet
  <2> QED
    BY <1>1, <2>1, NothingSpans
<1>2. CASE rows # {}
  <2>1. DOMAIN (CHOOSE row \in rows : TRUE) = cols
    <3>1. (CHOOSE row \in rows : TRUE) \in SumsOn(cols)
      BY <1>2
    <3> QED
      BY <3>1 DEF SumsOn
  <2> DEFINE span == CHOOSE f : f = [S \in SUBSET rows |->
            IF S = {} THEN {ZeroRow(cols)}
            ELSE Extended(f[S \ {CHOOSE row \in S : TRUE}], CHOOSE row \in S : TRUE)]
  <2>2. Span(rows) = span[rows]
    BY <1>2, <2>1 DEF Span, FoldSet, MapThenFoldSet
  <2>3. span = [S \in SUBSET rows |->
            IF S = {} THEN {ZeroRow(cols)}
            ELSE Extended(span[S \ {CHOOSE row \in S : TRUE}], CHOOSE row \in S : TRUE)]
    <3>1. \E f : f = [S \in SUBSET rows |->
            IF S = {} THEN {ZeroRow(cols)}
            ELSE Extended(f[S \ {CHOOSE row \in S : TRUE}], CHOOSE row \in S : TRUE)]
      <4>1. PICK f : Spanning(f, cols, rows)
        BY SpanningExists
      <4>2. f = [S \in SUBSET rows |->
            IF S = {} THEN {ZeroRow(cols)}
            ELSE Extended(f[S \ {CHOOSE row \in S : TRUE}], CHOOSE row \in S : TRUE)]
        BY <4>1 DEF Spanning
      <4> QED
        BY <4>2
    <3> QED
      BY <3>1, Zenon
  <2> HIDE DEF span
  <2>4. rows \in SUBSET rows /\ Spanning(span, cols, rows)
    BY <2>3 DEF Spanning
  <2> QED
    BY <2>2, <2>4, SpansAreLeast
<1> QED
  BY <1>1, <1>2

(* Two sets of rows span the same if the same spaces hold them. *)
LEMMA SameSpan ==
  ASSUME NEW cols, NEW A, IsFiniteSet(A), A \subseteq SumsOn(cols), A = {} => cols = RightCols,
         NEW B, IsFiniteSet(B), B \subseteq SumsOn(cols), B = {} => cols = RightCols,
         \A V : Subspace(V, cols) => (Holds(V, A) <=> Holds(V, B))
  PROVE  Span(A) = Span(B)
<1>1. LeastSpace(Span(A), A, cols) /\ LeastSpace(Span(B), B, cols)
  BY SpanIsLeast
<1>2. Holds(Span(A), B) /\ Holds(Span(B), A)
  BY <1>1 DEF LeastSpace
<1> QED
  BY <1>1, <1>2 DEF LeastSpace

-----------------------------------------------------------------------------
(* What is done to a row changes no space that holds the rows it is reduced by *)

LEMMA RightRows ==
  /\ DenseRow = SumsOn(RightCols) /\ ScalarRow = RowsOn(RightCols)
  /\ Right \in Nat /\ RightCols = 0..Right - 1 /\ RightCols \subseteq Nat
  /\ ScalarRow \subseteq DenseRow
<1>1. Right \in Nat /\ RightCols = 0..Right - 1
  BY QuadMatricesAssumption DEF RightCols
<1> QED
  BY <1>1, ScalarsAreNumbers DEF DenseRow, ScalarRow, RowsOn, SumsOn

(* Rows that are the same modulo the modulus *)
LEMMA SameRemainders ==
  ASSUME NEW d \in DenseRow, NEW e \in DenseRow,
         \A c \in RightCols : d[c] % Modulus = e[c] % Modulus
  PROVE  TakeModulus(d) = TakeModulus(e)
<1>1. d \in SumsOn(RightCols) /\ e \in SumsOn(RightCols)
  BY RightRows
<1>2. /\ TakeModulus(d) \in RowsOn(RightCols) /\ TakeModulus(e) \in RowsOn(RightCols)
      /\ \A c \in RightCols : TakeModulus(d)[c] = d[c] % Modulus
      /\ \A c \in RightCols : TakeModulus(e)[c] = e[c] % Modulus
  BY <1>1, TakeModulusIs
<1> QED
  BY <1>2, RowsEqual

LEMMA ClearedModulo ==
  ASSUME NEW d \in DenseRow, NEW pivot \in ScalarRow, NEW col, BeginsIn(pivot, col)
  PROVE  \E a \in Scalar :
           TakeModulus(RowReduceByUnitary(d, pivot)) = ReducedBy(TakeModulus(d), a, pivot)
<1> DEFINE cleared == [d EXCEPT ![col] = 0]
           rest == [pivot EXCEPT ![col] = 0]
           entry == d[col] % Modulus
           e == RowReduceByUnitary(d, pivot)
<1>1. /\ DOMAIN pivot = RightCols /\ \A c \in RightCols : pivot[c] \in Scalar /\ pivot[c] \in Nat
      /\ d \in [RightCols -> Nat] /\ RightCols \subseteq Nat
  BY RightRows, ScalarsAreNumbers DEF ScalarRow, DenseRow
<1>2. col \in RightCols /\ pivot[col] = 1 /\ LeadCol(pivot) = col
  BY <1>1, LeadIs DEF BeginsIn
<1>3. e = IF entry = 0 THEN cleared ELSE AddRowMultiple(cleared, Modulus - entry, rest)
  BY <1>2 DEF RowReduceByUnitary
<1>4. entry \in Scalar /\ entry \in Nat /\ Modulus \in Nat /\ 0 % Modulus = 0
  BY <1>1, <1>2, Remainders, ScalarsAreNumbers
<1>5. /\ d \in SumsOn(RightCols) /\ pivot \in SumsOn(RightCols) /\ e \in SumsOn(RightCols)
  BY RowReduced, RightRows
<1>6. /\ TakeModulus(d) \in SumsOn(RightCols)
      /\ \A c \in RightCols : TakeModulus(d)[c] = d[c] % Modulus
      /\ TakeModulus(e) \in RowsOn(RightCols)
      /\ \A c \in RightCols : TakeModulus(e)[c] = e[c] % Modulus
  BY <1>5, TakeModulusIs, ScalarsAreNumbers
<1>7. /\ \A c \in RightCols : cleared[c] = IF c = col THEN 0 ELSE d[c]
      /\ \A c \in RightCols : rest[c] = IF c = col THEN 0 ELSE pivot[c]
      /\ DOMAIN cleared = RightCols
  BY <1>1
<1> HIDE DEF entry, cleared, rest, e
<1>8. CASE entry = 0
  <2>1. e = cleared
    BY <1>3, <1>8
  <2>2. 0 \in Scalar /\ 0 \in Nat
    BY Remainders
  <2>3. /\ ReducedBy(TakeModulus(d), 0, pivot) \in RowsOn(RightCols)
        /\ \A c \in RightCols :
             ReducedBy(TakeModulus(d), 0, pivot)[c] = Plus(TakeModulus(d)[c], 0, pivot[c])
    BY <1>5, <1>6, <2>2, ReducedByIs
  <2>4. ASSUME NEW c \in RightCols
        PROVE  Plus(TakeModulus(d)[c], 0, pivot[c]) = TakeModulus(e)[c]
    <3>1. TakeModulus(d)[c] \in Nat /\ pivot[c] \in Nat /\ d[c] \in Nat
      BY <1>1, <1>5, <1>6, Entries
    <3>2. TakeModulus(d)[c] + 0 * pivot[c] = TakeModulus(d)[c]
      BY <3>1
    <3>3. Plus(TakeModulus(d)[c], 0, pivot[c]) = (d[c] % Modulus) % Modulus
      BY <1>6, <3>2 DEF Plus
    <3>4. (d[c] % Modulus) % Modulus = d[c] % Modulus
      BY <3>1, Remainders
    <3>5. e[c] % Modulus = d[c] % Modulus
      BY <1>4, <1>7, <1>8, <2>1 DEF entry
    <3> QED
      BY <1>6, <3>3, <3>4, <3>5
  <2>5. TakeModulus(e) = ReducedBy(TakeModulus(d), 0, pivot)
    BY <1>6, <2>3, <2>4, RowsEqual
  <2> QED
    BY <2>2, <2>5 DEF e
<1>9. CASE entry # 0
  <2>1. PICK a \in Scalar : a = Modulus - entry
    BY <1>4, <1>9 DEF Scalar
  <2>2. e = AddRowMultiple(cleared, a, rest) /\ a \in Nat
    BY <1>3, <1>9, <2>1, ScalarsAreNumbers
  <2>3. \A c \in RightCols : e[c] = cleared[c] + a * rest[c]
    BY <1>7, <2>2 DEF AddRowMultiple
  <2>4. /\ ReducedBy(TakeModulus(d), a, pivot) \in RowsOn(RightCols)
        /\ \A c \in RightCols :
             ReducedBy(TakeModulus(d), a, pivot)[c] = Plus(TakeModulus(d)[c], a, pivot[c])
    BY <1>5, <1>6, <2>2, ReducedByIs
  <2>5. ASSUME NEW c \in RightCols
        PROVE  Plus(TakeModulus(d)[c], a, pivot[c]) = TakeModulus(e)[c]
    <3>1. d[c] \in Nat /\ pivot[c] \in Nat
      BY <1>1
    <3>2. CASE c = col
      <4>1. e[c] = 0
        BY <1>7, <2>2, <2>3, <3>2
      <4>2. entry + a * 1 = Modulus
        BY <1>4, <2>1, <2>2
      <4>3. Modulus % Modulus = 0
        BY <1>4, Remainders
      <4>4. Plus(entry, a, 1) = 0
        BY <4>2, <4>3 DEF Plus
      <4> QED
        BY <1>2, <1>4, <1>6, <3>2, <4>1, <4>4 DEF entry
    <3>3. CASE c # col
      <4>1. e[c] = d[c] + a * pivot[c]
        BY <1>7, <2>3, <3>3
      <4>2. ((d[c] % Modulus) + a * pivot[c]) % Modulus = (d[c] + a * pivot[c]) % Modulus
        BY <2>2, <3>1, SumOfRemainders
      <4> QED
        BY <1>6, <4>1, <4>2 DEF Plus
    <3> QED
      BY <3>2, <3>3
  <2>6. TakeModulus(e) = ReducedBy(TakeModulus(d), a, pivot)
    BY <1>6, <2>4, <2>5, RowsEqual
  <2> QED
    BY <2>6 DEF e
<1> QED
  BY <1>8, <1>9

LEMMA ReductionKeepsSpace ==
  ASSUME NEW V, Subspace(V, RightCols), NEW d \in DenseRow, NEW pivot \in ScalarRow, NEW col,
         BeginsIn(pivot, col), pivot \in V
  PROVE  TakeModulus(RowReduceByUnitary(d, pivot)) \in V <=> TakeModulus(d) \in V
<1>1. PICK a \in Scalar :
        TakeModulus(RowReduceByUnitary(d, pivot)) = ReducedBy(TakeModulus(d), a, pivot)
  BY ClearedModulo
<1>2. TakeModulus(d) \in RowsOn(RightCols)
  BY RightRows, TakeModulusIs
<1>3. ReducedBy(TakeModulus(d), a, pivot) \in V <=> TakeModulus(d) \in V
  BY <1>2, SpaceClosed
<1> QED
  BY <1>1, <1>3

(* A multiple by an invertible scalar *)
LEMMA UnitaryKeepsSpace ==
  ASSUME NEW V, Subspace(V, RightCols), NEW d \in DenseRow, NEW lead \in RightCols,
         d[lead] % Modulus # 0, \A c \in RightCols : c < lead => d[c] % Modulus = 0
  PROVE  TakeModulus(MakeUnitary(d, lead)) \in V <=> TakeModulus(d) \in V
<1>1. PICK a \in Scalar : a = d[lead] % Modulus /\ a # 0
  <2>1. d[lead] \in Nat
    BY DEF DenseRow
  <2> QED
    BY <2>1, Remainders
<1>2. PICK b \in Scalar : b = ModularInverse(a) /\ (a * b) % Modulus = 1
  BY <1>1, InverseExists
<1>3. PICK e \in DenseRow : e = MakeUnitary(d, lead)
  BY MadeUnitary
<1>4. \A c \in RightCols : e[c] = IF c < lead THEN d[c] ELSE ((d[c] % Modulus) * b) % Modulus
  <2>1. DOMAIN d = RightCols
    BY DEF DenseRow
  <2> QED
    BY <1>1, <1>2, <1>3, <2>1 DEF MakeUnitary
<1>5. PICK x \in RowsOn(RightCols) : x = TakeModulus(d)
  BY RightRows, TakeModulusIs
<1>6. PICK y \in RowsOn(RightCols) : y = TakeModulus(e)
  BY RightRows, TakeModulusIs
<1>7. /\ \A c \in RightCols : x[c] = d[c] % Modulus
      /\ \A c \in RightCols : y[c] = e[c] % Modulus
  BY <1>5, <1>6, RightRows, TakeModulusIs
<1>8. /\ x \in SumsOn(RightCols) /\ y \in SumsOn(RightCols) /\ a \in Nat /\ b \in Nat
      /\ Modulus \in Nat
      /\ ZeroRow(RightCols) \in SumsOn(RightCols) /\ ZeroRow(RightCols) \in V
      /\ \A c \in RightCols : ZeroRow(RightCols)[c] = 0
  BY ScalarsAreNumbers, ZeroRowIs, Remainders DEF Subspace
<1>9. \A c \in RightCols : y[c] = Plus(0, b, x[c])
  <2>1. ASSUME NEW c \in RightCols
        PROVE  y[c] = Plus(0, b, x[c])
    <3>1. d[c] \in Nat /\ x[c] \in Nat
      BY <1>8, Entries DEF DenseRow
    <3>2. 0 + b * x[c] = x[c] * b /\ x[c] * b \in Nat
      BY <1>8, <3>1
    <3>3. PICK r \in Nat : r = x[c] * b
      BY <3>2
    <3>4. (r % Modulus) % Modulus = r % Modulus
      BY Remainders
    <3>5. CASE ~(c < lead)
      BY <1>4, <1>7, <3>2, <3>3, <3>4, <3>5 DEF Plus
    <3>6. CASE c < lead
      <4>1. y[c] = 0 /\ x[c] = 0
        BY <1>4, <1>7, <3>6
      <4>2. 0 * b = 0 /\ 0 % Modulus = 0
        BY <1>8, Remainders
      <4> QED
        BY <3>2, <4>1, <4>2 DEF Plus
    <3> QED
      BY <3>5, <3>6
  <2> QED
    BY <2>1
<1>10. \A c \in RightCols : x[c] = Plus(0, a, y[c])
  <2>1. ASSUME NEW c \in RightCols
        PROVE  x[c] = Plus(0, a, y[c])
    <3>1. x[c] \in Nat /\ x[c] % Modulus = x[c]
      BY Entries
    <3>2. PICK r \in Nat, s \in Nat : r = b * x[c] /\ s = a * b
      BY <1>8, <3>1
    <3>3. y[c] = r % Modulus
      <4>1. 0 + b * x[c] = r
        BY <3>2
      <4> QED
        BY <1>9, <4>1 DEF Plus
    <3>4. \A z \in Nat : (z + a * (r % Modulus)) % Modulus = (z + a * r) % Modulus
      BY <1>8, SumOfRemainders, ZenonT(40)
    <3>5. a * r = s * x[c]
      BY <1>8, <3>1, <3>2
    <3>6. \A z \in Nat : (z + (s % Modulus) * x[c]) % Modulus = (z + s * x[c]) % Modulus
      BY <3>1, SumOfRemainders
    <3>7. 0 + (s % Modulus) * x[c] = x[c]
      BY <1>2, <3>1, <3>2
    <3> QED
      BY <3>1, <3>3, <3>4, <3>5, <3>6, <3>7 DEF Plus
  <2> QED
    BY <2>1
<1>11. y = ReducedBy(ZeroRow(RightCols), b, x)
  <2>1. /\ ReducedBy(ZeroRow(RightCols), b, x) \in RowsOn(RightCols)
        /\ \A c \in RightCols :
             ReducedBy(ZeroRow(RightCols), b, x)[c] = Plus(ZeroRow(RightCols)[c], b, x[c])
    BY <1>8, ReducedByIs
  <2>2. \A c \in RightCols : y[c] = ReducedBy(ZeroRow(RightCols), b, x)[c]
    BY <1>8, <1>9, <2>1
  <2> QED
    BY <2>1, <2>2, RowsEqual
<1>12. x = ReducedBy(ZeroRow(RightCols), a, y)
  <2>1. /\ ReducedBy(ZeroRow(RightCols), a, y) \in RowsOn(RightCols)
        /\ \A c \in RightCols :
             ReducedBy(ZeroRow(RightCols), a, y)[c] = Plus(ZeroRow(RightCols)[c], a, y[c])
    BY <1>8, ReducedByIs
  <2>2. \A c \in RightCols : x[c] = ReducedBy(ZeroRow(RightCols), a, y)[c]
    BY <1>8, <1>10, <2>1
  <2> QED
    BY <2>1, <2>2, RowsEqual
<1>13. x \in V <=> y \in V
  BY <1>8, <1>11, <1>12 DEF Subspace
<1> QED
  BY <1>3, <1>5, <1>6, <1>13

-----------------------------------------------------------------------------
(* The loops of both algorithms *)

LEMMA PivotsKeepSpace ==
  ASSUME PivotsBegin, NEW d \in DenseRow, NEW V, Subspace(V, RightCols),
         \A c \in PivotCols : pivotRowOfCol[c] \in V
  PROVE  TakeModulus(ReduceByPivots(d)) \in V <=> TakeModulus(d) \in V
<1> DEFINE stuck(e) == \E c \in RightCols \ PivotCols :
             e[c] % Modulus # 0 /\ \A b \in 0..c - 1 : e[b] % Modulus = 0
           reduceCol(e, c) ==
             IF stuck(e) \/ c \notin PivotCols THEN e
             ELSE RowReduceByUnitary(e, pivotRowOfCol[c])
           step == [k \in 1..Right |-> [e \in DenseRow |-> reduceCol(e, k - 1)]]
<1>1. Right \in Nat
  BY RightRows
<1>2. ASSUME NEW e \in DenseRow, NEW c
      PROVE  /\ reduceCol(e, c) \in DenseRow
             /\ TakeModulus(reduceCol(e, c)) \in V <=> TakeModulus(e) \in V
  <2>1. CASE stuck(e) \/ c \notin PivotCols
    <3>1. reduceCol(e, c) = e
      BY <2>1
    <3> QED
      BY <3>1
  <2>2. CASE ~(stuck(e) \/ c \notin PivotCols)
    <3>1. c \in PivotCols /\ reduceCol(e, c) = RowReduceByUnitary(e, pivotRowOfCol[c])
      BY <2>2
    <3> HIDE DEF reduceCol
    <3>2. pivotRowOfCol[c] \in ScalarRow /\ BeginsIn(pivotRowOfCol[c], c)
      BY <3>1 DEF PivotsBegin
    <3>3. PICK pivot \in ScalarRow : pivot = pivotRowOfCol[c]
      BY <3>2
    <3>4. BeginsIn(pivot, c) /\ pivot \in V
      BY <3>1, <3>2, <3>3
    <3>5. /\ RowReduceByUnitary(e, pivot) \in DenseRow
          /\ TakeModulus(RowReduceByUnitary(e, pivot)) \in V <=> TakeModulus(e) \in V
      BY <3>4, RowReduced, ReductionKeepsSpace
    <3> QED
      BY <3>1, <3>3, <3>5
  <2> QED
    BY <2>1, <2>2
<1>3. ReduceByPivots(d) = Folded(step, d, Right)
  BY DEF ReduceByPivots
<1> HIDE DEF reduceCol
<1>4. \A k \in 1..Right : \A e \in DenseRow :
        /\ step[k][e] \in DenseRow
        /\ TakeModulus(step[k][e]) \in V <=> TakeModulus(e) \in V
  BY <1>2
<1> HIDE DEF step
<1>5. PICK after :
        /\ after[0] = d
        /\ \A k \in 1..Right : after[k] = step[k][after[k - 1]]
        /\ Folded(step, d, Right) = after[Right]
  BY <1>1, LoopTurns
<1> DEFINE T == {k \in 0..Right : /\ after[k] \in DenseRow
                                  /\ TakeModulus(after[k]) \in V <=> TakeModulus(d) \in V}
<1>6. 0 \in T
  BY <1>1, <1>5
<1>7. ASSUME NEW k \in 1..Right, k - 1 \in T
      PROVE  k \in T
  BY <1>1, <1>4, <1>5, <1>7
<1> HIDE DEF T
<1>8. 0..Right \subseteq T
  BY <1>1, <1>6, <1>7, EachTurn
<1>9. Right \in T
  BY <1>1, <1>8
<1> QED
  BY <1>3, <1>5, <1>9 DEF T

LEMMA LaterPivotsKeepSpace ==
  ASSUME PivotsBegin, NEW p \in PivotCols, NEW V, Subspace(V, RightCols),
         \A c \in PivotCols : c > p => pivotRowOfCol[c] \in V
  PROVE  TakeModulus(ReduceByLaterPivots(p)) \in V <=> TakeModulus(pivotRowOfCol[p]) \in V
<1> DEFINE start == pivotRowOfCol[p]
           reduceCol(e, c) ==
             LET f == [e EXCEPT ![c] = @ % Modulus]
             IN  IF c <= p THEN e
                 ELSE IF f[c] # 0 /\ c \in PivotCols THEN RowReduceByUnitary(f, pivotRowOfCol[c])
                 ELSE f
           step == [k \in 1..Right |-> [e \in DenseRow |-> reduceCol(e, k - 1)]]
<1>1. Right \in Nat /\ RightCols = 0..Right - 1 /\ RightCols \subseteq Nat /\ p \in RightCols
  BY RightRows DEF PivotsBegin
<1>2. start \in DenseRow
  BY RightRows DEF PivotsBegin
<1>3. ASSUME NEW e \in DenseRow, NEW c \in RightCols
      PROVE  /\ reduceCol(e, c) \in DenseRow
             /\ TakeModulus(reduceCol(e, c)) \in V <=> TakeModulus(e) \in V
  <2> DEFINE f == [e EXCEPT ![c] = @ % Modulus]
  <2>1. f \in DenseRow /\ \A b \in RightCols : f[b] = IF b = c THEN e[b] % Modulus ELSE e[b]
    <3>1. e \in [RightCols -> Nat] /\ e[c] % Modulus \in Nat
      BY Remainders, ScalarsAreNumbers DEF DenseRow
    <3> QED
      BY <3>1 DEF DenseRow
  <2>2. \A b \in RightCols : f[b] % Modulus = e[b] % Modulus
    <3>1. \A b \in RightCols : e[b] \in Nat
      BY DEF DenseRow
    <3>2. (e[c] % Modulus) % Modulus = e[c] % Modulus
      BY <3>1, Remainders
    <3> HIDE DEF f
    <3> QED
      BY <2>1, <3>2
  <2>3. reduceCol(e, c) = IF c <= p THEN e
                          ELSE IF f[c] # 0 /\ c \in PivotCols
                               THEN RowReduceByUnitary(f, pivotRowOfCol[c]) ELSE f
    OBVIOUS
  <2> HIDE DEF f, reduceCol
  <2>4. TakeModulus(f) = TakeModulus(e)
    BY <2>1, <2>2, SameRemainders
  <2>5. CASE c <= p
    BY <2>3, <2>5
  <2>6. CASE ~(c <= p) /\ ~(f[c] # 0 /\ c \in PivotCols)
    BY <2>1, <2>3, <2>4, <2>6
  <2>7. CASE ~(c <= p) /\ f[c] # 0 /\ c \in PivotCols
    <3>1. reduceCol(e, c) = RowReduceByUnitary(f, pivotRowOfCol[c]) /\ c > p
      BY <1>1, <2>3, <2>7
    <3>2. pivotRowOfCol[c] \in ScalarRow /\ BeginsIn(pivotRowOfCol[c], c)
      BY <2>7 DEF PivotsBegin
    <3>3. PICK pivot \in ScalarRow : pivot = pivotRowOfCol[c]
      BY <3>2
    <3>4. BeginsIn(pivot, c) /\ pivot \in V
      BY <2>7, <3>1, <3>2, <3>3
    <3>5. /\ RowReduceByUnitary(f, pivot) \in DenseRow
          /\ TakeModulus(RowReduceByUnitary(f, pivot)) \in V <=> TakeModulus(f) \in V
      BY <2>1, <3>4, RowReduced, ReductionKeepsSpace
    <3> QED
      BY <2>4, <3>1, <3>3, <3>5
  <2> QED
    BY <2>5, <2>6, <2>7
<1>4. ReduceByLaterPivots(p) = Folded(step, start, Right)
  BY DEF ReduceByLaterPivots
<1> HIDE DEF reduceCol
<1>5. \A k \in 1..Right : \A e \in DenseRow :
        /\ step[k][e] \in DenseRow
        /\ TakeModulus(step[k][e]) \in V <=> TakeModulus(e) \in V
  <2>1. \A k \in 1..Right : k - 1 \in RightCols
    BY <1>1
  <2> QED
    BY <1>3, <2>1
<1> HIDE DEF step, start
<1>6. PICK after :
        /\ after[0] = start
        /\ \A k \in 1..Right : after[k] = step[k][after[k - 1]]
        /\ Folded(step, start, Right) = after[Right]
  BY <1>1, LoopTurns
<1> DEFINE T == {k \in 0..Right : /\ after[k] \in DenseRow
                                  /\ TakeModulus(after[k]) \in V <=> TakeModulus(start) \in V}
<1>7. 0 \in T
  BY <1>1, <1>2, <1>6
<1>8. ASSUME NEW k \in 1..Right, k - 1 \in T
      PROVE  k \in T
  BY <1>1, <1>5, <1>6, <1>8
<1> HIDE DEF T
<1>9. 0..Right \subseteq T
  BY <1>1, <1>7, <1>8, EachTurn
<1>10. Right \in T
  BY <1>1, <1>9
<1> QED
  BY <1>4, <1>6, <1>10 DEF T, start

(* A reducer counts unless the row begins after it, or in its column if the
   row is the pivot. *)
Uses(row, reducer) ==
  ~(LeadCol(reducer) < leadCols[row]) /\ ~(isPivotRow[row] /\ LeadCol(reducer) = leadCols[row])

LEMMA ReducersKeepSpace ==
  ASSUME TypeOK, InDense, ReducersInOrder, phase = "dense", NEW row \in todo,
         NEW V, Subspace(V, RightCols),
         \A k \in DOMAIN reduced : Uses(row, reduced[k]) => reduced[k] \in V
  PROVE  TakeModulus(ReduceByReducers(row)) \in V <=> TakeModulus(dense[row]) \in V
<1> DEFINE n == Len(reduced)
           lead == leadCols[row]
           reduceBy(d, reducer) ==
             LET col == LeadCol(reducer)
             IN  IF d[col] = 0 \/ (isPivotRow[row] /\ col = leadCols[row]) THEN d
                 ELSE RowReduceByUnitary(d, reducer)
           step == [k \in DOMAIN reduced |-> [d \in DenseRow |-> reduceBy(d, reduced[k])]]
           start == dense[row]
           begins(d) == \A c \in RightCols : c < lead => d[c] = 0
<1>1. n \in Nat /\ DOMAIN reduced = 1..n /\ \A k \in 1..n : reduced[k] \in ScalarRow
  <2>1. reduced \in Seq(ScalarRow)
    BY DEF TypeOK, ScalarRow
  <2> QED
    BY <2>1
<1>2. ASSUME NEW k \in 1..n
      PROVE  BeginsIn(reduced[k], LeadCol(reduced[k])) /\ LeadCol(reduced[k]) \in RightCols
  <2>1. PICK c \in PastCols : BeginsIn(reduced[k], c)
    BY <1>1 DEF ReducersInOrder
  <2>2. DOMAIN reduced[k] = RightCols
    BY <1>1 DEF ScalarRow
  <2>3. LeadCol(reduced[k]) = c /\ c \in RightCols
    BY <2>1, <2>2, LeadIs, RightRows DEF BeginsIn
  <2> QED
    BY <2>1, <2>3
<1>3. start \in DenseRow /\ begins(start) /\ lead \in Nat
  <2>1. /\ row \in NonEmptyRows /\ row \in DOMAIN leadCols
    BY DEF InDense, DenseShape, NonEmptyRows
  <2>2. ReducedIn(dense[row], leadCols[row], isPivotRow[row],
                  IF row \in todo THEN OldCols ELSE PastCols)
    BY <2>1 DEF InDense, RowsReduced
  <2>3. leadCols[row] \in 0..Right
    BY <2>1 DEF TypeOK
  <2> QED
    BY <2>2, <2>3, RightRows DEF ReducedIn
<1>4. ASSUME NEW d \in DenseRow, begins(d), NEW k \in 1..n
      PROVE  /\ reduceBy(d, reduced[k]) \in DenseRow /\ begins(reduceBy(d, reduced[k]))
             /\ TakeModulus(reduceBy(d, reduced[k])) \in V <=> TakeModulus(d) \in V
  <2>1. PICK pivot \in ScalarRow : pivot = reduced[k]
    BY <1>1
  <2>2. PICK col \in RightCols : col = LeadCol(pivot) /\ BeginsIn(pivot, col)
    BY <1>2, <2>1
  <2>3. reduceBy(d, pivot) = IF d[col] = 0 \/ (isPivotRow[row] /\ col = lead) THEN d
                             ELSE RowReduceByUnitary(d, pivot)
    BY <2>2
  <2> HIDE DEF reduceBy
  <2>4. CASE d[col] = 0 \/ (isPivotRow[row] /\ col = lead)
    BY <1>4, <2>1, <2>3, <2>4
  <2>5. CASE ~(d[col] = 0 \/ (isPivotRow[row] /\ col = lead))
    <3>1. ~(col < lead) /\ reduceBy(d, pivot) = RowReduceByUnitary(d, pivot)
      BY <1>4, <2>3, <2>5
    <3>2. pivot \in V
      BY <1>1, <2>1, <2>2, <2>5, <3>1 DEF Uses
    <3>3. /\ RowReduceByUnitary(d, pivot) \in DenseRow
          /\ \A c \in RightCols : c < col => RowReduceByUnitary(d, pivot)[c] = d[c]
          /\ TakeModulus(RowReduceByUnitary(d, pivot)) \in V <=> TakeModulus(d) \in V
      BY <2>2, <3>2, RowReduced, ReductionKeepsSpace
    <3>4. \A c \in RightCols : c < lead => c < col
      BY <1>3, <3>1, RightRows
    <3>5. begins(RowReduceByUnitary(d, pivot))
      BY <1>4, <3>3, <3>4
    <3> QED
      BY <2>1, <3>1, <3>3, <3>5
  <2> QED
    BY <2>4, <2>5
<1>5. ReduceByReducers(row) = Folded(step, start, n)
  BY DEF ReduceByReducers
<1> HIDE DEF reduceBy
<1>6. \A k \in 1..n : \A d \in DenseRow : begins(d) =>
        /\ step[k][d] \in DenseRow /\ begins(step[k][d])
        /\ TakeModulus(step[k][d]) \in V <=> TakeModulus(d) \in V
  BY <1>1, <1>4
<1> HIDE DEF step, start, n, begins
<1>12. n \in Nat
  BY <1>1
<1>7. PICK after :
        /\ after[0] = start
        /\ \A k \in 1..n : after[k] = step[k][after[k - 1]]
        /\ Folded(step, start, n) = after[n]
  BY <1>12, LoopTurns
<1> DEFINE T == {k \in 0..n : /\ after[k] \in DenseRow /\ begins(after[k])
                              /\ TakeModulus(after[k]) \in V <=> TakeModulus(start) \in V}
<1>8. 0 \in T
  BY <1>1, <1>3, <1>7
<1>9. ASSUME NEW k \in 1..n, k - 1 \in T
      PROVE  k \in T
  BY <1>1, <1>6, <1>7, <1>9
<1> HIDE DEF T
<1>10. 0..n \subseteq T
  BY <1>1, <1>8, <1>9, EachTurn
<1>11. n \in T
  BY <1>1, <1>10
<1> QED
  BY <1>5, <1>7, <1>11 DEF T, start

-----------------------------------------------------------------------------
(* What the echelon form spans *)

(* A row that is reduced by the pivots begins, modulo the modulus, in a column
   that has none, if anywhere. *)
LEMMA PivotsAreNew ==
  ASSUME PivotsBegin, NEW d \in DenseRow, NEW lead \in RightCols,
         ReduceByPivots(d)[lead] % Modulus # 0,
         \A c \in RightCols : c < lead => ReduceByPivots(d)[c] % Modulus = 0
  PROVE  lead \notin PivotCols
<1> DEFINE stuck(e) == \E c \in RightCols \ PivotCols :
             e[c] % Modulus # 0 /\ \A b \in 0..c - 1 : e[b] % Modulus = 0
           reduceCol(e, c) ==
             IF stuck(e) \/ c \notin PivotCols THEN e
             ELSE RowReduceByUnitary(e, pivotRowOfCol[c])
           step == [k \in 1..Right |-> [e \in DenseRow |-> reduceCol(e, k - 1)]]
           clear(e, k) == \A c \in RightCols : c < k => e[c] % Modulus = 0
<1>1. Right \in Nat /\ RightCols = 0..Right - 1 /\ RightCols \subseteq Nat /\ 0 % Modulus = 0
  BY RightRows, Remainders
<1>2. ASSUME NEW e \in DenseRow, NEW k \in 1..Right, stuck(e) \/ clear(e, k - 1)
      PROVE  /\ reduceCol(e, k - 1) \in DenseRow
             /\ stuck(reduceCol(e, k - 1)) \/ clear(reduceCol(e, k - 1), k)
  <2>1. PICK c \in RightCols : c = k - 1
    BY <1>1
  <2>2. \A b \in RightCols : b < k <=> b < c \/ b = c
    BY <1>1, <2>1
  <2>3. reduceCol(e, c) = IF stuck(e) \/ c \notin PivotCols THEN e
                          ELSE RowReduceByUnitary(e, pivotRowOfCol[c])
    OBVIOUS
  <2> HIDE DEF reduceCol
  <2>4. CASE stuck(e)
    BY <2>1, <2>3, <2>4
  <2>5. CASE ~stuck(e) /\ c \notin PivotCols
    <3>1. reduceCol(e, c) = e /\ clear(e, c)
      BY <1>2, <2>1, <2>3, <2>5
    <3>2. \A b \in 0..c - 1 : e[b] % Modulus = 0
      BY <1>1, <3>1
    <3>3. e[c] % Modulus = 0
      BY <2>5, <3>2
    <3>4. clear(e, k)
      BY <2>2, <3>1, <3>3
    <3> QED
      BY <2>1, <3>1, <3>4
  <2>6. CASE ~stuck(e) /\ c \in PivotCols
    <3>1. PICK pivot \in ScalarRow : pivot = pivotRowOfCol[c] /\ BeginsIn(pivot, c)
      BY <2>6 DEF PivotsBegin
    <3>2. PICK f : f = RowReduceByUnitary(e, pivot)
      OBVIOUS
    <3>3. /\ f \in DenseRow /\ f[c] = 0
          /\ \A b \in RightCols : b < c => f[b] = e[b]
      <4>1. /\ RowReduceByUnitary(e, pivot) \in DenseRow
            /\ RowReduceByUnitary(e, pivot)[c] = 0
            /\ \A b \in RightCols : b < c => RowReduceByUnitary(e, pivot)[b] = e[b]
        BY <3>1, RowReduced
      <4> QED
        BY <3>2, <4>1
    <3>4. reduceCol(e, c) = f /\ clear(e, c)
      BY <1>2, <2>1, <2>3, <2>6, <3>1, <3>2
    <3>5. clear(f, k)
      BY <1>1, <2>2, <3>3, <3>4
    <3> QED
      BY <2>1, <3>3, <3>4, <3>5
  <2> QED
    BY <2>4, <2>5, <2>6
<1>3. ReduceByPivots(d) = Folded(step, d, Right)
  BY DEF ReduceByPivots
<1> HIDE DEF reduceCol, stuck, clear
<1>4. \A k \in 1..Right : \A e \in DenseRow : stuck(e) \/ clear(e, k - 1) =>
        step[k][e] \in DenseRow /\ (stuck(step[k][e]) \/ clear(step[k][e], k))
  BY <1>2
<1> HIDE DEF step
<1>5. PICK after :
        /\ after[0] = d
        /\ \A k \in 1..Right : after[k] = step[k][after[k - 1]]
        /\ Folded(step, d, Right) = after[Right]
  BY <1>1, LoopTurns
<1> DEFINE T == {k \in 0..Right : /\ after[k] \in DenseRow
                                  /\ stuck(after[k]) \/ clear(after[k], k)}
<1>6. 0 \in T
  <2>1. clear(d, 0)
    BY <1>1 DEF clear
  <2> QED
    BY <1>1, <1>5, <2>1
<1>7. ASSUME NEW k \in 1..Right, k - 1 \in T
      PROVE  k \in T
  BY <1>1, <1>4, <1>5, <1>7
<1> HIDE DEF T
<1>8. 0..Right \subseteq T
  BY <1>1, <1>6, <1>7, EachTurn
<1>9. Right \in T
  BY <1>1, <1>8
<1>10. PICK e : e = ReduceByPivots(d)
  OBVIOUS
<1>11. /\ stuck(e) \/ clear(e, Right)
       /\ e[lead] % Modulus # 0 /\ \A c \in RightCols : c < lead => e[c] % Modulus = 0
  BY <1>3, <1>5, <1>9, <1>10 DEF T
<1>12. ~clear(e, Right)
  BY <1>1, <1>11 DEF clear
<1>13. PICK c \in RightCols \ PivotCols :
         e[c] % Modulus # 0 /\ \A b \in 0..c - 1 : e[b] % Modulus = 0
  BY <1>11, <1>12 DEF stuck
<1>14. ~(c < lead) /\ ~(lead < c)
  BY <1>1, <1>11, <1>13
<1>15. c = lead
  BY <1>1, <1>14
<1> QED
  BY <1>13, <1>15

(* Zeros that are cleared, and entries that are taken modulo the modulus,
   change no row. *)
LEMMA SettledIsSame ==
  ASSUME NEW d \in DenseRow, NEW lead, NEW e \in DenseRow, e = Settled(d, lead)
  PROVE  TakeModulus(e) = TakeModulus(d)
<1>1. \A c \in RightCols : e[c] = IF c \in lead..NewLead(d, lead) THEN d[c] % Modulus ELSE d[c]
  BY DEF Settled
<1>2. \A c \in RightCols : (d[c] % Modulus) % Modulus = d[c] % Modulus
  <2>1. \A c \in RightCols : d[c] \in Nat
    BY DEF DenseRow
  <2> QED
    BY <2>1, Remainders
<1>3. \A c \in RightCols : e[c] % Modulus = d[c] % Modulus
  BY <1>1, <1>2
<1> QED
  BY <1>3, SameRemainders

(* A row without a lead is zero. *)
LEMMA NoLeadNoRow ==
  ASSUME NEW d \in DenseRow, NEW lead \in 0..Right, \A c \in RightCols : c < lead => d[c] = 0,
         NewLead(d, lead) = Right
  PROVE  TakeModulus(d) = ZeroRow(RightCols)
<1> DEFINE S == {c \in lead..Right - 1 : d[c] % Modulus # 0}
<1>1. Right \in Nat /\ RightCols = 0..Right - 1 /\ RightCols \subseteq Nat /\ lead \in Nat
  BY RightRows
<1>2. S \subseteq Nat /\ Min(S \cup {Right}) = Right
  BY <1>1 DEF NewLead
<1>3. \A c \in S : Right <= c
  <2> HIDE DEF S
  <2>1. S \cup {Right} \subseteq Nat /\ S \cup {Right} # {}
    BY <1>1, <1>2
  <2> QED
    BY <1>2, <2>1, MinIsLeast
<1>4. \A c \in RightCols : c \notin S
  BY <1>1, <1>3
<1>5. \A c \in RightCols : d[c] % Modulus = 0
  <2>1. 0 % Modulus = 0
    BY Remainders
  <2> QED
    BY <1>1, <1>4, <2>1
<1>6. d \in SumsOn(RightCols)
  BY RightRows
<1>7. TakeModulus(d) \in RowsOn(RightCols) /\ \A c \in RightCols : TakeModulus(d)[c] = d[c] % Modulus
  BY <1>6, TakeModulusIs
<1> QED
  BY <1>5, <1>7, ZeroRowIs, RowsEqual

LEMMA TakenTwice ==
  ASSUME NEW d \in DenseRow
  PROVE  /\ TakeModulus(d) \in ScalarRow /\ TakeModulus(d) \in DenseRow
         /\ TakeModulus(TakeModulus(d)) = TakeModulus(d)
         /\ d \in ScalarRow => TakeModulus(d) = d
<1>1. d \in SumsOn(RightCols)
  BY RightRows
<1>2. TakeModulus(d) \in RowsOn(RightCols) /\ (d \in RowsOn(RightCols) => TakeModulus(d) = d)
  BY <1>1, TakeModulusIs
<1>3. TakeModulus(d) \in SumsOn(RightCols)
  BY <1>2, ScalarsAreNumbers
<1>4. TakeModulus(TakeModulus(d)) = TakeModulus(d)
  BY <1>2, <1>3, TakeModulusIs
<1> QED
  BY <1>2, <1>3, <1>4, RightRows

(* From the last row up, each held with those after it *)
LEMMA HeldFromTheLast ==
  ASSUME NEW n \in Nat, NEW rows, NEW V,
         \A k \in 1..n : (\A l \in 1..n : l > k => rows[l] \in V) => rows[k] \in V
  PROVE  \A k \in 1..n : rows[k] \in V
<1> DEFINE T == {j \in 0..n : \A l \in 1..n : l > n - j => rows[l] \in V}
<1>1. 0 \in T
  OBVIOUS
<1>2. ASSUME NEW j \in 1..n, j - 1 \in T
      PROVE  j \in T
  <2>1. n - j + 1 \in 1..n
    OBVIOUS
  <2>2. \A l \in 1..n : l > n - j + 1 => rows[l] \in V
    BY <1>2
  <2>3. rows[n - j + 1] \in V
    BY <2>1, <2>2
  <2>4. \A l \in 1..n : l > n - j => l > n - j + 1 \/ l = n - j + 1
    OBVIOUS
  <2> QED
    BY <2>2, <2>3, <2>4
<1> HIDE DEF T
<1>3. n \in T
  BY <1>1, <1>2, EachTurn
<1> QED
  BY <1>3 DEF T

-----------------------------------------------------------------------------
(* What is kept of the echelon form's space *)

LowerInPlay ==
  phase \in {"sparse", "back", "dense", "done"} =>
    \A V : Subspace(V, RightCols) => (Holds(V, RowsInPlay) <=> Holds(V, Range(lower)))

(* The rows are reduced by copies of the pivots, which are reduced on: with
   the copies after it, a copy is worth the row that it is of. *)
CopiesInStep ==
  phase = "dense" =>
    \A k \in DOMAIN reduced : \A r \in DOMAIN dense :
      isPivotRow[r] /\ leadCols[r] = LeadCol(reduced[k]) =>
        \A V : Subspace(V, RightCols) /\ (\A l \in DOMAIN reduced : l > k => reduced[l] \in V) =>
          (reduced[k] \in V <=> TakeModulus(dense[r]) \in V)

(* Each pivot that has been reduced by the later ones is in the result. *)
AllBackReduced ==
  phase = "back" =>
    \A c \in PivotCols \ todo : \E i \in DOMAIN reduced : reduced[i] = pivotRowOfCol[c]

EchelonInv == LowerInPlay /\ CopiesInStep /\ AllBackReduced

LEMMA ReducersAre ==
  Inv /\ phase = "dense" =>
    /\ Len(reduced) \in Nat /\ DOMAIN reduced = 1..Len(reduced)
    /\ \A k \in DOMAIN reduced :
         /\ reduced[k] \in ScalarRow
         /\ \E r \in DOMAIN dense : /\ isPivotRow[r] /\ leadCols[r] = LeadCol(reduced[k])
                                    /\ r \in NonEmptyRows
    /\ \A k, l \in DOMAIN reduced : LeadCol(reduced[l]) > LeadCol(reduced[k]) => l > k
<1> SUFFICES ASSUME Inv, phase = "dense"
             PROVE  /\ Len(reduced) \in Nat /\ DOMAIN reduced = 1..Len(reduced)
                    /\ \A k \in DOMAIN reduced :
                         /\ reduced[k] \in ScalarRow
                         /\ \E r \in DOMAIN dense :
                              /\ isPivotRow[r] /\ leadCols[r] = LeadCol(reduced[k])
                              /\ r \in NonEmptyRows
                    /\ \A k, l \in DOMAIN reduced :
                         LeadCol(reduced[l]) > LeadCol(reduced[k]) => l > k
  OBVIOUS
<1>1. TypeOK /\ InDense /\ DenseShape /\ ReducersInOrder
  BY DEF Inv, InDense
<1>2. /\ Len(reduced) \in Nat /\ DOMAIN reduced = 1..Len(reduced)
      /\ \A k \in DOMAIN reduced : reduced[k] \in ScalarRow
  <2>1. reduced \in Seq(ScalarRow)
    BY <1>1 DEF TypeOK, ScalarRow
  <2> QED
    BY <2>1
<1>3. ASSUME NEW k \in DOMAIN reduced
      PROVE  /\ LeadCol(reduced[k]) \in RightCols
             /\ \E r \in DOMAIN dense : /\ isPivotRow[r] /\ leadCols[r] = LeadCol(reduced[k])
                                        /\ r \in NonEmptyRows
  <2>1. PICK c \in PastCols : BeginsIn(reduced[k], c)
    BY <1>1 DEF ReducersInOrder
  <2>2. DOMAIN reduced[k] = RightCols
    BY <1>2 DEF ScalarRow
  <2>3. LeadCol(reduced[k]) = c /\ c \in RightCols
    BY <2>1, <2>2, LeadIs, RightRows DEF BeginsIn
  <2>4. PICK r \in DOMAIN dense : isPivotRow[r] /\ leadCols[r] = c
    BY <2>1 DEF PastCols
  <2>5. r \in NonEmptyRows
    BY <1>1, <2>4 DEF DenseShape
  <2> QED
    BY <2>3, <2>4, <2>5
<1>4. ASSUME NEW k \in DOMAIN reduced, NEW l \in DOMAIN reduced,
             LeadCol(reduced[l]) > LeadCol(reduced[k])
      PROVE  l > k
  <2>1. PICK x \in Nat, y \in Nat : x = LeadCol(reduced[l]) /\ y = LeadCol(reduced[k])
    BY <1>3, RightRows
  <2>2. l < k => x < y
    BY <1>1, <2>1 DEF ReducersInOrder
  <2>3. l # k
    BY <1>4, <2>1
  <2>4. k \in Nat /\ l \in Nat
    BY <1>2
  <2> QED
    BY <1>4, <2>1, <2>2, <2>3, <2>4
<1> QED
  BY <1>2, <1>3, <1>4

(* A space that holds the rows holds the copies of the pivots. *)
LEMMA CopiesHeld ==
  Inv /\ CopiesInStep /\ phase = "dense" =>
    \A V : Subspace(V, RightCols) /\ Holds(V, RowsInPlay) =>
      \A k \in DOMAIN reduced : reduced[k] \in V
<1> SUFFICES ASSUME Inv, CopiesInStep, phase = "dense",
                    NEW V, Subspace(V, RightCols), Holds(V, RowsInPlay)
             PROVE  \A k \in DOMAIN reduced : reduced[k] \in V
  OBVIOUS
<1>1. RowsInPlay = {dense[row] : row \in NonEmptyRows}
  BY DEF RowsInPlay
<1>2. Len(reduced) \in Nat /\ DOMAIN reduced = 1..Len(reduced)
  BY ReducersAre
<1>3. ASSUME NEW k \in DOMAIN reduced, \A l \in DOMAIN reduced : l > k => reduced[l] \in V
      PROVE  reduced[k] \in V
  <2>1. PICK r \in DOMAIN dense : /\ isPivotRow[r] /\ leadCols[r] = LeadCol(reduced[k])
                                  /\ r \in NonEmptyRows
    BY ReducersAre
  <2>2. TakeModulus(dense[r]) \in V
    BY <1>1, <2>1 DEF Holds
  <2> QED
    BY <1>3, <2>1, <2>2 DEF CopiesInStep
<1> QED
  BY <1>2, <1>3, HeldFromTheLast

(* What a step does to a row, in a space that holds the pivots after its lead *)
LEMMA RowStepKeepsSpace ==
  ASSUME Inv, NEW row \in todo, ReduceRow(row)
  PROVE  \E d \in DenseRow : \E new :
           /\ d = ReduceByReducers(row)
           /\ row \in DOMAIN dense /\ dense' = [dense EXCEPT ![row] = new]
           /\ \/ new = <<>> /\ TakeModulus(d) = ZeroRow(RightCols)
              \/ /\ new \in DenseRow /\ new # <<>>
                 /\ \A V : Subspace(V, RightCols) =>
                      (TakeModulus(new) \in V <=> TakeModulus(d) \in V)
           /\ \A r \in DOMAIN dense : isPivotRow[r] => leadCols'[r] = leadCols[r]
<1>1. /\ TypeOK /\ InDense /\ ReducersInOrder /\ phase = "dense" /\ DenseShape
  BY DEF Inv, InDense, ReduceRow
<1>2. ReducedIn(ReduceByReducers(row), leadCols[row], isPivotRow[row], PastCols)
  BY <1>1, RowReducedByReducers
<1>typed. ReduceByReducers(row) \in DenseRow
  BY <1>2 DEF ReducedIn
<1>3. /\ leadCols[row] \in 0..Right /\ isPivotRow[row] \in BOOLEAN
      /\ row \in DOMAIN dense /\ DOMAIN leadCols = DOMAIN dense /\ PastCols \in SUBSET RightCols
  <2>1. row \in DOMAIN dense /\ row \in DOMAIN leadCols /\ row \in DOMAIN isPivotRow
        /\ DOMAIN leadCols = DOMAIN dense
    BY <1>1 DEF InDense, DenseShape, NonEmptyRows
  <2> QED
    BY <1>1, <2>1, PastColsAreColumns DEF TypeOK
<1>4. PICK d \in DenseRow, lead \in 0..Right, isPivot \in BOOLEAN, cols \in SUBSET RightCols :
        /\ d = ReduceByReducers(row) /\ lead = leadCols[row] /\ isPivot = isPivotRow[row]
        /\ cols = PastCols
  BY <1>3, <1>typed
<1>5. ReducedIn(d, lead, isPivot, cols)
  BY <1>2, <1>4
<1>6. PICK col, settled : col = NewLead(d, lead) /\ settled = Settled(d, lead)
  OBVIOUS
<1>7. /\ isPivot => col = lead
      /\ col # Right =>
           /\ col \in RightCols /\ settled \in DenseRow /\ settled[col] % Modulus # 0
           /\ \A c \in RightCols : c < col => settled[c] = 0
  <2>1. /\ isPivot => col = lead
        /\ col # Right =>
             /\ col \in RightCols /\ settled \in DenseRow /\ settled[col] % Modulus # 0
             /\ ReducedIn(settled, col, isPivot, cols)
    BY <1>5, <1>6, RowSettles
  <2> QED
    BY <2>1 DEF ReducedIn
<1>8. PICK new : new = IF col = Right THEN <<>>
                       ELSE IF col # Right /\ col \notin columnHasPivot
                            THEN MakeUnitary(settled, col) ELSE settled
  OBVIOUS
<1>9. /\ leadCols' = [leadCols EXCEPT ![row] = col] /\ dense' = [dense EXCEPT ![row] = new]
  BY <1>4, <1>6, <1>8 DEF ReduceRow, NewLead, Settled
<1>10. \A r \in DOMAIN dense : isPivotRow[r] => leadCols'[r] = leadCols[r]
  BY <1>3, <1>4, <1>7, <1>9
<1>11. CASE col = Right
  <2>1. TakeModulus(d) = ZeroRow(RightCols)
    <3>1. \A c \in RightCols : c < lead => d[c] = 0
      BY <1>5 DEF ReducedIn
    <3> QED
      BY <1>6, <1>11, <3>1, NoLeadNoRow
  <2>2. new = <<>>
    BY <1>8, <1>11
  <2> QED
    BY <1>3, <1>4, <1>9, <1>10, <2>1, <2>2
<1>12. CASE col # Right
  <2>1. TakeModulus(settled) = TakeModulus(d)
    BY <1>6, <1>7, <1>12, SettledIsSame
  <2>2. new \in DenseRow /\ \A V : Subspace(V, RightCols) =>
                              (TakeModulus(new) \in V <=> TakeModulus(d) \in V)
    <3>1. CASE col \notin columnHasPivot
      <4>1. new = MakeUnitary(settled, col)
        BY <1>8, <1>12, <3>1
      <4>2. MakeUnitary(settled, col) \in DenseRow
        BY <1>7, <1>12, MadeUnitary
      <4>3. \A c \in RightCols : c < col => settled[c] % Modulus = 0
        <5>1. 0 % Modulus = 0
          BY Remainders
        <5> QED
          BY <1>7, <1>12, <5>1
      <4>4. \A V : Subspace(V, RightCols) =>
              (TakeModulus(MakeUnitary(settled, col)) \in V <=> TakeModulus(settled) \in V)
        BY <1>7, <1>12, <4>3, UnitaryKeepsSpace
      <4> QED
        BY <2>1, <4>1, <4>2, <4>4
    <3>2. CASE col \in columnHasPivot
      <4>1. new = settled
        BY <1>8, <1>12, <3>2
      <4> QED
        BY <1>7, <1>12, <2>1, <4>1
    <3> QED
      BY <3>1, <3>2
  <2>3. new # <<>>
    BY <1>7, <1>12, <2>2, RowNotEmpty
  <2> QED
    BY <1>3, <1>4, <1>9, <1>10, <2>2, <2>3
<1> QED
  BY <1>11, <1>12

-----------------------------------------------------------------------------
(* The steps of the dense algorithm *)

LEMMA ReduceRowKeepsSpace ==
  ASSUME Inv, EchelonInv, NEW row \in todo, ReduceRow(row)
  PROVE  EchelonInv'
<1>1. /\ phase = "dense" /\ phase' = "dense" /\ lower' = lower /\ reduced' = reduced
      /\ isPivotRow' = isPivotRow
  BY DEF ReduceRow
<1>2. Inv' /\ TypeOK /\ InDense /\ ReducersInOrder /\ DenseShape /\ DenseShape'
  BY <1>1, ReduceRowKeeps DEF Inv, InDense
<1>3. PICK new :
        /\ row \in DOMAIN dense /\ dense' = [dense EXCEPT ![row] = new]
        /\ \/ new = <<>> /\ TakeModulus(ReduceByReducers(row)) = ZeroRow(RightCols)
           \/ /\ new \in DenseRow /\ new # <<>>
              /\ \A V : Subspace(V, RightCols) =>
                   (TakeModulus(new) \in V <=> TakeModulus(ReduceByReducers(row)) \in V)
        /\ \A r \in DOMAIN dense : isPivotRow[r] => leadCols'[r] = leadCols[r]
  BY RowStepKeepsSpace
<1>4. /\ DOMAIN dense' = DOMAIN dense /\ dense'[row] = new
      /\ \A r \in DOMAIN dense : r # row => dense'[r] = dense[r]
  BY <1>3
<1>5. ASSUME NEW V, Subspace(V, RightCols),
             \A k \in DOMAIN reduced : Uses(row, reduced[k]) => reduced[k] \in V
      PROVE  \/ new = <<>> /\ TakeModulus(dense[row]) \in V
             \/ new # <<>> /\ (TakeModulus(new) \in V <=> TakeModulus(dense[row]) \in V)
  <2>1. TakeModulus(ReduceByReducers(row)) \in V <=> TakeModulus(dense[row]) \in V
    BY <1>1, <1>2, <1>5, ReducersKeepSpace
  <2>2. ZeroRow(RightCols) \in V
    BY <1>5 DEF Subspace
  <2> QED
    BY <1>3, <1>5, <2>1, <2>2
<1>6. CopiesInStep'
  <2> SUFFICES ASSUME NEW k \in DOMAIN reduced, NEW r \in DOMAIN dense, isPivotRow[r],
                      leadCols'[r] = LeadCol(reduced[k]),
                      NEW V, Subspace(V, RightCols),
                      \A l \in DOMAIN reduced : l > k => reduced[l] \in V
               PROVE  reduced[k] \in V <=> TakeModulus(dense'[r]) \in V
    BY <1>1, <1>4 DEF CopiesInStep
  <2>1. leadCols[r] = LeadCol(reduced[k])
    BY <1>3
  <2>2. reduced[k] \in V <=> TakeModulus(dense[r]) \in V
    BY <1>1, <2>1 DEF EchelonInv, CopiesInStep
  <2>3. CASE r # row
    BY <1>4, <2>2, <2>3
  <2>4. CASE r = row
    <3>1. ASSUME NEW l \in DOMAIN reduced, Uses(row, reduced[l])
          PROVE  reduced[l] \in V
      <4>1. LeadCol(reduced[l]) \in Nat /\ LeadCol(reduced[k]) \in Nat
        <5>1. \A i \in DOMAIN reduced : LeadCol(reduced[i]) \in RightCols
          <6>1. ASSUME NEW i \in DOMAIN reduced
                PROVE  LeadCol(reduced[i]) \in RightCols
            <7>1. PICK c \in DOMAIN dense : isPivotRow[c] /\ leadCols[c] = LeadCol(reduced[i])
              BY <1>1, ReducersAre
            <7>2. leadCols[c] \in PastCols
              BY <7>1 DEF PastCols
            <7> QED
              BY <1>1, <1>2, <7>1, <7>2, PastColsAreColumns
          <6> QED
            BY <6>1
        <5> QED
          BY <5>1, RightRows
      <4>2. PICK x \in Nat, y \in Nat : x = LeadCol(reduced[l]) /\ y = LeadCol(reduced[k])
        BY <4>1
      <4>3. ~(x < y) /\ x # y
        BY <2>1, <2>4, <3>1, <4>2 DEF Uses
      <4>4. x > y
        BY <4>3
      <4>5. l > k
        BY <1>1, <4>2, <4>4, ReducersAre
      <4> QED
        BY <4>5
    <3>2. new # <<>>
      BY <1>1, <1>2, <1>4, <2>4 DEF DenseShape, NonEmptyRows
    <3> QED
      BY <1>4, <1>5, <2>2, <2>4, <3>1, <3>2
  <2> QED
    BY <2>3, <2>4
<1>7. /\ RowsInPlay = {dense[r] : r \in NonEmptyRows}
      /\ RowsInPlay' = {dense'[r] : r \in NonEmptyRows'}
  BY <1>1 DEF RowsInPlay
<1>8. /\ row \in NonEmptyRows
      /\ \A r \in DOMAIN dense : r # row => (r \in NonEmptyRows <=> r \in NonEmptyRows')
      /\ row \in NonEmptyRows' <=> new # <<>>
      /\ NonEmptyRows \subseteq DOMAIN dense /\ NonEmptyRows' \subseteq DOMAIN dense
  BY <1>2, <1>3, <1>4 DEF NonEmptyRows, DenseShape
<1>9. ASSUME NEW V, Subspace(V, RightCols), \A k \in DOMAIN reduced : reduced[k] \in V
      PROVE  Holds(V, RowsInPlay) <=> Holds(V, RowsInPlay')
  <2>1. \/ new = <<>> /\ TakeModulus(dense[row]) \in V
        \/ new # <<>> /\ (TakeModulus(new) \in V <=> TakeModulus(dense[row]) \in V)
    BY <1>5, <1>9
  <2>2. Holds(V, RowsInPlay) <=> \A r \in NonEmptyRows : TakeModulus(dense[r]) \in V
    BY <1>7 DEF Holds
  <2>3. Holds(V, RowsInPlay') <=> \A r \in NonEmptyRows' : TakeModulus(dense'[r]) \in V
    BY <1>7 DEF Holds
  <2>4. (\A r \in NonEmptyRows : TakeModulus(dense[r]) \in V)
          => \A r \in NonEmptyRows' : TakeModulus(dense'[r]) \in V
    BY <1>4, <1>8, <2>1
  <2>5. (\A r \in NonEmptyRows' : TakeModulus(dense'[r]) \in V)
          => \A r \in NonEmptyRows : TakeModulus(dense[r]) \in V
    BY <1>4, <1>8, <2>1
  <2> QED
    BY <2>2, <2>3, <2>4, <2>5
<1>10. (Inv /\ CopiesInStep /\ phase = "dense" =>
          \A V : Subspace(V, RightCols) /\ Holds(V, RowsInPlay) =>
            \A k \in DOMAIN reduced : reduced[k] \in V)'
  BY CopiesHeld, PTL
<1>11. ASSUME NEW V, Subspace(V, RightCols)
       PROVE  Holds(V, RowsInPlay) <=> Holds(V, RowsInPlay')
  <2>1. ASSUME Holds(V, RowsInPlay)
        PROVE  \A k \in DOMAIN reduced : reduced[k] \in V
    BY <1>1, <1>11, <2>1, CopiesHeld DEF EchelonInv
  <2>2. ASSUME Holds(V, RowsInPlay')
        PROVE  \A k \in DOMAIN reduced : reduced[k] \in V
    BY <1>1, <1>2, <1>6, <1>10, <1>11, <2>2
  <2> QED
    BY <1>9, <1>11, <2>1, <2>2
<1>12. LowerInPlay'
  BY <1>1, <1>11 DEF EchelonInv, LowerInPlay
<1>13. AllBackReduced'
  BY <1>1 DEF AllBackReduced
<1> QED
  BY <1>6, <1>12, <1>13 DEF EchelonInv

LEMMA NextIterationKeepsSpace ==
  ASSUME Inv, EchelonInv, NextIteration
  PROVE  EchelonInv'
<1>1. /\ phase = "dense" /\ phase' = "dense" /\ lower' = lower /\ todo = {}
      /\ isPivotRow' = [row \in DOMAIN dense |-> isPivotRow[row] \/ row \in NextPivots]
      /\ dense' = dense /\ leadCols' = leadCols
  BY DEF NextIteration
<1>2. TypeOK /\ DenseShape /\ NextReducersClaim /\ ClaimsAgree
  BY <1>1 DEF Inv, InDense
<1>3. /\ RightCols \subseteq Nat
      /\ DOMAIN dense \subseteq Nat /\ IsFiniteSet(DOMAIN dense) /\ IsFiniteSet(RightCols)
  BY <1>1, DenseRowsAtBarrier
<1>4. PICK pairs :
        /\ DOMAIN pairs = 1..Cardinality(nextReducers)
        /\ \A i \in DOMAIN pairs : pairs[i] \in nextReducers
        /\ reduced' = [i \in DOMAIN pairs |-> dense[pairs[i][2]]]
  <2>1. nextReducers \subseteq Nat \X Nat /\ nextReducers \in SUBSET (RightCols \X DOMAIN dense)
    BY <1>2, <1>3 DEF TypeOK
  <2>2. IsFiniteSet(RightCols \X DOMAIN dense)
    BY <1>3, FS_Product
  <2>3. IsFiniteSet(nextReducers)
    BY <2>1, <2>2, FS_Subset
  <2>4. PICK s : s = [i \in 1..Cardinality(nextReducers) |->
                        CHOOSE x \in nextReducers :
                          Cardinality({y \in nextReducers : Before(y, x)}) = i - 1]
    OBVIOUS
  <2>5. s \in [1..Cardinality(nextReducers) -> nextReducers]
    BY <2>1, <2>3, <2>4, PairsInOrder
  <2>6. reduced' = [i \in DOMAIN s |-> dense[s[i][2]]]
    BY <2>4 DEF NextIteration, InOrder
  <2> QED
    BY <2>5, <2>6
<1>5. CopiesInStep'
  <2> SUFFICES ASSUME NEW k \in DOMAIN reduced', NEW r \in DOMAIN dense, isPivotRow'[r],
                      leadCols[r] = LeadCol(reduced'[k])
               PROVE  reduced'[k] = TakeModulus(dense[r])
    BY <1>1 DEF CopiesInStep
  <2>1. PICK p \in nextReducers : p = pairs[k] /\ reduced'[k] = dense[p[2]]
    BY <1>4
  <2>2. /\ p[2] \in NonEmptyRows /\ leadCols[p[2]] = p[1]
        /\ dense[p[2]] \in ScalarRow /\ dense[p[2]][p[1]] = 1 /\ p[1] \in RightCols
    BY <1>2 DEF NextReducersClaim, TypeOK
  <2>3. ReducedIn(dense[p[2]], leadCols[p[2]], isPivotRow[p[2]], PastCols)
    BY <1>1, <2>2, DenseRowsAtBarrier
  <2>4. BeginsIn(dense[p[2]], p[1])
    BY <2>2, <2>3 DEF BeginsIn, ReducedIn, ScalarRow
  <2>5. LeadCol(reduced'[k]) = p[1]
    <3>1. DOMAIN dense[p[2]] \subseteq Nat
      BY <1>3, <2>2 DEF ScalarRow
    <3> QED
      BY <2>1, <2>4, <3>1, LeadIs
  <2>6. p[2] \in Claimed
    BY DEF Claimed, NextPivots
  <2>7. r \in Claimed
    <3>1. isPivotRow[r] \/ r \in NextPivots
      BY <1>1
    <3>2. isPivotRow[r] => r \in NonEmptyRows
      BY <1>2 DEF DenseShape
    <3> QED
      BY <3>1, <3>2 DEF Claimed
  <2>8. r = p[2]
    BY <1>2, <2>2, <2>5, <2>6, <2>7 DEF ClaimsAgree
  <2>9. TakeModulus(dense[p[2]]) = dense[p[2]]
    BY <2>2, RightRows, TakenTwice
  <2> QED
    BY <2>1, <2>8, <2>9
<1>6. RowsInPlay' = RowsInPlay
  BY <1>1 DEF RowsInPlay, NonEmptyRows
<1>7. LowerInPlay'
  BY <1>1, <1>6 DEF EchelonInv, LowerInPlay
<1>8. AllBackReduced'
  BY <1>1 DEF AllBackReduced
<1> QED
  BY <1>5, <1>7, <1>8 DEF EchelonInv

LEMMA EndDenseKeepsSpace ==
  ASSUME Inv, EchelonInv, EndDense
  PROVE  EchelonInv'
<1>1. phase = "dense" /\ phase' = "done" /\ lower' = lower /\ todo = {}
  BY DEF EndDense
<1>2. /\ NonEmptyRows \subseteq Nat /\ IsFiniteSet(NonEmptyRows)
      /\ \A row \in NonEmptyRows : dense[row] \in DenseRow
  <2>1. TypeOK
    BY DEF Inv
  <2> QED
    BY <1>1, <2>1, DenseRowsAtBarrier DEF TypeOK
<1>3. PICK rows :
        /\ \A i \in DOMAIN rows : rows[i] \in NonEmptyRows
        /\ \A row \in NonEmptyRows : \E i \in DOMAIN rows : rows[i] = row
        /\ reduced' = [i \in DOMAIN rows |-> TakeModulus(dense[rows[i]])]
  <2> DEFINE s == [i \in 1..Cardinality(NonEmptyRows) |->
                     CHOOSE x \in NonEmptyRows :
                       Cardinality({y \in NonEmptyRows : y < x}) = i - 1]
  <2>1. \A r : r = s =>
          /\ Cardinality(NonEmptyRows) \in Nat
          /\ r \in [1..Cardinality(NonEmptyRows) -> NonEmptyRows]
          /\ \A x \in NonEmptyRows : \E i \in DOMAIN r : r[i] = x
          /\ \A i, j \in DOMAIN r : i < j => r[i] < r[j]
    BY <1>2, NumbersInOrder
  <2>2. /\ s \in [1..Cardinality(NonEmptyRows) -> NonEmptyRows]
        /\ \A x \in NonEmptyRows : \E i \in DOMAIN s : s[i] = x
    BY <2>1, Zenon
  <2>3. reduced' = [i \in DOMAIN s |-> TakeModulus(dense[s[i]])]
    BY DEF EndDense, InOrder
  <2> HIDE DEF s
  <2> QED
    BY <2>2, <2>3
<1>4. /\ RowsInPlay = {dense[r] : r \in NonEmptyRows}
      /\ RowsInPlay' = {TakeModulus(dense[r]) : r \in NonEmptyRows}
  <2>1. RowsInPlay = {dense[r] : r \in NonEmptyRows}
    BY <1>1 DEF RowsInPlay
  <2>2. RowsInPlay' = Range(reduced')
    BY <1>1 DEF RowsInPlay
  <2>3. Range(reduced') = {TakeModulus(dense[rows[i]]) : i \in DOMAIN rows}
    BY <1>3 DEF Range
  <2>4. {TakeModulus(dense[rows[i]]) : i \in DOMAIN rows}
          = {TakeModulus(dense[r]) : r \in NonEmptyRows}
    BY <1>3
  <2> QED
    BY <2>1, <2>2, <2>3, <2>4
<1>5. \A r \in NonEmptyRows : TakeModulus(TakeModulus(dense[r])) = TakeModulus(dense[r])
  BY <1>2, TakenTwice
<1>6. \A V : Holds(V, RowsInPlay') <=> Holds(V, RowsInPlay)
  BY <1>4, <1>5 DEF Holds
<1>7. LowerInPlay'
  BY <1>1, <1>6 DEF EchelonInv, LowerInPlay
<1> QED
  BY <1>1, <1>7 DEF EchelonInv, CopiesInStep, AllBackReduced

-----------------------------------------------------------------------------
(* The steps of the sparse algorithm, and of the caller *)

LEMMA LowerRows ==
  ASSUME TypeOK
  PROVE  /\ Len(lower) \in Nat /\ DOMAIN lower = 1..Len(lower)
         /\ \A row \in DOMAIN lower : lower[row] \in ScalarRow /\ lower[row] \in DenseRow
         /\ Range(lower) = {lower[row] : row \in DOMAIN lower}
<1>1. lower \in Seq(ScalarRow)
  BY DEF TypeOK, ScalarRow
<1>2. \A row \in DOMAIN lower : lower[row] \in ScalarRow
  BY <1>1
<1> QED
  BY <1>1, <1>2, RightRows DEF Range

LEMMA PivotRowKeepsSpace ==
  ASSUME Inv, EchelonInv, NEW row \in todo, PivotRow(row)
  PROVE  EchelonInv'
<1> DEFINE nonzero == {c \in RightCols : ReduceByPivots(lower[row])[c] % Modulus # 0}
           lead == Min(nonzero)
           newRow == [b \in RightCols |->
                        IF b < lead THEN 0 ELSE MakeUnitary(ReduceByPivots(lower[row]), lead)[b]]
<1>1. /\ phase = "sparse" /\ phase' = "sparse" /\ todo' = todo \ {row} /\ lower' = lower
      /\ pivotRowOfCol' = IF nonzero = {} THEN pivotRowOfCol
           ELSE [c \in PivotCols \cup {lead} |-> IF c = lead THEN newRow ELSE pivotRowOfCol[c]]
  BY DEF PivotRow
<1>2. TypeOK /\ todo \subseteq DOMAIN lower /\ \A c \in PivotCols : BeginsIn(pivotRowOfCol[c], c)
  BY <1>1 DEF Inv, InSparse
<1>3. PivotsBegin
  BY <1>2 DEF PivotsBegin, TypeOK, ScalarRow
<1>4. /\ RowsInPlay = {pivotRowOfCol[c] : c \in PivotCols} \cup {lower[r] : r \in todo}
      /\ RowsInPlay' = {pivotRowOfCol'[c] : c \in DOMAIN pivotRowOfCol'}
                         \cup {lower[r] : r \in todo \ {row}}
  BY <1>1 DEF RowsInPlay, PivotCols, Range
<1>5. lower[row] \in DenseRow /\ RightCols \subseteq Nat
  BY <1>2, LowerRows, RightRows
<1>6. PICK d \in DenseRow : d = ReduceByPivots(lower[row])
  BY <1>3, <1>5, ReducedByPivots
<1>7. \A c \in PivotCols : TakeModulus(pivotRowOfCol[c]) = pivotRowOfCol[c]
  BY <1>3, RightRows, TakenTwice DEF PivotsBegin
<1>8. ASSUME NEW V, Subspace(V, RightCols), \A c \in PivotCols : pivotRowOfCol[c] \in V
      PROVE  TakeModulus(d) \in V <=> TakeModulus(lower[row]) \in V
  BY <1>3, <1>5, <1>6, <1>8, PivotsKeepSpace
<1>9. CASE nonzero = {}
  <2>1. pivotRowOfCol' = pivotRowOfCol
    BY <1>1, <1>9
  <2>2. TakeModulus(d) = ZeroRow(RightCols)
    <3>1. d \in SumsOn(RightCols) /\ \A c \in RightCols : d[c] % Modulus = 0
      BY <1>6, <1>9, RightRows
    <3>2. /\ TakeModulus(d) \in RowsOn(RightCols)
          /\ \A c \in RightCols : TakeModulus(d)[c] = d[c] % Modulus
      BY <3>1, TakeModulusIs
    <3> QED
      BY <3>1, <3>2, ZeroRowIs, RowsEqual
  <2>3. ASSUME NEW V, Subspace(V, RightCols)
        PROVE  Holds(V, RowsInPlay') <=> Holds(V, RowsInPlay)
    <3>1. ZeroRow(RightCols) \in V
      BY <2>3 DEF Subspace
    <3>2. (\A c \in PivotCols : pivotRowOfCol[c] \in V) => TakeModulus(lower[row]) \in V
      BY <1>8, <2>2, <2>3, <3>1
    <3> QED
      BY <1>4, <1>7, <2>1, <3>2 DEF Holds, PivotCols
  <2> QED
    BY <1>1, <2>3 DEF EchelonInv, LowerInPlay, CopiesInStep, AllBackReduced
<1>10. CASE nonzero # {}
  <2>1. /\ lead \in nonzero /\ \A c \in nonzero : lead <= c
    BY <1>5, <1>10, MinIsLeast
  <2>2. PICK col \in RightCols : /\ col = lead /\ d[col] % Modulus # 0
                                 /\ \A c \in RightCols : c < col => d[c] % Modulus = 0
    <3>1. \A c \in RightCols : c < lead => c \notin nonzero
      <4>1. lead \in Nat
        BY <1>5, <2>1
      <4> HIDE DEF lead, nonzero
      <4> QED
        BY <1>5, <2>1, <4>1
    <3> QED
      BY <1>6, <2>1, <3>1
  <2>3. PICK new : new = newRow
    OBVIOUS
  <2> HIDE DEF nonzero, lead
  <2>4. new = [b \in RightCols |-> IF b < col THEN 0 ELSE MakeUnitary(d, col)[b]]
    BY <1>6, <2>2, <2>3
  <2> HIDE DEF newRow
  <2>5. pivotRowOfCol' = [c \in PivotCols \cup {col} |-> IF c = col THEN new ELSE pivotRowOfCol[c]]
    BY <1>1, <1>10, <2>2, <2>3
  <2>6. col \notin PivotCols
    BY <1>3, <1>5, <1>6, <2>2, PivotsAreNew
  <2>7. /\ MakeUnitary(d, col) \in DenseRow
        /\ \A c \in RightCols : c < col => MakeUnitary(d, col)[c] = d[c]
    BY <1>6, <2>2, MadeUnitary
  <2>8. new \in DenseRow
    <3>1. \A b \in RightCols : new[b] \in Nat
      BY <2>4, <2>7 DEF DenseRow
    <3> QED
      BY <2>4, <3>1 DEF DenseRow
  <2>9. TakeModulus(new) = TakeModulus(MakeUnitary(d, col))
    <3>1. \A b \in RightCols : new[b] % Modulus = MakeUnitary(d, col)[b] % Modulus
      BY <2>2, <2>4, <2>7, Remainders
    <3> QED
      BY <2>7, <2>8, <3>1, SameRemainders
  <2>10. ASSUME NEW V, Subspace(V, RightCols)
         PROVE  Holds(V, RowsInPlay') <=> Holds(V, RowsInPlay)
    <3>1. TakeModulus(new) \in V <=> TakeModulus(d) \in V
      BY <1>6, <2>2, <2>9, <2>10, UnitaryKeepsSpace
    <3>2. (\A c \in PivotCols : pivotRowOfCol[c] \in V) =>
            (TakeModulus(new) \in V <=> TakeModulus(lower[row]) \in V)
      BY <1>8, <2>10, <3>1
    <3>3. Holds(V, RowsInPlay) <=> /\ \A c \in PivotCols : TakeModulus(pivotRowOfCol[c]) \in V
                                   /\ \A r \in todo : TakeModulus(lower[r]) \in V
      BY <1>4 DEF Holds
    <3>4. /\ DOMAIN pivotRowOfCol' = PivotCols \cup {col} /\ pivotRowOfCol'[col] = new
          /\ \A c \in PivotCols : pivotRowOfCol'[c] = pivotRowOfCol[c]
      BY <2>5, <2>6
    <3>5. Holds(V, RowsInPlay') <=>
            /\ \A c \in PivotCols : TakeModulus(pivotRowOfCol[c]) \in V
            /\ TakeModulus(new) \in V
            /\ \A r \in todo \ {row} : TakeModulus(lower[r]) \in V
      BY <1>4, <3>4 DEF Holds
    <3> QED
      BY <1>7, <3>2, <3>3, <3>5
  <2> QED
    BY <1>1, <2>10 DEF EchelonInv, LowerInPlay, CopiesInStep, AllBackReduced
<1> QED
  BY <1>9, <1>10

LEMMA EndPivotsKeepsSpace ==
  ASSUME Inv, EchelonInv, EndPivots
  PROVE  EchelonInv'
<1>1. /\ phase = "sparse" /\ phase' = "back" /\ todo = {} /\ lower' = lower
      /\ todo' = PivotCols /\ pivotRowOfCol' = pivotRowOfCol
  BY DEF EndPivots
<1>2. RowsInPlay' = RowsInPlay
  BY <1>1 DEF RowsInPlay
<1>3. LowerInPlay'
  BY <1>1, <1>2 DEF EchelonInv, LowerInPlay
<1>4. AllBackReduced' /\ CopiesInStep'
  BY <1>1 DEF AllBackReduced, CopiesInStep, PivotCols
<1> QED
  BY <1>3, <1>4 DEF EchelonInv

LEMMA BackReduceKeepsSpace ==
  ASSUME Inv, EchelonInv, NEW p \in todo, BackReduce(p)
  PROVE  EchelonInv'
<1>1. /\ phase = "back" /\ phase' = "back" /\ todo' = todo \ {p} /\ lower' = lower
      /\ reduced' = Append(reduced, ReduceByLaterPivots(p))
      /\ pivotRowOfCol' = [pivotRowOfCol EXCEPT ![p] = ReduceByLaterPivots(p)]
  BY DEF BackReduce
<1>2. TypeOK /\ todo \subseteq PivotCols /\ \A c \in PivotCols : BeginsIn(pivotRowOfCol[c], c)
  BY <1>1 DEF Inv, InSparse
<1>3. PivotsBegin
  BY <1>2 DEF PivotsBegin, TypeOK, ScalarRow
<1>4. PICK d \in ScalarRow : d = ReduceByLaterPivots(p)
  BY <1>2, <1>3, ReducedByLaterPivots
<1>5. /\ DOMAIN pivotRowOfCol' = PivotCols /\ pivotRowOfCol'[p] = d
      /\ \A c \in PivotCols : c # p => pivotRowOfCol'[c] = pivotRowOfCol[c]
  BY <1>1, <1>2, <1>4 DEF PivotCols
<1>6. /\ RowsInPlay = {pivotRowOfCol[c] : c \in PivotCols}
      /\ RowsInPlay' = {pivotRowOfCol'[c] : c \in DOMAIN pivotRowOfCol'}
  BY <1>1 DEF RowsInPlay, PivotCols, Range
<1>7. \A c \in PivotCols : c \in Nat /\ TakeModulus(pivotRowOfCol[c]) = pivotRowOfCol[c]
  BY <1>3, RightRows, TakenTwice DEF PivotsBegin
<1>8. ASSUME NEW V, Subspace(V, RightCols), \A c \in PivotCols : c # p => pivotRowOfCol[c] \in V
      PROVE  TakeModulus(d) \in V <=> TakeModulus(pivotRowOfCol[p]) \in V
  <2>1. \A c \in PivotCols : c > p => pivotRowOfCol[c] \in V
    BY <1>2, <1>7, <1>8
  <2> QED
    BY <1>2, <1>3, <1>4, <1>8, <2>1, LaterPivotsKeepSpace
<1>9. ASSUME NEW V, Subspace(V, RightCols)
      PROVE  Holds(V, RowsInPlay') <=> Holds(V, RowsInPlay)
  <2>1. Holds(V, RowsInPlay) <=> /\ \A c \in PivotCols : c # p => pivotRowOfCol[c] \in V
                                 /\ TakeModulus(pivotRowOfCol[p]) \in V
    BY <1>2, <1>6, <1>7 DEF Holds
  <2>2. Holds(V, RowsInPlay') <=> /\ \A c \in PivotCols : c # p => pivotRowOfCol[c] \in V
                                  /\ TakeModulus(d) \in V
    BY <1>2, <1>5, <1>6, <1>7 DEF Holds
  <2> QED
    BY <1>8, <1>9, <2>1, <2>2
<1>10. LowerInPlay'
  BY <1>1, <1>9 DEF EchelonInv, LowerInPlay
<1>11. AllBackReduced'
  <2>1. Len(reduced) \in Nat /\ DOMAIN reduced = 1..Len(reduced) /\ reduced \in Seq(ScalarRow)
    BY <1>2 DEF TypeOK, ScalarRow
  <2>2. PICK longer : longer = Append(reduced, d)
    OBVIOUS
  <2>3. /\ DOMAIN longer = 1..Len(reduced) + 1 /\ longer[Len(reduced) + 1] = d
        /\ \A i \in DOMAIN reduced : i \in DOMAIN longer /\ longer[i] = reduced[i]
    BY <1>4, <2>1, <2>2
  <2>4. ASSUME NEW c \in PivotCols \ (todo \ {p})
        PROVE  \E i \in DOMAIN longer : longer[i] = pivotRowOfCol'[c]
    <3>1. CASE c = p
      <4>1. Len(reduced) + 1 \in DOMAIN longer
        BY <2>1, <2>3
      <4> QED
        BY <1>5, <2>3, <3>1, <4>1
    <3>2. CASE c # p
      <4>1. PICK i \in DOMAIN reduced : reduced[i] = pivotRowOfCol[c]
        BY <1>1, <2>4, <3>2 DEF EchelonInv, AllBackReduced
      <4> QED
        BY <1>5, <2>3, <2>4, <3>2, <4>1
    <3> QED
      BY <3>1, <3>2
  <2>5. reduced' = longer
    BY <1>1, <1>4, <2>2
  <2> QED
    BY <1>1, <1>5, <2>4, <2>5 DEF AllBackReduced, PivotCols
<1>12. CopiesInStep'
  BY <1>1 DEF CopiesInStep
<1> QED
  BY <1>10, <1>11, <1>12 DEF EchelonInv

LEMMA EndSparseKeepsSpace ==
  ASSUME Inv, EchelonInv, EndSparse
  PROVE  EchelonInv'
<1>1. phase = "back" /\ phase' = "done" /\ todo = {} /\ lower' = lower /\ reduced' = reduced
  BY DEF EndSparse
<1>2. /\ \A i \in DOMAIN reduced : \E c \in PivotCols : reduced[i] = pivotRowOfCol[c]
      /\ \A c \in PivotCols : \E i \in DOMAIN reduced : reduced[i] = pivotRowOfCol[c]
  BY <1>1 DEF Inv, InSparse, EchelonInv, AllBackReduced
<1>3. RowsInPlay = Range(pivotRowOfCol) /\ RowsInPlay' = Range(reduced)
  BY <1>1 DEF RowsInPlay
<1>4. RowsInPlay' = RowsInPlay
  BY <1>2, <1>3 DEF Range, PivotCols
<1>5. LowerInPlay'
  BY <1>1, <1>4 DEF EchelonInv, LowerInPlay
<1> QED
  BY <1>1, <1>5 DEF EchelonInv, CopiesInStep, AllBackReduced

LEMMA EndRightBeginsSpace ==
  ASSUME Inv, EndRight
  PROVE  EchelonInv'
<1>1. /\ phase = "right" /\ lower' = lower /\ pivotRowOfCol' = pivotRowOfCol
      /\ todo' = DOMAIN lower /\ reduced' = reduced
      /\ phase' = "sparse" \/ (phase' = "dense" /\ dense' = lower)
  BY DEF EndRight
<1>2. TypeOK /\ RowsNotZero /\ pivotRowOfCol = <<>> /\ reduced = <<>>
  BY <1>1 DEF Inv, InReduce, NothingYet
<1>3. /\ \A row \in DOMAIN lower : lower[row] \in DenseRow
      /\ Range(lower) = {lower[row] : row \in DOMAIN lower}
  BY <1>2, LowerRows
<1>4. RowsInPlay' = Range(lower)
  <2>1. CASE phase' = "sparse"
    <3>1. Range(pivotRowOfCol) = {}
      BY <1>2 DEF Range
    <3> QED
      BY <1>1, <1>3, <2>1, <3>1 DEF RowsInPlay
  <2>2. CASE phase' = "dense" /\ dense' = lower
    <3>1. \A row \in DOMAIN lower : lower[row] # <<>>
      <4>1. ASSUME NEW row \in DOMAIN lower
            PROVE  lower[row] # <<>>
        <5>1. RightCols # {}
          BY <1>2, <1>3 DEF RowsNotZero, Zero, DenseRow
        <5> QED
          BY <1>3, <5>1, RowNotEmpty
      <4> QED
        BY <4>1
    <3>2. NonEmptyRows' = DOMAIN lower
      BY <2>2, <3>1 DEF NonEmptyRows
    <3> QED
      BY <1>3, <2>2, <3>2 DEF RowsInPlay
  <2> QED
    BY <1>1, <2>1, <2>2
<1>5. LowerInPlay'
  BY <1>1, <1>4 DEF LowerInPlay
<1>6. CopiesInStep'
  BY <1>1, <1>2 DEF CopiesInStep
<1>7. AllBackReduced'
  BY <1>1 DEF AllBackReduced
<1> QED
  BY <1>5, <1>6, <1>7 DEF EchelonInv

LEMMA EchelonStutters ==
  ASSUME EchelonInv, UNCHANGED vars
  PROVE  EchelonInv'
<1>1. /\ phase' = phase /\ todo' = todo /\ lower' = lower /\ pivotRowOfCol' = pivotRowOfCol
      /\ dense' = dense /\ leadCols' = leadCols /\ isPivotRow' = isPivotRow
      /\ reduced' = reduced
  BY DEF vars, denseVars
<1>2. RowsInPlay' = RowsInPlay
  BY <1>1 DEF RowsInPlay, NonEmptyRows
<1>3. LowerInPlay'
  BY <1>1, <1>2 DEF EchelonInv, LowerInPlay
<1>4. CopiesInStep'
  BY <1>1 DEF EchelonInv, CopiesInStep
<1>5. AllBackReduced'
  BY <1>1 DEF EchelonInv, AllBackReduced, PivotCols
<1> QED
  BY <1>3, <1>4, <1>5 DEF EchelonInv

LEMMA EchelonInvKept == Inv /\ EchelonInv /\ [Next]_vars => EchelonInv'
<1> SUFFICES ASSUME Inv, EchelonInv, [Next]_vars
             PROVE  EchelonInv'
  OBVIOUS
<1>1. CASE RowStep
  <2>1. ASSUME phase' \in {"left", "right"}
        PROVE  EchelonInv'
    BY <2>1 DEF EchelonInv, LowerInPlay, CopiesInStep, AllBackReduced
  <2>2. ASSUME NEW row \in todo, ReduceLeft(row)
        PROVE  EchelonInv'
    BY <2>1, <2>2 DEF ReduceLeft
  <2>3. ASSUME NEW i \in todo, ReduceRight(i)
        PROVE  EchelonInv'
    BY <2>1, <2>3 DEF ReduceRight
  <2> QED
    BY <1>1, <2>2, <2>3, PivotRowKeepsSpace, BackReduceKeepsSpace, ReduceRowKeepsSpace
    DEF RowStep
<1>2. CASE CallerStep
  <2>1. CASE EndLeft
    BY <2>1 DEF EndLeft, EchelonInv, LowerInPlay, CopiesInStep, AllBackReduced
  <2> QED
    BY <1>2, <2>1, EndRightBeginsSpace, EndPivotsKeepsSpace, EndSparseKeepsSpace,
       NextIterationKeepsSpace, EndDenseKeepsSpace
    DEF CallerStep
<1>3. CASE UNCHANGED vars
  BY <1>3, EchelonStutters
<1> QED
  BY <1>1, <1>2, <1>3 DEF Next

LEMMA EntriesAreFinite ==
  ASSUME NEW f, NEW S, IsFiniteSet(S)
  PROVE  IsFiniteSet({f[x] : x \in S})
<1> DEFINE T == {f[x] : x \in S}
           g == [x \in S |-> f[x]]
<1>1. g \in Surjection(S, T)
  BY DEF Surjection
<1> HIDE DEF T, g
<1>2. IsFiniteSet(T)
  BY <1>1, FS_Surjection
<1> QED
  BY <1>2 DEF T

LEMMA RowsInPlayAreFinite ==
  ASSUME TypeOK, InDense, phase \in {"sparse", "back", "dense", "done"},
         phase = "sparse" => todo \subseteq DOMAIN lower
  PROVE  /\ IsFiniteSet(RowsInPlay) /\ RowsInPlay \subseteq SumsOn(RightCols)
         /\ IsFiniteSet(Range(lower)) /\ Range(lower) \subseteq SumsOn(RightCols)
<1>1. /\ Len(lower) \in Nat /\ DOMAIN lower = 1..Len(lower)
      /\ \A row \in DOMAIN lower : lower[row] \in DenseRow
      /\ Range(lower) = {lower[row] : row \in DOMAIN lower}
  BY LowerRows
<1>2. IsFiniteSet(RightCols)
  BY RightRows, FS_Interval
<1>3. \A n \in Nat : IsFiniteSet(1..n)
  BY FS_Interval
<1>4. IsFiniteSet(DOMAIN lower) /\ IsFiniteSet(Range(lower))
  <2>1. IsFiniteSet(DOMAIN lower)
    BY <1>1, <1>3
  <2>2. IsFiniteSet({lower[row] : row \in DOMAIN lower})
    BY <2>1, EntriesAreFinite
  <2> QED
    BY <1>1, <2>1, <2>2
<1>5. Range(lower) \subseteq SumsOn(RightCols)
  BY <1>1, RightRows
<1>6. /\ IsFiniteSet(Range(pivotRowOfCol)) /\ Range(pivotRowOfCol) \subseteq SumsOn(RightCols)
  <2>1. PivotCols \in SUBSET RightCols /\ \A c \in PivotCols : pivotRowOfCol[c] \in ScalarRow
    BY DEF TypeOK, ScalarRow
  <2>2. Range(pivotRowOfCol) = {pivotRowOfCol[c] : c \in PivotCols}
    BY DEF Range, PivotCols
  <2>3. IsFiniteSet(PivotCols)
    BY <1>2, <2>1, FS_Subset
  <2>4. IsFiniteSet({pivotRowOfCol[c] : c \in PivotCols})
    BY <2>3, EntriesAreFinite
  <2> QED
    BY <2>1, <2>2, <2>4, RightRows
<1>7. CASE phase = "sparse"
  <2>1. todo \in SUBSET DOMAIN lower
    BY <1>7
  <2>2. IsFiniteSet(todo)
    BY <1>4, <2>1, FS_Subset
  <2>3. IsFiniteSet({lower[row] : row \in todo})
    BY <2>2, EntriesAreFinite
  <2>4. {lower[row] : row \in todo} \subseteq SumsOn(RightCols)
    BY <1>1, <2>1, RightRows
  <2>5. RowsInPlay = Range(pivotRowOfCol) \cup {lower[row] : row \in todo}
    BY <1>7 DEF RowsInPlay
  <2>6. IsFiniteSet(Range(pivotRowOfCol) \cup {lower[row] : row \in todo})
    BY <1>6, <2>3, FS_Union
  <2> QED
    BY <1>4, <1>5, <1>6, <2>4, <2>5, <2>6
<1>8. CASE phase = "back"
  BY <1>4, <1>5, <1>6, <1>8 DEF RowsInPlay
<1>9. CASE phase = "dense"
  <2>1. NonEmptyRows \in SUBSET DOMAIN lower
    BY <1>9 DEF InDense, DenseShape, NonEmptyRows
  <2>2. IsFiniteSet(NonEmptyRows)
    BY <1>4, <2>1, FS_Subset
  <2>3. IsFiniteSet({dense[row] : row \in NonEmptyRows})
    BY <2>2, EntriesAreFinite
  <2>4. {dense[row] : row \in NonEmptyRows} \subseteq SumsOn(RightCols)
    BY RightRows DEF TypeOK
  <2> QED
    BY <1>4, <1>5, <1>9, <2>3, <2>4 DEF RowsInPlay
<1>10. CASE phase = "done"
  <2>1. reduced \in Seq(ScalarRow)
    BY DEF TypeOK, ScalarRow
  <2>2. Len(reduced) \in Nat /\ DOMAIN reduced = 1..Len(reduced)
        /\ \A i \in DOMAIN reduced : reduced[i] \in ScalarRow
    BY <2>1
  <2>3. IsFiniteSet(DOMAIN reduced)
    BY <1>3, <2>2
  <2>4. IsFiniteSet({reduced[i] : i \in DOMAIN reduced})
    BY <2>3, EntriesAreFinite
  <2>5. RowsInPlay = {reduced[i] : i \in DOMAIN reduced}
    BY <1>10 DEF RowsInPlay, Range
  <2> QED
    BY <1>4, <1>5, <2>2, <2>4, <2>5, RightRows
<1> QED
  BY <1>7, <1>8, <1>9, <1>10

LEMMA InvSpans ==
  ASSUME Inv, EchelonInv
  PROVE  EchelonSpansLower
<1> SUFFICES ASSUME phase \in {"sparse", "back", "dense", "done"}
             PROVE  Span(RowsInPlay) = Span(Range(lower))
  BY DEF EchelonSpansLower
<1>1. /\ IsFiniteSet(RowsInPlay) /\ RowsInPlay \subseteq SumsOn(RightCols)
      /\ IsFiniteSet(Range(lower)) /\ Range(lower) \subseteq SumsOn(RightCols)
  BY RowsInPlayAreFinite DEF Inv, InSparse
<1>2. \A V : Subspace(V, RightCols) => (Holds(V, RowsInPlay) <=> Holds(V, Range(lower)))
  BY DEF EchelonInv, LowerInPlay
<1> QED
  BY <1>1, <1>2, SameSpan

-----------------------------------------------------------------------------
(* Combinations: the multiples of rows added to one by one *)

Combined(base, t, rows, n, cols) ==
  Folded([k \in 1..n |-> [d \in SumsOn(cols) |-> AddRowMultiple(d, t[k], rows[k])]], base, n)

Multiples(t, n) == \A k \in 1..n : t[k] \in Nat
Summands(rows, n, cols) == \A k \in 1..n : rows[k] \in SumsOn(cols)

(* The sums, multiple by multiple *)
Summing(after, base, t, rows, n, cols) ==
  /\ after[0] = base
  /\ \A k \in 0..n : after[k] \in SumsOn(cols)
  /\ \A k \in 1..n : \A c \in cols : after[k][c] = after[k - 1][c] + t[k] * rows[k][c]

LEMMA CombinedTurns ==
  ASSUME NEW cols, NEW n \in Nat, NEW base \in SumsOn(cols), NEW t, Multiples(t, n), NEW rows,
         Summands(rows, n, cols)
  PROVE  \E after : /\ Summing(after, base, t, rows, n, cols)
                    /\ Combined(base, t, rows, n, cols) = after[n]
<1> DEFINE step == [k \in 1..n |-> [d \in SumsOn(cols) |-> AddRowMultiple(d, t[k], rows[k])]]
<1>1. Combined(base, t, rows, n, cols) = Folded(step, base, n)
  BY DEF Combined
<1>2. ASSUME NEW k \in 1..n, NEW d \in SumsOn(cols)
      PROVE  /\ step[k][d] \in SumsOn(cols)
             /\ \A c \in cols : step[k][d][c] = d[c] + t[k] * rows[k][c]
  <2>1. step[k][d] = [c \in cols |-> d[c] + t[k] * rows[k][c]]
    BY DEF AddRowMultiple, SumsOn
  <2>2. \A c \in cols : d[c] + t[k] * rows[k][c] \in Nat
    <3>1. \A c \in cols : d[c] \in Nat /\ rows[k][c] \in Nat /\ t[k] \in Nat
      BY DEF Multiples, Summands, SumsOn
    <3> QED
      BY <3>1
  <2> HIDE DEF step
  <2> QED
    BY <2>1, <2>2 DEF SumsOn
<1> HIDE DEF step
<1>3. PICK after :
        /\ after[0] = base
        /\ \A k \in 1..n : after[k] = step[k][after[k - 1]]
        /\ Folded(step, base, n) = after[n]
  BY LoopTurns
<1> DEFINE T == {k \in 0..n : after[k] \in SumsOn(cols)}
<1>4. 0 \in T
  BY <1>3
<1>5. ASSUME NEW k \in 1..n, k - 1 \in T
      PROVE  k \in T
  BY <1>2, <1>3, <1>5
<1>6. 0..n \subseteq T
  <2> HIDE DEF T
  <2> QED
    BY <1>4, <1>5, EachTurn
<1>7. \A k \in 0..n : after[k] \in SumsOn(cols)
  BY <1>6
<1>8. ASSUME NEW k \in 1..n, NEW c \in cols
      PROVE  after[k][c] = after[k - 1][c] + t[k] * rows[k][c]
  <2>1. after[k - 1] \in SumsOn(cols) /\ after[k] = step[k][after[k - 1]]
    BY <1>3, <1>7
  <2> QED
    BY <1>2, <2>1
<1>9. Summing(after, base, t, rows, n, cols)
  BY <1>3, <1>7, <1>8 DEF Summing
<1> QED
  BY <1>1, <1>3, <1>9

LEMMA CombinedIsSum ==
  ASSUME NEW cols, NEW n \in Nat, NEW base \in SumsOn(cols), NEW t, Multiples(t, n), NEW rows,
         Summands(rows, n, cols)
  PROVE  Combined(base, t, rows, n, cols) \in SumsOn(cols)
<1>1. PICK after : /\ Summing(after, base, t, rows, n, cols)
                   /\ Combined(base, t, rows, n, cols) = after[n]
  BY CombinedTurns
<1> QED
  BY <1>1 DEF Summing

(* One column of a combination: its sums, and the products they are of *)
ColumnSums(s, x, p, n) ==
  /\ s[0] = x /\ \A k \in 0..n : s[k] \in Nat
  /\ \A k \in 1..n : p[k] \in Nat /\ s[k] = s[k - 1] + p[k]

LEMMA ColumnOf ==
  ASSUME NEW cols, NEW n \in Nat, NEW base \in SumsOn(cols), NEW t, Multiples(t, n), NEW rows,
         Summands(rows, n, cols), NEW c \in cols
  PROVE  \E s, p : /\ ColumnSums(s, base[c], p, n)
                   /\ \A k \in 1..n : p[k] = t[k] * rows[k][c]
                   /\ Combined(base, t, rows, n, cols)[c] = s[n]
<1>1. PICK after : /\ Summing(after, base, t, rows, n, cols)
                   /\ Combined(base, t, rows, n, cols) = after[n]
  BY CombinedTurns
<1> DEFINE s == [k \in 0..n |-> after[k][c]]
           p == [k \in 1..n |-> t[k] * rows[k][c]]
<1>2. \A k \in 0..n : after[k][c] \in Nat
  BY <1>1, Entries DEF Summing
<1>3. \A k \in 1..n : p[k] \in Nat
  <2>1. \A k \in 1..n : t[k] \in Nat /\ rows[k][c] \in Nat
    BY Entries DEF Multiples, Summands
  <2> QED
    BY <2>1
<1>4. ColumnSums(s, base[c], p, n)
  <2>1. s[0] = base[c]
    BY <1>1 DEF Summing
  <2>2. \A k \in 0..n : s[k] \in Nat
    BY <1>2
  <2>3. \A k \in 1..n : s[k] = s[k - 1] + p[k]
    <3>1. \A k \in 1..n : k - 1 \in 0..n /\ k \in 0..n
      OBVIOUS
    <3>2. \A k \in 1..n : after[k][c] = after[k - 1][c] + t[k] * rows[k][c]
      BY <1>1 DEF Summing
    <3> QED
      BY <3>1, <3>2
  <2> HIDE DEF s, p
  <2> QED
    BY <1>3, <2>1, <2>2, <2>3 DEF ColumnSums
<1>5. Combined(base, t, rows, n, cols)[c] = s[n] /\ \A k \in 1..n : p[k] = t[k] * rows[k][c]
  BY <1>1
<1> HIDE DEF s, p
<1> QED
  BY <1>4, <1>5

(* Columns in which nothing is added, or one product *)
LEMMA NothingAdded ==
  ASSUME NEW cols, NEW n \in Nat, NEW base \in SumsOn(cols), NEW t, Multiples(t, n), NEW rows,
         Summands(rows, n, cols), NEW c \in cols
  PROVE  (\A k \in 1..n : t[k] * rows[k][c] = 0)
           => Combined(base, t, rows, n, cols)[c] = base[c]
<1>1. PICK s, p : /\ ColumnSums(s, base[c], p, n)
                  /\ \A k \in 1..n : p[k] = t[k] * rows[k][c]
                  /\ Combined(base, t, rows, n, cols)[c] = s[n]
  BY ColumnOf
<1> SUFFICES ASSUME \A k \in 1..n : t[k] * rows[k][c] = 0
             PROVE  s[n] = base[c]
  BY <1>1
<1>2. \A k \in 1..n : p[k] = 0
  BY <1>1
<1> DEFINE T == {k \in 0..n : s[k] = base[c]}
<1>3. 0 \in T
  BY <1>1 DEF ColumnSums
<1>4. ASSUME NEW k \in 1..n, k - 1 \in T
      PROVE  k \in T
  BY <1>1, <1>2, <1>4 DEF ColumnSums
<1> HIDE DEF T
<1>5. n \in T
  BY <1>3, <1>4, EachTurn
<1> QED
  BY <1>5 DEF T

LEMMA OneMultipleMore ==
  ASSUME NEW cols, NEW n \in Nat, NEW base \in SumsOn(cols), NEW rows, Summands(rows, n, cols),
         NEW t, Multiples(t, n), NEW u, Multiples(u, n), NEW i \in 1..n, t[i] = 0,
         \A k \in 1..n : k # i => u[k] = t[k], NEW c \in cols
  PROVE  Combined(base, u, rows, n, cols)[c] =
           Combined(base, t, rows, n, cols)[c] + u[i] * rows[i][c]
<1>1. PICK s, p : /\ ColumnSums(s, base[c], p, n)
                  /\ \A k \in 1..n : p[k] = t[k] * rows[k][c]
                  /\ Combined(base, t, rows, n, cols)[c] = s[n]
  BY ColumnOf
<1>2. PICK r, q : /\ ColumnSums(r, base[c], q, n)
                  /\ \A k \in 1..n : q[k] = u[k] * rows[k][c]
                  /\ Combined(base, u, rows, n, cols)[c] = r[n]
  BY ColumnOf
<1>3. \A k \in 1..n : k # i => q[k] = p[k]
  BY <1>1, <1>2
<1>4. p[i] = 0
  <2>1. rows[i][c] \in Nat
    BY Entries DEF Summands
  <2> QED
    BY <1>1, <2>1
<1>5. q[i] = u[i] * rows[i][c]
  BY <1>2
<1>6. q[i] \in Nat
  BY <1>2 DEF ColumnSums
<1> DEFINE T == {k \in 0..n : r[k] = IF k < i THEN s[k] ELSE s[k] + q[i]}
<1>7. 0 \in T
  BY <1>1, <1>2 DEF ColumnSums
<1>8. ASSUME NEW k \in 1..n, k - 1 \in T
      PROVE  k \in T
  <2>1. s[k] = s[k - 1] + p[k] /\ r[k] = r[k - 1] + q[k] /\ p[k] \in Nat /\ q[k] \in Nat
        /\ s[k - 1] \in Nat /\ s[k] \in Nat /\ r[k - 1] \in Nat /\ r[k] \in Nat
    BY <1>1, <1>2 DEF ColumnSums
  <2>2. CASE k = i
    <3>1. r[k - 1] = s[k - 1] /\ ~(k < i)
      BY <1>8, <2>2
    <3> QED
      BY <1>4, <2>1, <2>2, <3>1
  <2>3. CASE k < i
    <3>1. r[k - 1] = s[k - 1] /\ q[k] = p[k]
      BY <1>3, <1>8, <2>3
    <3> QED
      BY <2>1, <2>3, <3>1
  <2>4. CASE k > i
    <3>1. r[k - 1] = s[k - 1] + q[i] /\ q[k] = p[k] /\ ~(k < i)
      BY <1>3, <1>8, <2>4
    <3> QED
      BY <1>6, <2>1, <2>4, <3>1
  <2> QED
    BY <2>2, <2>3, <2>4
<1> HIDE DEF T
<1>9. n \in T
  BY <1>7, <1>8, EachTurn
<1>10. r[n] = s[n] + q[i]
  BY <1>9 DEF T
<1> QED
  BY <1>1, <1>2, <1>5, <1>10

LEMMA PlusModulo ==
  \A x, a, y \in Nat : Plus(x, a, y) = Plus(x % Modulus, a, y)
<1> SUFFICES ASSUME NEW x \in Nat, NEW a \in Nat, NEW y \in Nat
             PROVE  Plus(x, a, y) = Plus(x % Modulus, a, y)
  OBVIOUS
<1>1. ((x % Modulus) + a * y) % Modulus = (x + a * y) % Modulus
  BY SumOfRemainders
<1> QED
  BY <1>1 DEF Plus

Added(x, a, y) == x + a * y

Numbers(A, B, C, a, f, g, e) ==
  A \in Nat /\ B \in Nat /\ C \in Nat /\ a \in Nat /\ f \in Nat /\ g \in Nat /\ e \in Nat

LEMMA OneProductMore ==
  \A A, B, C, a, f, g, e : Numbers(A, B, C, a, f, g, e) /\ C % Modulus = Plus(A, a, B)
    => Added(C, Plus(f, a, g), e) % Modulus = Plus(Added(A, f, e), a, Added(B, g, e))
<1> SUFFICES ASSUME NEW A, NEW B, NEW C, NEW a, NEW f, NEW g, NEW e,
                    Numbers(A, B, C, a, f, g, e), C % Modulus = Plus(A, a, B)
             PROVE  Added(C, Plus(f, a, g), e) % Modulus = Plus(Added(A, f, e), a, Added(B, g, e))
  OBVIOUS
<1>0. A \in Nat /\ B \in Nat /\ C \in Nat /\ a \in Nat /\ f \in Nat /\ g \in Nat /\ e \in Nat
  BY DEF Numbers
<1>1. Plus(f, a, g) \in Nat /\ Plus(A, a, B) \in Nat
  BY <1>0, PlusIsScalar
<1>2. (C + Plus(f, a, g) * e) % Modulus = Plus(C % Modulus, Plus(f, a, g), e)
  <2>1. Plus(C, Plus(f, a, g), e) = Plus(C % Modulus, Plus(f, a, g), e)
    BY <1>0, <1>1, PlusModulo
  <2> QED
    BY <2>1 DEF Plus
<1>3. Plus(Plus(A, f, e), a, Plus(B, g, e)) = Plus(Plus(A, a, B), Plus(f, a, g), e)
  BY <1>0, SumOfSums, SMTT(20)
<1>4. PICK h \in Nat, i \in Nat : h = A + f * e /\ i = B + g * e
  BY <1>0
<1>5. Plus(A, f, e) = h % Modulus /\ Plus(B, g, e) = i % Modulus
  BY <1>4 DEF Plus
<1>6. Plus(h % Modulus, a, i % Modulus) = Plus(h, a, i)
  <2>1. h % Modulus \in Nat /\ i % Modulus \in Nat
    BY Quotients
  <2>2. Plus(h % Modulus, a, i % Modulus) = Plus(h, a, i % Modulus)
    BY <1>0, <2>1, SumOfRemainders DEF Plus
  <2>3. Plus(h, a, i % Modulus) = Plus(h, a, i)
    BY <1>0, SumOfRemainders DEF Plus
  <2> QED
    BY <2>2, <2>3
<1> QED
  BY <1>2, <1>3, <1>4, <1>5, <1>6 DEF Added

(* Entry by entry, v and a times w *)
IsSum(x, v, a, w, S) == \A c \in S : x[c] = Plus(v[c], a, w[c])

(* Combinations are combined by their multiples. *)
LEMMA CombinationsCombine ==
  ASSUME NEW cols, NEW n \in Nat, NEW rows, Summands(rows, n, cols),
         NEW v \in SumsOn(cols), NEW t, Multiples(t, n),
         NEW w \in SumsOn(cols), NEW u, Multiples(u, n),
         NEW a \in Nat, NEW x \in SumsOn(cols), IsSum(x, v, a, w, cols),
         NEW z, IsSum(z, t, a, u, 1..n), NEW c \in cols
  PROVE  Combined(x, z, rows, n, cols)[c] % Modulus =
           Plus(Combined(v, t, rows, n, cols)[c], a, Combined(w, u, rows, n, cols)[c])
<1>1. Multiples(z, n)
  <2>1. ASSUME NEW k \in 1..n
        PROVE  z[k] \in Nat
    <3>1. PICK f \in Nat, g \in Nat : f = t[k] /\ g = u[k]
      BY DEF Multiples
    <3>2. Plus(f, a, g) \in Nat
      BY PlusIsScalar
    <3> QED
      BY <3>1, <3>2 DEF IsSum
  <2> QED
    BY <2>1 DEF Multiples
<1>2. PICK r, p : /\ ColumnSums(r, v[c], p, n)
                  /\ \A k \in 1..n : p[k] = t[k] * rows[k][c]
                  /\ Combined(v, t, rows, n, cols)[c] = r[n]
  BY ColumnOf
<1>3. PICK s, q : /\ ColumnSums(s, w[c], q, n)
                  /\ \A k \in 1..n : q[k] = u[k] * rows[k][c]
                  /\ Combined(w, u, rows, n, cols)[c] = s[n]
  BY ColumnOf
<1>4. PICK y, o : /\ ColumnSums(y, x[c], o, n)
                  /\ \A k \in 1..n : o[k] = z[k] * rows[k][c]
                  /\ Combined(x, z, rows, n, cols)[c] = y[n]
  BY <1>1, ColumnOf
<1>5. ASSUME NEW k \in 1..n
      PROVE  /\ p[k] = t[k] * rows[k][c] /\ q[k] = u[k] * rows[k][c]
             /\ o[k] = Plus(t[k], a, u[k]) * rows[k][c]
             /\ t[k] \in Nat /\ u[k] \in Nat /\ rows[k][c] \in Nat
  BY <1>2, <1>3, <1>4, Entries DEF Multiples, Summands, IsSum
<1> DEFINE T == {k \in 0..n : y[k] % Modulus = Plus(r[k], a, s[k])}
<1>6. 0 \in T
  <2>1. PICK f \in Nat, g \in Nat : f = v[c] /\ g = w[c]
    BY Entries
  <2>2. x[c] = Plus(f, a, g)
    BY <2>1 DEF IsSum
  <2>3. Plus(f, a, g) % Modulus = Plus(f, a, g)
    BY PlusIsScalar, Remainders
  <2>4. y[0] = x[c] /\ r[0] = v[c] /\ s[0] = w[c]
    BY <1>2, <1>3, <1>4 DEF ColumnSums
  <2> QED
    BY <2>1, <2>2, <2>3, <2>4
<1>7. ASSUME NEW k \in 1..n, k - 1 \in T
      PROVE  k \in T
  <2>1. /\ r[k - 1] \in Nat /\ s[k - 1] \in Nat /\ y[k - 1] \in Nat
        /\ r[k] = r[k - 1] + p[k] /\ s[k] = s[k - 1] + q[k] /\ y[k] = y[k - 1] + o[k]
        /\ r[k] \in Nat /\ s[k] \in Nat
    BY <1>2, <1>3, <1>4 DEF ColumnSums
  <2>2. PICK A \in Nat, B \in Nat, C \in Nat, f \in Nat, g \in Nat, e \in Nat :
          /\ A = r[k - 1] /\ B = s[k - 1] /\ C = y[k - 1]
          /\ f = t[k] /\ g = u[k] /\ e = rows[k][c]
    BY <1>5, <2>1
  <2>3. r[k] = A + f * e /\ s[k] = B + g * e /\ y[k] = C + Plus(f, a, g) * e
    BY <1>5, <2>1, <2>2
  <2>4. C % Modulus = Plus(A, a, B)
    BY <1>7, <2>2
  <2>5. r[k] = Added(A, f, e) /\ s[k] = Added(B, g, e) /\ y[k] = Added(C, Plus(f, a, g), e)
    BY <2>3 DEF Added
  <2>6. Numbers(A, B, C, a, f, g, e)
    BY DEF Numbers
  <2>7. Added(C, Plus(f, a, g), e) % Modulus = Plus(Added(A, f, e), a, Added(B, g, e))
    BY <2>4, <2>6, OneProductMore
  <2> QED
    BY <2>5, <2>7
<1> HIDE DEF T
<1>8. n \in T
  BY <1>6, <1>7, EachTurn, SMTT(20)
<1> QED
  BY <1>2, <1>3, <1>4, <1>8 DEF T

LEMMA CombinedInSpace ==
  ASSUME NEW cols, NEW n \in Nat, NEW base \in SumsOn(cols), NEW t, \A k \in 1..n : t[k] \in Scalar,
         NEW rows, NEW V, Subspace(V, cols), \A k \in 1..n : rows[k] \in V
  PROVE  TakeModulus(Combined(base, t, rows, n, cols)) \in V <=> TakeModulus(base) \in V
<1>1. Multiples(t, n) /\ Summands(rows, n, cols)
  BY ScalarsAreNumbers DEF Multiples, Summands, Subspace
<1>2. PICK after : /\ Summing(after, base, t, rows, n, cols)
                   /\ Combined(base, t, rows, n, cols) = after[n]
  BY <1>1, CombinedTurns
<1> DEFINE T == {k \in 0..n : TakeModulus(after[k]) \in V <=> TakeModulus(base) \in V}
<1>3. 0 \in T
  BY <1>2 DEF Summing
<1>4. ASSUME NEW k \in 1..n, k - 1 \in T
      PROVE  k \in T
  <2>1. PICK d \in SumsOn(cols), e \in SumsOn(cols) : d = after[k - 1] /\ e = after[k]
    <3>1. k - 1 \in 0..n /\ k \in 0..n
      OBVIOUS
    <3> QED
      BY <1>2, <3>1 DEF Summing
  <2>2. PICK row \in V, a \in Scalar : row = rows[k] /\ a = t[k]
    OBVIOUS
  <2>3. \A c \in cols : e[c] = d[c] + a * row[c]
    BY <1>2, <2>1, <2>2 DEF Summing
  <2>4. PICK x \in RowsOn(cols) : x = TakeModulus(d) /\ \A c \in cols : x[c] = d[c] % Modulus
    BY TakeModulusIs
  <2>5. PICK y \in RowsOn(cols) : y = TakeModulus(e) /\ \A c \in cols : y[c] = e[c] % Modulus
    BY TakeModulusIs
  <2>6. row \in RowsOn(cols) /\ row \in SumsOn(cols) /\ a \in Nat /\ x \in SumsOn(cols)
    BY ScalarsAreNumbers DEF Subspace
  <2>7. /\ ReducedBy(x, a, row) \in RowsOn(cols)
        /\ \A c \in cols : ReducedBy(x, a, row)[c] = Plus(x[c], a, row[c])
    BY <2>6, ReducedByIs
  <2>8. ASSUME NEW c \in cols
        PROVE  y[c] = Plus(x[c], a, row[c])
    <3>1. d[c] \in Nat /\ row[c] \in Nat
      BY <2>6, Entries
    <3>2. Plus(d[c], a, row[c]) = Plus(d[c] % Modulus, a, row[c])
      BY <2>6, <3>1, PlusModulo
    <3>3. y[c] = Plus(d[c], a, row[c])
      BY <2>3, <2>5 DEF Plus
    <3> QED
      BY <2>4, <3>2, <3>3
  <2>9. y = ReducedBy(x, a, row)
    BY <2>7, <2>8, RowsEqual
  <2>10. y \in V <=> x \in V
    BY <2>9, SpaceClosed
  <2> QED
    BY <1>4, <2>1, <2>4, <2>5, <2>10
<1> HIDE DEF T
<1>5. n \in T
  BY <1>3, <1>4, EachTurn
<1> QED
  BY <1>2, <1>5 DEF T

-----------------------------------------------------------------------------
(* The multipliers of reduce *)

(* The top row that reduces a column is the one that begins there. *)
LEMMA TopsBegin ==
  ASSUME NEW m \in QuadMatrices
  PROVE  /\ Len(m.topLeft) \in Nat /\ DOMAIN m.topLeft = 1..Len(m.topLeft)
         /\ LeftCols(m) = 0..Len(m.topLeft) - 1 /\ LeftCols(m) \subseteq Nat
         /\ Summands(m.topLeft, Len(m.topLeft), LeftCols(m))
         /\ \A k \in 1..Len(m.topLeft) :
              /\ m.topLeft[k] \in RowsOn(LeftCols(m))
              /\ LeadCol(m.topLeft[k]) \in LeftCols(m)
              /\ k = RowThatReducesCol(m, LeadCol(m.topLeft[k]))
              /\ BeginsIn(m.topLeft[k], LeadCol(m.topLeft[k]))
         /\ \A c \in LeftCols(m) : /\ RowThatReducesCol(m, c) \in 1..Len(m.topLeft)
                                   /\ LeadCol(m.topLeft[RowThatReducesCol(m, c)]) = c
<1> DEFINE n == Len(m.topLeft)
           L == LeftCols(m)
           lead == [k \in 1..n |-> LeadCol(m.topLeft[k])]
<1>1. /\ n \in Nat /\ DOMAIN m.topLeft = 1..n /\ L = 0..n - 1 /\ L \subseteq Nat
      /\ \A k \in 1..n : m.topLeft[k] \in RowsOn(L) /\ LeadCol(m.topLeft[k]) \in L
  BY TopRows DEF LeftCols, RowsOn
<1>2. \A c \in L : \E k \in 1..n : /\ LeadCol(m.topLeft[k]) = c /\ ~Zero(m.topLeft[k])
                                   /\ m.topLeft[k][c] = 1
  BY <1>1, QuadMatricesAssumption
<1>3. lead \in Surjection(1..n, L)
  BY <1>1, <1>2 DEF Surjection
<1>4. IsFiniteSet(1..n) /\ Cardinality(1..n) = n /\ IsFiniteSet(L) /\ Cardinality(L) = n
  <2> HIDE DEF n, L
  <2>1. n - 1 \in Int /\ 0 \in Int /\ 1 \in Int /\ n \in Int
    BY <1>1
  <2>2. IsFiniteSet(1..n) /\ Cardinality(1..n) = IF 1 > n THEN 0 ELSE n - 1 + 1
    BY <2>1, FS_Interval
  <2>3. /\ IsFiniteSet(0..n - 1)
        /\ Cardinality(0..n - 1) = IF 0 > n - 1 THEN 0 ELSE (n - 1) - 0 + 1
    BY <2>1, FS_Interval
  <2> QED
    BY <1>1, <2>2, <2>3
<1>5. \A j, k \in 1..n : LeadCol(m.topLeft[j]) = LeadCol(m.topLeft[k]) => j = k
  <2>1. lead \in Injection(1..n, L)
    <3> HIDE DEF lead, L
    <3> QED
      BY <1>3, <1>4, FS_SurjSameCardinalityImpliesInj
  <2>2. \A j, k \in 1..n : lead[j] = lead[k] => j = k
    <3> HIDE DEF lead
    <3> QED
      BY <2>1 DEF Injection, IsInjective
  <2> QED
    BY <2>2
<1>6. ASSUME NEW c \in L
      PROVE  RowThatReducesCol(m, c) \in 1..n /\ LeadCol(m.topLeft[RowThatReducesCol(m, c)]) = c
  <2>1. \E i \in DOMAIN m.topLeft : LeadCol(m.topLeft[i]) = c
    BY <1>1, <1>2
  <2>2. RowThatReducesCol(m, c) \in DOMAIN m.topLeft
        /\ LeadCol(m.topLeft[RowThatReducesCol(m, c)]) = c
    BY <2>1, Zenon DEF RowThatReducesCol
  <2> QED
    BY <1>1, <2>2
<1>7. ASSUME NEW k \in 1..n
      PROVE  /\ k = RowThatReducesCol(m, LeadCol(m.topLeft[k]))
             /\ BeginsIn(m.topLeft[k], LeadCol(m.topLeft[k]))
  <2>1. PICK j \in 1..n : /\ LeadCol(m.topLeft[j]) = LeadCol(m.topLeft[k])
                          /\ ~Zero(m.topLeft[j])
                          /\ m.topLeft[j][LeadCol(m.topLeft[k])] = 1
    BY <1>1, <1>2
  <2>2. j = k
    BY <1>5, <2>1
  <2>3. DOMAIN m.topLeft[k] = L
    BY <1>1 DEF RowsOn
  <2>4. /\ LeadCol(m.topLeft[k]) \in DOMAIN m.topLeft[k]
        /\ \A c \in DOMAIN m.topLeft[k] : c < LeadCol(m.topLeft[k]) => m.topLeft[k][c] = 0
    BY <1>1, <2>1, <2>2, <2>3, LeadExists
  <2> QED
    BY <1>1, <1>5, <1>6, <2>1, <2>2, <2>4 DEF BeginsIn
<1>8. Summands(m.topLeft, n, L)
  BY <1>1, ScalarsAreNumbers DEF Summands
<1> QED
  BY <1>1, <1>6, <1>7, <1>8

(* Each turn chooses the multiple that makes its column zero, and leaves the
   columns before it alone. *)
LEMMA MultiplesTurns ==
  ASSUME NEW m \in QuadMatrices, NEW row \in DOMAIN m.bottomLeft
  PROVE  \E after :
           /\ after[0] = m.bottomLeft[row]
           /\ after[Len(m.topLeft)] = LeftMultiples(m, row)
           /\ \A k \in 0..Len(m.topLeft) : after[k] \in SumsOn(LeftCols(m))
           /\ \A k \in 1..Len(m.topLeft) :
                /\ after[k][k - 1] \in Scalar
                /\ Plus(after[k - 1][k - 1], after[k][k - 1], 1) = 0
                /\ \A b \in LeftCols(m) : b # k - 1 =>
                     after[k][b] = after[k - 1][b] + after[k][k - 1]
                                     * m.topLeft[RowThatReducesCol(m, k - 1)][b]
<1> DEFINE L == LeftCols(m)
           n == Len(m.topLeft)
           eliminate(d, pivot) ==
             LET entry == d[pivot] % Modulus
                 top == m.topLeft[RowThatReducesCol(m, pivot)]
             IN  IF entry = 0 THEN [d EXCEPT ![pivot] = 0]
                 ELSE [AddRowMultiple(d, Modulus - entry, [top EXCEPT ![pivot] = 0])
                         EXCEPT ![pivot] = Modulus - entry]
           step == [k \in 1..n |-> [d \in SumsOn(L) |-> eliminate(d, k - 1)]]
           start == m.bottomLeft[row]
<1>1. n \in Nat /\ L = 0..n - 1 /\ L \subseteq Nat
  BY TopsBegin
<1>2. start \in SumsOn(L)
  <2>1. m.bottomLeft \in Seq(RowsOn(L))
    BY QuadMatricesAssumption DEF RowsOn
  <2> HIDE DEF L
  <2>2. start \in RowsOn(L)
    BY <2>1
  <2> QED
    BY <2>2, ScalarsAreNumbers
<1>3. ASSUME NEW d \in SumsOn(L), NEW c \in L
      PROVE  /\ eliminate(d, c) \in SumsOn(L) /\ eliminate(d, c)[c] \in Scalar
             /\ Plus(d[c], eliminate(d, c)[c], 1) = 0
             /\ \A b \in L : b # c =>
                  eliminate(d, c)[b] = d[b] + eliminate(d, c)[c] * m.topLeft[RowThatReducesCol(m, c)][b]
  <2>1. PICK top \in SumsOn(L) : top = m.topLeft[RowThatReducesCol(m, c)]
    BY TopsBegin, ScalarsAreNumbers
  <2>2. PICK entry \in Scalar : entry = d[c] % Modulus
    BY Entries, Remainders
  <2>3. \A b \in L : d[b] \in Nat /\ top[b] \in Nat
    BY Entries
  <2> DEFINE cleared == [d EXCEPT ![c] = 0]
             rest == [top EXCEPT ![c] = 0]
             added == AddRowMultiple(d, Modulus - entry, rest)
             e == eliminate(d, c)
  <2>4. e = IF entry = 0 THEN cleared ELSE [added EXCEPT ![c] = Modulus - entry]
    BY <2>1, <2>2
  <2>5. DOMAIN d = L /\ DOMAIN top = L
    BY DEF SumsOn
  <2>6. DOMAIN cleared = L /\ \A b \in L : cleared[b] = IF b = c THEN 0 ELSE d[b]
    BY <2>5
  <2>7. \A b \in L : rest[b] = IF b = c THEN 0 ELSE top[b]
    BY <2>5
  <2> HIDE DEF e, cleared, rest
  <2>8. added = [b \in L |-> d[b] + (Modulus - entry) * rest[b]]
    BY <2>5 DEF AddRowMultiple
  <2> HIDE DEF added, L
  <2>9. Modulus \in Nat /\ entry \in Nat /\ (Modulus - entry) \in Nat /\ Modulus % Modulus = 0
    BY Remainders DEF Scalar
  <2>10. CASE entry = 0
    <3>1. e = cleared /\ e[c] = 0 /\ \A b \in L : b # c => e[b] = d[b]
      BY <2>4, <2>6, <2>10
    <3>2. e \in SumsOn(L)
      <4>1. \A b \in L : cleared[b] \in Nat
        BY <2>3, <2>6
      <4>2. cleared = [b \in L |-> cleared[b]]
        BY <2>5, <2>6 DEF cleared
      <4> QED
        BY <3>1, <4>1, <4>2 DEF SumsOn
    <3>3. Plus(d[c], 0, 1) = 0
      <4>1. d[c] + 0 * 1 = d[c]
        BY <2>3
      <4> QED
        BY <2>2, <2>10, <4>1 DEF Plus
    <3>4. \A b \in L : b # c => e[b] = d[b] + 0 * top[b]
      BY <2>3, <3>1
    <3> QED
      BY <2>1, <3>1, <3>2, <3>3, <3>4, Remainders DEF e
  <2>11. CASE entry # 0
    <3>1. PICK a \in Scalar : a = Modulus - entry /\ a \in Nat
      BY <2>9, <2>11 DEF Scalar
    <3>2. e = [added EXCEPT ![c] = a] /\ added = [b \in L |-> d[b] + a * rest[b]]
      BY <2>4, <2>8, <2>11, <3>1
    <3>3. DOMAIN e = L /\ e[c] = a /\ \A b \in L : b # c => e[b] = d[b] + a * top[b]
      BY <2>7, <3>2
    <3>4. e \in SumsOn(L)
      <4>1. \A b \in L : e[b] \in Nat
        BY <2>3, <3>1, <3>3
      <4>2. e = [b \in L |-> e[b]]
        BY <3>2, <3>3
      <4> QED
        BY <4>1, <4>2 DEF SumsOn
    <3>5. Plus(d[c], a, 1) = 0
      <4>1. Plus(d[c], a, 1) = Plus(entry, a, 1)
        BY <2>2, <2>3, <3>1, PlusModulo
      <4>2. entry + a * 1 = Modulus
        BY <2>9, <3>1
      <4> QED
        BY <2>9, <4>1, <4>2 DEF Plus
    <3> QED
      BY <2>1, <3>1, <3>3, <3>4, <3>5 DEF e
  <2> QED
    BY <2>10, <2>11
<1>4. LeftMultiples(m, row) = Folded(step, start, n)
  BY DEF LeftMultiples, SumsOn
<1> HIDE DEF eliminate
<1>5. \A k \in 1..n : \A d \in SumsOn(L) :
        /\ k - 1 \in L /\ step[k][d] \in SumsOn(L) /\ step[k][d][k - 1] \in Scalar
        /\ Plus(d[k - 1], step[k][d][k - 1], 1) = 0
        /\ \A b \in L : b # k - 1 =>
             step[k][d][b] = d[b] + step[k][d][k - 1] * m.topLeft[RowThatReducesCol(m, k - 1)][b]
  <2>1. \A k \in 1..n : k - 1 \in L
    BY <1>1
  <2>2. \A k \in 1..n : \A d \in SumsOn(L) : step[k][d] = eliminate(d, k - 1)
    OBVIOUS
  <2> HIDE DEF step
  <2> QED
    BY <1>3, <2>1, <2>2
<1> HIDE DEF step, start, L
<1>6. PICK after :
        /\ after[0] = start
        /\ \A k \in 1..n : after[k] = step[k][after[k - 1]]
        /\ Folded(step, start, n) = after[n]
  BY <1>1, LoopTurns
<1> DEFINE T == {k \in 0..n : after[k] \in SumsOn(L)}
<1>7. 0 \in T
  BY <1>1, <1>2, <1>6
<1>8. ASSUME NEW k \in 1..n, k - 1 \in T
      PROVE  k \in T
  <2>1. \A d \in SumsOn(L) : step[k][d] \in SumsOn(L)
    BY <1>5
  <2>2. after[k - 1] \in SumsOn(L) /\ after[k] = step[k][after[k - 1]]
    BY <1>6, <1>8
  <2>3. after[k] \in SumsOn(L)
    BY <2>1, <2>2
  <2> QED
    BY <1>1, <2>3
<1>9. 0..n \subseteq T
  <2> HIDE DEF T
  <2> QED
    BY <1>1, <1>7, <1>8, EachTurn
<1>10. \A k \in 0..n : after[k] \in SumsOn(L)
  BY <1>9
<1>11. ASSUME NEW k \in 1..n
       PROVE  /\ after[k][k - 1] \in Scalar /\ Plus(after[k - 1][k - 1], after[k][k - 1], 1) = 0
              /\ \A b \in L : b # k - 1 =>
                   after[k][b] = after[k - 1][b] + after[k][k - 1]
                                   * m.topLeft[RowThatReducesCol(m, k - 1)][b]
  <2>1. k - 1 \in 0..n
    BY <1>1
  <2>2. after[k - 1] \in SumsOn(L) /\ after[k] = step[k][after[k - 1]]
    BY <1>6, <1>10, <2>1
  <2> QED
    BY <1>5, <2>2
<1> QED
  BY <1>4, <1>6, <1>10, <1>11 DEF start, L

(* A multiple, once chosen, stays: later top rows have zeros there. *)
LEMMA MultiplesStay ==
  ASSUME NEW m \in QuadMatrices, NEW after,
         \A k \in 0..Len(m.topLeft) : after[k] \in SumsOn(LeftCols(m)),
         \A k \in 1..Len(m.topLeft) : /\ after[k][k - 1] \in Scalar
           /\ \A b \in LeftCols(m) : b # k - 1 =>
                     after[k][b] = after[k - 1][b] + after[k][k - 1]
                                     * m.topLeft[RowThatReducesCol(m, k - 1)][b]
  PROVE  \A c \in LeftCols(m) : after[Len(m.topLeft)][c] = after[c + 1][c]
<1> DEFINE n == Len(m.topLeft)
           L == LeftCols(m)
<1>1. n \in Nat /\ L = 0..n - 1
  BY TopsBegin
<1>2. ASSUME NEW c \in L, NEW j \in 1..n, c < j - 1
      PROVE  m.topLeft[RowThatReducesCol(m, j - 1)][c] = 0
  <2>1. j - 1 \in L
    BY <1>1
  <2>2. PICK i \in 1..n : i = RowThatReducesCol(m, j - 1) /\ LeadCol(m.topLeft[i]) = j - 1
    BY <2>1, TopsBegin
  <2>3. BeginsIn(m.topLeft[i], j - 1) /\ DOMAIN m.topLeft[i] = L
    BY <2>2, TopsBegin DEF RowsOn
  <2> QED
    BY <1>2, <2>2, <2>3 DEF BeginsIn
<1>3. SUFFICES ASSUME NEW c \in L
               PROVE  after[n][c] = after[c + 1][c]
  OBVIOUS
<1> DEFINE T == {j \in 0..n : c < j => after[j][c] = after[c + 1][c]}
<1>4. c \in Nat /\ c < n
  BY <1>1
<1>5. 0 \in T
  BY <1>1, <1>4
<1>6. ASSUME NEW j \in 1..n, j - 1 \in T
      PROVE  j \in T
  <2>1. CASE c < j - 1
    <3>1. after[j - 1][c] = after[c + 1][c]
      BY <1>6, <2>1
    <3>2. after[j][c] = after[j - 1][c] + after[j][j - 1] * m.topLeft[RowThatReducesCol(m, j - 1)][c]
      BY <1>4, <2>1
    <3>3. m.topLeft[RowThatReducesCol(m, j - 1)][c] = 0
      BY <1>2, <2>1
    <3>4. after[j][j - 1] \in Nat /\ after[j - 1][c] \in Nat
      <4>1. j - 1 \in 0..n
        BY <1>1
      <4> QED
        BY <4>1, ScalarsAreNumbers, Entries
    <3>5. after[j][c] = after[j - 1][c]
      BY <3>2, <3>3, <3>4
    <3> QED
      BY <1>1, <3>1, <3>5
  <2>2. CASE ~(c < j - 1)
    <3>1. c < j => j = c + 1
      BY <1>1, <1>4, <2>2
    <3> QED
      BY <1>1, <3>1
  <2> QED
    BY <2>1, <2>2
<1> HIDE DEF T
<1>7. n \in T
  <2>1. n \in Nat /\ n \in 0..n
    BY <1>1
  <2> HIDE DEF n
  <2> QED
    BY <1>5, <1>6, <2>1, EachTurn
<1> QED
  BY <1>1, <1>4, <1>7 DEF T

(* Rows that each begin with 1 in a column of their own *)
LeadsIn(lead, R, top, n, cols) ==
  /\ cols \subseteq Nat /\ \A c \in cols : c < n
  /\ \A k \in 1..n : k - 1 \in cols /\ lead[k] \in cols /\ k = R[lead[k]]
  /\ \A c \in cols : /\ R[c] \in 1..n /\ lead[R[c]] = c
                      /\ top[R[c]][c] = 1 /\ \A b \in cols : b < c => top[R[c]][b] = 0

(* The turns of LeftMultiples *)
Eliminating(after, base, R, top, n, cols) ==
  /\ \A b \in cols : after[0][b] = base[b]
  /\ \A k \in 0..n : after[k] \in SumsOn(cols)
  /\ \A k \in 1..n : /\ after[k][k - 1] \in Scalar
                      /\ Plus(after[k - 1][k - 1], after[k][k - 1], 1) = 0
                      /\ \A b \in cols : b # k - 1 =>
                           after[k][b] = after[k - 1][b] + after[k][k - 1] * top[R[k - 1]][b]
  /\ \A c \in cols : after[n][c] = after[c + 1][c]

(* u[j]: the multiples of the rows that begin before column j *)
UpToColumns(u, after, lead, n) ==
  /\ \A j \in 0..n : Multiples(u[j], n)
  /\ \A j \in 0..n : \A k \in 1..n :
       u[j][k] = IF lead[k] < j THEN after[n][lead[k]] ELSE 0

(* The top rows, added one by one in the order of their leads: after each turn
   one more column is zero, and the others are those of the turns above. *)
LEMMA ColumnsCancel ==
  ASSUME NEW n \in Nat, NEW L, NEW base \in SumsOn(L), NEW top, Summands(top, n, L),
         NEW lead, NEW R, LeadsIn(lead, R, top, n, L),
         NEW after, Eliminating(after, base, R, top, n, L),
         NEW u, UpToColumns(u, after, lead, n)
  PROVE  \A b \in L : Combined(base, u[n], top, n, L)[b] % Modulus = 0
<1>1. L \subseteq Nat /\ \A c \in L : c < n
  BY DEF LeadsIn
<1> DEFINE T == {j \in 0..n : \A b \in L :
                   Combined(base, u[j], top, n, L)[b] % Modulus =
                     IF b < j THEN 0 ELSE after[j][b] % Modulus}
<1>2. 0 \in T
  <2>1. 0 \in 0..n
    OBVIOUS
  <2>2. \A k \in 1..n : u[0][k] = 0
    <3>1. \A k \in 1..n : lead[k] \in Nat
      BY <1>1 DEF LeadsIn
    <3>2. \A k \in 1..n : ~(lead[k] < 0)
      BY <3>1
    <3> QED
      BY <2>1, <3>2 DEF UpToColumns
  <2>3. ASSUME NEW b \in L
        PROVE  Combined(base, u[0], top, n, L)[b] = base[b]
    <3>1. \A k \in 1..n : u[0][k] * top[k][b] = 0
      <4>1. \A k \in 1..n : top[k][b] \in Nat
        BY Entries DEF Summands
      <4> QED
        BY <2>2, <4>1
    <3>2. Multiples(u[0], n)
      BY <2>1 DEF UpToColumns
    <3> HIDE DEF T
    <3>3. (\A k \in 1..n : u[0][k] * top[k][b] = 0)
            => Combined(base, u[0], top, n, L)[b] = base[b]
      BY <3>2, NothingAdded
    <3> QED
      BY <3>1, <3>3
  <2>4. \A b \in L : ~(b < 0) /\ after[0][b] = base[b]
    BY <1>1 DEF Eliminating
  <2> QED
    BY <2>1, <2>3, <2>4
<1>3. ASSUME NEW j \in 1..n, j - 1 \in T
      PROVE  j \in T
  <2>1. PICK c \in L : c = j - 1 /\ c \in 0..n /\ j \in 0..n /\ c + 1 = j
    <3>1. j - 1 \in L
      BY DEF LeadsIn
    <3> QED
      BY <3>1
  <2>2. PICK i \in 1..n : i = R[c] /\ lead[i] = c
    BY DEF LeadsIn
  <2>3. PICK a \in Scalar : a = after[n][c] /\ a = after[j][c]
    BY <2>1 DEF Eliminating
  <2>4. u[c][i] = 0 /\ u[j][i] = a
    <3>1. ~(c < c) /\ c < j
      BY <1>1, <2>1
    <3> QED
      BY <2>1, <2>2, <2>3, <3>1 DEF UpToColumns
  <2>5. \A k \in 1..n : k # i => u[j][k] = u[c][k]
    <3>1. \A k \in 1..n : k # i => (lead[k] < j <=> lead[k] < c)
      <4>1. \A k \in 1..n : lead[k] \in L /\ k = R[lead[k]]
        BY DEF LeadsIn
      <4>2. \A k \in 1..n : k # i => lead[k] # c
        BY <2>2, <4>1
      <4>3. c \in Nat /\ \A k \in 1..n : lead[k] \in Nat
        BY <1>1, <4>1
      <4>4. \A x \in Nat : x # c => (x < c + 1 <=> x < c)
        BY <4>3
      <4> QED
        BY <2>1, <4>2, <4>3, <4>4
    <3> QED
      BY <2>1, <3>1 DEF UpToColumns
  <2>6. Multiples(u[c], n) /\ Multiples(u[j], n)
    BY <2>1 DEF UpToColumns
  <2> HIDE DEF T
  <2>7. \A b \in L : Combined(base, u[j], top, n, L)[b] =
                       Combined(base, u[c], top, n, L)[b] + a * top[i][b]
    <3>1. \A b \in L : Combined(base, u[j], top, n, L)[b] =
                         Combined(base, u[c], top, n, L)[b] + u[j][i] * top[i][b]
      BY <2>4, <2>5, <2>6, OneMultipleMore
    <3> QED
      BY <2>4, <3>1
  <2>8. Combined(base, u[c], top, n, L) \in SumsOn(L)
    BY <2>6, CombinedIsSum
  <2>9. a \in Nat /\ top[i] \in SumsOn(L) /\ after[c] \in SumsOn(L)
    BY <2>1, ScalarsAreNumbers DEF Summands, Eliminating
  <2>10. top[i][c] = 1 /\ \A b \in L : b < c => top[i][b] = 0
    BY <2>2 DEF LeadsIn
  <2>11. \A b \in L : Combined(base, u[c], top, n, L)[b] % Modulus =
                        IF b < c THEN 0 ELSE after[c][b] % Modulus
    BY <1>3, <2>1 DEF T
  <2>12. Plus(after[c][c], a, 1) = 0 /\ \A b \in L : b # c => after[j][b] = after[c][b] + a * top[i][b]
    BY <2>1, <2>2, <2>3 DEF Eliminating
  <2>13. ASSUME NEW b \in L
         PROVE  Combined(base, u[j], top, n, L)[b] % Modulus =
                  IF b < j THEN 0 ELSE after[j][b] % Modulus
    <3>1. PICK x \in Nat, y \in Nat, z \in Nat :
            x = Combined(base, u[c], top, n, L)[b] /\ y = top[i][b] /\ z = after[c][b]
      BY <2>8, <2>9, Entries
    <3>2. Combined(base, u[j], top, n, L)[b] % Modulus = Plus(x, a, y)
      BY <2>7, <3>1 DEF Plus
    <3>3. b \in Nat /\ c \in Nat /\ j = c + 1
      BY <1>1, <2>1
    <3>4. CASE b < c
      <4>1. x % Modulus = 0 /\ y = 0
        BY <2>10, <2>11, <3>1, <3>4
      <4>2. x + a * y = x
        BY <2>9, <4>1
      <4> QED
        BY <3>2, <3>3, <3>4, <4>1, <4>2 DEF Plus
    <3>5. CASE b = c
      <4>1. x % Modulus = z % Modulus /\ y = 1
        BY <2>10, <2>11, <3>1, <3>3, <3>5
      <4>2. Plus(x, a, 1) = Plus(x % Modulus, a, 1) /\ Plus(z, a, 1) = Plus(z % Modulus, a, 1)
        BY <2>9, PlusModulo
      <4>3. Plus(z, a, 1) = 0
        BY <2>12, <3>1, <3>5
      <4>4. Plus(x, a, y) = 0
        BY <4>1, <4>2, <4>3
      <4> QED
        BY <3>2, <3>3, <3>5, <4>4
    <3>6. CASE b > c
      <4>1. x % Modulus = z % Modulus
        BY <2>11, <3>1, <3>3, <3>6
      <4>2. Plus(x, a, y) = Plus(x % Modulus, a, y) /\ Plus(z, a, y) = Plus(z % Modulus, a, y)
        BY <2>9, PlusModulo
      <4>3. after[j][b] % Modulus = Plus(z, a, y)
        BY <2>12, <3>1, <3>3, <3>6 DEF Plus
      <4> QED
        BY <3>2, <3>3, <3>6, <4>1, <4>2, <4>3
    <3> QED
      BY <3>3, <3>4, <3>5, <3>6
  <2> QED
    BY <2>1, <2>13 DEF T
<1> HIDE DEF T
<1>4. n \in T
  <2>1. 0..n \subseteq T
    BY <1>2, <1>3, EachTurn
  <2> QED
    BY <2>1
<1> QED
  BY <1>1, <1>4 DEF T

(* With these multiples the top rows make the left part zero. *)
LEMMA MultiplesCancel ==
  ASSUME NEW m \in QuadMatrices, NEW row \in DOMAIN m.bottomLeft,
         NEW t \in [1..Len(m.topLeft) -> Scalar],
         \A k \in 1..Len(m.topLeft) : t[k] = LeftMultiples(m, row)[LeadCol(m.topLeft[k])]
  PROVE  \A c \in LeftCols(m) :
           Combined(m.bottomLeft[row], t, m.topLeft, Len(m.topLeft), LeftCols(m))[c] % Modulus = 0
<1> DEFINE n == Len(m.topLeft)
           L == LeftCols(m)
           top == m.topLeft
           R(c) == RowThatReducesCol(m, c)
<1>1. /\ n \in Nat /\ DOMAIN top = 1..n /\ L = 0..n - 1 /\ L \subseteq Nat
      /\ Summands(top, n, L)
  BY TopsBegin
<1>2. \A k \in 1..n : LeadCol(top[k]) \in L /\ k = R(LeadCol(top[k]))
  BY TopsBegin
<1>3. \A c \in L : /\ R(c) \in 1..n /\ LeadCol(top[R(c)]) = c
                   /\ top[R(c)][c] = 1 /\ \A b \in L : b < c => top[R(c)][b] = 0
  <2>1. ASSUME NEW c \in L
        PROVE  /\ R(c) \in 1..n /\ LeadCol(top[R(c)]) = c
               /\ top[R(c)][c] = 1 /\ \A b \in L : b < c => top[R(c)][b] = 0
    <3>1. PICK i \in 1..n : i = R(c) /\ LeadCol(top[i]) = c
      BY TopsBegin
    <3>2. BeginsIn(top[i], c) /\ DOMAIN top[i] = L
      BY <3>1, TopsBegin DEF RowsOn
    <3> QED
      BY <3>1, <3>2 DEF BeginsIn
  <2> QED
    BY <2>1
<1>4. PICK after :
        /\ after[0] = m.bottomLeft[row]
        /\ after[n] = LeftMultiples(m, row)
        /\ \A k \in 0..n : after[k] \in SumsOn(L)
        /\ \A k \in 1..n : /\ after[k][k - 1] \in Scalar
                           /\ Plus(after[k - 1][k - 1], after[k][k - 1], 1) = 0
                           /\ \A b \in L : b # k - 1 =>
                                after[k][b] = after[k - 1][b] + after[k][k - 1] * top[R(k - 1)][b]
  BY MultiplesTurns
<1> HIDE DEF R
<1>5. \A c \in L : after[n][c] = after[c + 1][c] /\ after[n][c] \in Scalar
  <2>1. \A c \in L : after[n][c] = after[c + 1][c]
    BY <1>4, MultiplesStay DEF R
  <2>2. \A c \in L : c + 1 \in 1..n /\ (c + 1) - 1 = c
    BY <1>1
  <2> QED
    BY <1>4, <2>1, <2>2
<1> DEFINE F == after[n]
           lead == [k \in 1..n |-> LeadCol(top[k])]
           place == [c \in L |-> R(c)]
           u == [j \in 0..n |-> [k \in 1..n |-> IF lead[k] < j THEN F[lead[k]] ELSE 0]]
           base == m.bottomLeft[row]
<1>6. base \in SumsOn(L)
  BY <1>1, <1>4
<1>7. \A j \in 0..n : \A k \in 1..n : u[j][k] = IF lead[k] < j THEN F[lead[k]] ELSE 0
  OBVIOUS
<1>8. \A j \in 0..n : Multiples(u[j], n)
  <2>1. \A k \in 1..n : F[lead[k]] \in Nat
    BY <1>2, <1>5, ScalarsAreNumbers
  <2> HIDE DEF u, F, lead
  <2> QED
    BY <1>7, <2>1 DEF Multiples
<1>9. \A k \in 1..n : lead[k] \in L /\ k = place[lead[k]]
  BY <1>2
<1>10. \A c \in L : /\ place[c] \in 1..n /\ lead[place[c]] = c
                     /\ top[place[c]][c] = 1 /\ \A b \in L : b < c => top[place[c]][b] = 0
  BY <1>3
<1>11. \A k \in 1..n : /\ after[k][k - 1] \in Scalar
                       /\ Plus(after[k - 1][k - 1], after[k][k - 1], 1) = 0
                       /\ \A b \in L : b # k - 1 =>
                            after[k][b] = after[k - 1][b] + after[k][k - 1] * top[place[k - 1]][b]
  <2>1. \A k \in 1..n : place[k - 1] = R(k - 1)
    BY <1>1
  <2> HIDE DEF place
  <2> QED
    BY <1>4, <2>1
<1>12. t = u[n]
  <2>1. \A k \in 1..n : u[n][k] = F[lead[k]]
    <3>1. n \in 0..n
      BY <1>1
    <3>2. \A k \in 1..n : lead[k] < n
      <4>1. \A c \in L : c < n
        BY <1>1
      <4> HIDE DEF lead, L, n
      <4> QED
        BY <1>9, <4>1
    <3> HIDE DEF u, n, F
    <3> QED
      BY <1>7, <3>1, <3>2
  <2>2. \A k \in 1..n : t[k] = F[lead[k]]
    BY <1>4
  <2>3. n \in 0..n
    BY <1>1
  <2>4. u[n] = [k \in 1..n |-> u[n][k]]
    BY <2>3
  <2>5. t = [k \in 1..n |-> t[k]]
    OBVIOUS
  <2> DEFINE v == u[n]
  <2>6. \A k \in 1..n : v[k] = t[k]
    BY <2>1, <2>2
  <2>7. v = [k \in 1..n |-> v[k]]
    BY <2>4
  <2> HIDE DEF v
  <2>8. v = t
    BY <2>5, <2>6, <2>7
  <2> QED
    BY <2>8 DEF v
<1>13. LeadsIn(lead, place, top, n, L)
  <2>1. L \subseteq Nat /\ (\A c \in L : c < n) /\ \A k \in 1..n : k - 1 \in L
    BY <1>1
  <2> HIDE DEF lead, place, top, L, n
  <2> QED
    BY <1>9, <1>10, <2>1 DEF LeadsIn
<1>14. Eliminating(after, base, place, top, n, L)
  <2>1. /\ \A b \in L : after[0][b] = base[b]
        /\ \A k \in 0..n : after[k] \in SumsOn(L)
    BY <1>4
  <2>2. \A c \in L : after[n][c] = after[c + 1][c]
    BY <1>5
  <2> HIDE DEF place, base, top, L, n
  <2> QED
    BY <1>11, <2>1, <2>2 DEF Eliminating
<1>15. UpToColumns(u, after, lead, n)
  <2> HIDE DEF u, lead, n
  <2> QED
    BY <1>7, <1>8 DEF UpToColumns
<1>16. \A b \in L : Combined(base, u[n], top, n, L)[b] % Modulus = 0
  <2>1. n \in Nat /\ Summands(top, n, L)
    BY <1>1
  <2> HIDE DEF u, F, lead, place, base, top, L, n
  <2> QED
    BY <1>6, <1>13, <1>14, <1>15, <2>1, ColumnsCancel
<1>17. u[n] = t
  BY <1>12
<1> HIDE DEF u
<1> QED
  BY <1>16, <1>17

-----------------------------------------------------------------------------
(* The rows that reduce makes, while it makes them *)

(* What a row of tmp holds: the multiples that LeftMultiples finds for the
   bottom row it comes from *)
MultiplesInTmp ==
  \A i \in DOMAIN rowOrder : \A k \in DOMAIN qm.topLeft :
    tmp[i][k] = LeftMultiples(qm, rowOrder[i])[LeadCol(qm.topLeft[k])]

TakenOnce ==
  /\ \A i, j \in DOMAIN rowOrder : rowOrder[i] = rowOrder[j] => i = j
  /\ \A row \in DOMAIN qm.bottomLeft :
       (\E i \in DOMAIN rowOrder : rowOrder[i] = row) <=> phase = "right" \/ row \notin todo

LowerIsRight ==
  /\ phase = "left" => lower = <<>>
  /\ phase = "right" =>
       /\ \A r \in DOMAIN lower : \E i \in DOMAIN tmp : lower[r] = TakeModulus(RightSums(i))
       /\ \A i \in DOMAIN tmp \ todo :
            Zero(TakeModulus(RightSums(i))) \/ \E r \in DOMAIN lower : lower[r] = TakeModulus(RightSums(i))

ReduceInv ==
  phase \in {"left", "right"} => MultiplesInTmp /\ TakenOnce /\ LowerIsRight

LEMMA InitReduces == Init => ReduceInv /\ EchelonInv
<1> SUFFICES ASSUME Init
             PROVE  ReduceInv /\ EchelonInv
  OBVIOUS
<1>1. phase = "left" /\ rowOrder = <<>> /\ tmp = <<>> /\ lower = <<>> /\ todo = DOMAIN qm.bottomLeft
  BY DEF Init
<1>2. DOMAIN rowOrder = {}
  BY <1>1
<1>3. MultiplesInTmp /\ TakenOnce /\ LowerIsRight
  BY <1>1, <1>2 DEF MultiplesInTmp, TakenOnce, LowerIsRight
<1>4. EchelonInv
  BY <1>1 DEF EchelonInv, LowerInPlay, CopiesInStep, AllBackReduced
<1> QED
  BY <1>3, <1>4 DEF ReduceInv

LEMMA ReduceLeftReduces ==
  ASSUME Inv, ReduceInv, NEW row \in todo, ReduceLeft(row)
  PROVE  ReduceInv'
<1> DEFINE multiples == LeftMultiples(qm, row)
           new == [k \in DOMAIN qm.topLeft |-> multiples[LeadCol(qm.topLeft[k])]]
<1>1. /\ phase = "left" /\ phase' = phase /\ qm' = qm /\ todo' = todo \ {row}
      /\ tmp' = Append(tmp, new) /\ rowOrder' = Append(rowOrder, row) /\ lower' = lower
  BY DEF ReduceLeft
<1>2. MultiplesInTmp /\ TakenOnce /\ lower = <<>>
  BY <1>1 DEF ReduceInv, LowerIsRight
<1>3. /\ todo \subseteq DOMAIN qm.bottomLeft /\ rowOrder \in Seq(DOMAIN qm.bottomLeft)
      /\ tmp \in Seq([DOMAIN qm.topLeft -> Scalar]) /\ Len(tmp) = Len(rowOrder)
  BY <1>1 DEF Inv, InReduce, TypeOK
<1> DEFINE n == Len(rowOrder)
<1>4. \A k \in DOMAIN qm.topLeft : new[k] = LeftMultiples(qm, row)[LeadCol(qm.topLeft[k])]
  OBVIOUS
<1> HIDE DEF new
<1>5. /\ n \in Nat /\ DOMAIN rowOrder = 1..n /\ DOMAIN rowOrder' = 1..n + 1
      /\ rowOrder'[n + 1] = row /\ \A i \in 1..n : rowOrder'[i] = rowOrder[i]
      /\ tmp'[n + 1] = new /\ \A i \in 1..n : tmp'[i] = tmp[i]
  BY <1>1, <1>3
<1> HIDE DEF n
<1>6. MultiplesInTmp'
  <2>1. ASSUME NEW i \in 1..n + 1, NEW k \in DOMAIN qm.topLeft
        PROVE  tmp'[i][k] = LeftMultiples(qm, rowOrder'[i])[LeadCol(qm.topLeft[k])]
    <3>1. CASE i = n + 1
      BY <1>4, <1>5, <3>1
    <3>2. CASE i \in 1..n
      BY <1>2, <1>5, <3>2 DEF MultiplesInTmp
    <3> QED
      BY <1>5, <3>1, <3>2
  <2> QED
    BY <1>1, <1>5, <2>1 DEF MultiplesInTmp
<1>7. TakenOnce'
  <2>1. \A i \in 1..n : rowOrder[i] # row
    BY <1>1, <1>2, <1>3, <1>5 DEF TakenOnce
  <2>2. \A i, j \in 1..n + 1 : rowOrder'[i] = rowOrder'[j] => i = j
    <3>1. \A i \in 1..n + 1 : i = n + 1 \/ i \in 1..n
      BY <1>5
    <3> QED
      BY <1>2, <1>5, <2>1, <3>1 DEF TakenOnce
  <2>3. ASSUME NEW other \in DOMAIN qm.bottomLeft
        PROVE  (\E i \in 1..n + 1 : rowOrder'[i] = other) <=> other \notin todo \ {row}
    <3>1. (\E i \in 1..n : rowOrder[i] = other) <=> other \notin todo
      BY <1>1, <1>2, <1>5 DEF TakenOnce
    <3>2. (\E i \in 1..n + 1 : rowOrder'[i] = other)
            <=> other = row \/ \E i \in 1..n : rowOrder[i] = other
      <4>1. \A i \in 1..n + 1 : i = n + 1 \/ i \in 1..n
        BY <1>5
      <4>2. n + 1 \in 1..n + 1 /\ \A i \in 1..n : i \in 1..n + 1
        BY <1>5
      <4> QED
        BY <1>5, <4>1, <4>2
    <3> QED
      BY <3>1, <3>2
  <2> QED
    BY <1>1, <1>5, <2>2, <2>3 DEF TakenOnce
<1>8. LowerIsRight'
  BY <1>1, <1>2 DEF LowerIsRight
<1> QED
  BY <1>6, <1>7, <1>8 DEF ReduceInv

LEMMA EndLeftReduces ==
  ASSUME Inv, ReduceInv, EndLeft
  PROVE  ReduceInv'
<1>1. /\ phase = "left" /\ phase' = "right" /\ qm' = qm /\ todo = {} /\ todo' = DOMAIN tmp
      /\ tmp' = tmp /\ rowOrder' = rowOrder /\ lower' = lower
  BY DEF EndLeft, reduceVars
<1>2. MultiplesInTmp /\ TakenOnce /\ lower = <<>>
  BY <1>1 DEF ReduceInv, LowerIsRight
<1>3. MultiplesInTmp'
  BY <1>1, <1>2 DEF MultiplesInTmp
<1>4. TakenOnce'
  BY <1>1, <1>2 DEF TakenOnce
<1>5. LowerIsRight'
  <2>1. DOMAIN lower = {}
    BY <1>2
  <2> QED
    BY <1>1, <2>1 DEF LowerIsRight
<1> QED
  BY <1>3, <1>4, <1>5 DEF ReduceInv

LEMMA ReduceRightReduces ==
  ASSUME Inv, ReduceInv, NEW i \in todo, ReduceRight(i)
  PROVE  ReduceInv'
<1> DEFINE d == TakeModulus(RightSums(i))
<1>1. /\ phase = "right" /\ phase' = phase /\ qm' = qm /\ todo' = todo \ {i}
      /\ tmp' = tmp /\ rowOrder' = rowOrder
      /\ lower' = IF Zero(d) THEN lower ELSE Append(lower, d)
  BY DEF ReduceRight, reduceVars
<1>2. MultiplesInTmp /\ TakenOnce /\ LowerIsRight
  BY <1>1 DEF ReduceInv
<1>3. todo \subseteq DOMAIN tmp /\ lower \in Seq([RightCols -> Scalar])
  BY <1>1 DEF Inv, InReduce, TypeOK
<1>4. \A j \in DOMAIN tmp : RightSums(j)' = RightSums(j)
  BY <1>1 DEF RightSums
<1>5. MultiplesInTmp'
  BY <1>1, <1>2 DEF MultiplesInTmp
<1>6. TakenOnce'
  BY <1>1, <1>2 DEF TakenOnce
<1>7. /\ \A r \in DOMAIN lower : r \in DOMAIN lower' /\ lower'[r] = lower[r]
      /\ \A r \in DOMAIN lower' : r \in DOMAIN lower \/ lower'[r] = d
      /\ Zero(d) \/ \E r \in DOMAIN lower' : lower'[r] = d
  <2> HIDE DEF d
  <2>1. CASE Zero(d)
    BY <1>1, <2>1
  <2>2. CASE ~Zero(d)
    <3>1. lower' = Append(lower, d)
      BY <1>1, <2>2
    <3>2. Len(lower) \in Nat /\ DOMAIN lower = 1..Len(lower)
      BY <1>3
    <3>3. /\ DOMAIN lower' = 1..Len(lower) + 1 /\ lower'[Len(lower) + 1] = d
          /\ \A r \in 1..Len(lower) : lower'[r] = lower[r]
      BY <1>3, <3>1
    <3>4. Len(lower) + 1 \in 1..Len(lower) + 1 /\ \A r \in 1..Len(lower) + 1 :
            r \in 1..Len(lower) \/ r = Len(lower) + 1
      BY <3>2
    <3>5. \A r \in 1..Len(lower) : r \in 1..Len(lower) + 1
      BY <3>2
    <3> QED
      BY <3>2, <3>3, <3>4, <3>5
  <2> QED
    BY <2>1, <2>2
<1>8. LowerIsRight'
  <2>1. /\ \A r \in DOMAIN lower : \E j \in DOMAIN tmp : lower[r] = TakeModulus(RightSums(j))
        /\ \A j \in DOMAIN tmp \ todo : Zero(TakeModulus(RightSums(j)))
                                      \/ \E r \in DOMAIN lower : lower[r] = TakeModulus(RightSums(j))
    BY <1>1, <1>2 DEF LowerIsRight
  <2>2. \A r \in DOMAIN lower' : \E j \in DOMAIN tmp : lower'[r] = TakeModulus(RightSums(j))
    BY <1>3, <1>7, <2>1
  <2>3. \A j \in DOMAIN tmp \ (todo \ {i}) : Zero(TakeModulus(RightSums(j)))
          \/ \E r \in DOMAIN lower' : lower'[r] = TakeModulus(RightSums(j))
    BY <1>3, <1>7, <2>1
  <2>4. /\ \A r \in DOMAIN lower' : \E j \in DOMAIN tmp' : lower'[r] = TakeModulus(RightSums(j)')
        /\ \A j \in DOMAIN tmp' \ todo' : Zero(TakeModulus(RightSums(j)'))
             \/ \E r \in DOMAIN lower' : lower'[r] = TakeModulus(RightSums(j)')
    BY <1>1, <1>4, <2>2, <2>3
  <2> QED
    BY <1>1, <2>4 DEF LowerIsRight
<1> QED
  BY <1>5, <1>6, <1>8 DEF ReduceInv

LEMMA ReduceInvKept == Inv /\ ReduceInv /\ [Next]_vars => ReduceInv'
<1> SUFFICES ASSUME Inv, ReduceInv, [Next]_vars
             PROVE  ReduceInv'
  OBVIOUS
<1>1. ASSUME phase' \notin {"left", "right"}
      PROVE  ReduceInv'
  BY <1>1 DEF ReduceInv
<1>2. CASE RowStep
  BY <1>1, <1>2, ReduceLeftReduces, ReduceRightReduces
  DEF RowStep, PivotRow, BackReduce, ReduceRow
<1>3. CASE CallerStep
  BY <1>1, <1>3, EndLeftReduces
  DEF CallerStep, EndRight, EndPivots, EndSparse, NextIteration, EndDense
<1>4. CASE UNCHANGED vars
  <2>1. /\ phase' = phase /\ qm' = qm /\ todo' = todo /\ tmp' = tmp /\ rowOrder' = rowOrder
        /\ lower' = lower
    BY <1>4 DEF vars, reduceVars
  <2>2. \A j : RightSums(j)' = RightSums(j)
    BY <2>1 DEF RightSums
  <2>3. MultiplesInTmp => MultiplesInTmp'
    BY <2>1 DEF MultiplesInTmp
  <2>4. TakenOnce => TakenOnce'
    BY <2>1 DEF TakenOnce
  <2>5. LowerIsRight => LowerIsRight'
    BY <2>1, <2>2 DEF LowerIsRight
  <2> QED
    BY <2>1, <2>3, <2>4, <2>5 DEF ReduceInv
<1> QED
  BY <1>2, <1>3, <1>4 DEF Next

(* LeftSums and RightSums are combinations of the top rows. *)
LEMMA SumsAreCombined ==
  ASSUME Inv, phase \in {"left", "right"}, NEW i \in DOMAIN rowOrder
  PROVE  /\ Len(qm.topLeft) \in Nat /\ Len(qm.topRight) = Len(qm.topLeft)
         /\ qm \in QuadMatrices /\ rowOrder[i] \in DOMAIN qm.bottomLeft
         /\ DOMAIN qm.bottomRight = DOMAIN qm.bottomLeft
         /\ tmp[i] \in [1..Len(qm.topLeft) -> Scalar]
         /\ \A k \in 1..Len(qm.topLeft) : qm.topRight[k] \in RowsOn(RightCols)
         /\ \A j \in DOMAIN qm.bottomLeft : /\ qm.bottomLeft[j] \in RowsOn(LeftCols(qm))
                                            /\ qm.bottomRight[j] \in RowsOn(RightCols)
         /\ LeftSums(i) = Combined(qm.bottomLeft[rowOrder[i]], tmp[i], qm.topLeft,
                                   Len(qm.topLeft), LeftCols(qm))
         /\ RightSums(i) = Combined(qm.bottomRight[rowOrder[i]], tmp[i], qm.topRight,
                                    Len(qm.topLeft), RightCols)
<1> DEFINE n == Len(qm.topLeft)
<1>1. /\ qm \in QuadMatrices /\ rowOrder \in Seq(DOMAIN qm.bottomLeft)
      /\ tmp \in Seq([DOMAIN qm.topLeft -> Scalar]) /\ Len(tmp) = Len(rowOrder)
  BY DEF Inv, InReduce, TypeOK
<1>2. /\ qm.topLeft \in Seq(RowsOn(LeftCols(qm))) /\ qm.topRight \in Seq(RowsOn(RightCols))
      /\ qm.bottomLeft \in Seq(RowsOn(LeftCols(qm))) /\ qm.bottomRight \in Seq(RowsOn(RightCols))
      /\ Len(qm.topLeft) = Len(qm.topRight) /\ Len(qm.bottomLeft) = Len(qm.bottomRight)
  BY <1>1, QuadMatricesAssumption DEF RowsOn
<1>3. n \in Nat /\ DOMAIN qm.topLeft = 1..n /\ DOMAIN qm.topRight = 1..n /\ Len(qm.topRight) = n
  BY <1>2
<1>4. DOMAIN qm.bottomLeft = DOMAIN qm.bottomRight
  BY <1>2
<1>5. tmp[i] \in [1..n -> Scalar] /\ rowOrder[i] \in DOMAIN qm.bottomLeft
  BY <1>1, <1>3
<1>6. \A k \in 1..n : qm.topRight[k] \in RowsOn(RightCols)
  BY <1>2, <1>3
<1>7. \A j \in DOMAIN qm.bottomLeft : /\ qm.bottomLeft[j] \in RowsOn(LeftCols(qm))
                                      /\ qm.bottomRight[j] \in RowsOn(RightCols)
  BY <1>2, <1>4
<1>8. LeftSums(i) = Combined(qm.bottomLeft[rowOrder[i]], tmp[i], qm.topLeft, n, LeftCols(qm))
  BY <1>3 DEF LeftSums, Combined, SumsOn
<1>9. RightSums(i) = Combined(qm.bottomRight[rowOrder[i]], tmp[i], qm.topRight, n, RightCols)
  BY <1>3 DEF RightSums, Combined, SumsOn, DenseRow
<1> QED
  BY <1>1, <1>3, <1>4, <1>5, <1>6, <1>7, <1>8, <1>9

LEMMA LeftSumsCancel ==
  ASSUME Inv, MultiplesInTmp, phase \in {"left", "right"}, NEW i \in DOMAIN rowOrder
  PROVE  /\ LeftSums(i) \in SumsOn(LeftCols(qm))
         /\ \A c \in LeftCols(qm) : LeftSums(i)[c] % Modulus = 0
<1> DEFINE n == Len(qm.topLeft)
<1>1. PICK m \in QuadMatrices : m = qm
  BY SumsAreCombined
<1>2. PICK row \in DOMAIN m.bottomLeft : row = rowOrder[i]
  BY <1>1, SumsAreCombined
<1>3. PICK t \in [1..n -> Scalar] : t = tmp[i]
  BY SumsAreCombined
<1>4. n \in Nat /\ DOMAIN m.topLeft = 1..n /\ Summands(m.topLeft, n, LeftCols(m))
  BY <1>1, TopsBegin
<1>5. \A k \in 1..n : t[k] = LeftMultiples(m, row)[LeadCol(m.topLeft[k])]
  BY <1>1, <1>2, <1>3, <1>4 DEF MultiplesInTmp
<1>6. LeftSums(i) = Combined(m.bottomLeft[row], t, m.topLeft, n, LeftCols(m))
  BY <1>1, <1>2, <1>3, SumsAreCombined
<1>7. m.bottomLeft[row] \in SumsOn(LeftCols(m))
  BY <1>1, <1>2, SumsAreCombined, ScalarsAreNumbers
<1>8. Multiples(t, n)
  BY ScalarsAreNumbers DEF Multiples
<1>9. Combined(m.bottomLeft[row], t, m.topLeft, n, LeftCols(m)) \in SumsOn(LeftCols(m))
  <2> HIDE DEF n
  <2> QED
    BY <1>4, <1>7, <1>8, CombinedIsSum
<1>10. \A c \in LeftCols(m) :
         Combined(m.bottomLeft[row], t, m.topLeft, n, LeftCols(m))[c] % Modulus = 0
  BY <1>1, <1>5, MultiplesCancel
<1> QED
  BY <1>1, <1>6, <1>9, <1>10

LEMMA InvCancels ==
  ASSUME Inv, ReduceInv
  PROVE  MultipliersCancelLeft
<1> SUFFICES ASSUME phase \in {"left", "right"}
             PROVE  /\ Len(tmp) = Len(rowOrder)
                    /\ \A i, j \in DOMAIN rowOrder : rowOrder[i] = rowOrder[j] => i = j
                    /\ \A i \in DOMAIN rowOrder : Zero(TakeModulus(LeftSums(i)))
  BY DEF MultipliersCancelLeft
<1>1. MultiplesInTmp /\ TakenOnce /\ Len(tmp) = Len(rowOrder)
  BY DEF ReduceInv, Inv, InReduce
<1>2. ASSUME NEW i \in DOMAIN rowOrder
      PROVE  Zero(TakeModulus(LeftSums(i)))
  <2>1. PICK d \in SumsOn(LeftCols(qm)) : d = LeftSums(i) /\ \A c \in LeftCols(qm) : d[c] % Modulus = 0
    BY <1>1, LeftSumsCancel
  <2>2. Zero(TakeModulus(d))
    BY <2>1 DEF Zero, TakeModulus, SumsOn
  <2> QED
    BY <2>1, <2>2
<1> QED
  BY <1>1, <1>2 DEF TakenOnce

(* A column of a combination is that of any other with the same entries. *)
LEMMA SameColumn ==
  ASSUME NEW n \in Nat, NEW t, Multiples(t, n),
         NEW A, NEW base \in SumsOn(A), NEW rows, Summands(rows, n, A), NEW a \in A,
         NEW B, NEW start \in SumsOn(B), NEW others, Summands(others, n, B), NEW b \in B
  PROVE  base[a] = start[b] /\ (\A k \in 1..n : rows[k][a] = others[k][b])
           => Combined(base, t, rows, n, A)[a] = Combined(start, t, others, n, B)[b]
<1>1. PICK r, p : /\ ColumnSums(r, base[a], p, n)
                  /\ \A k \in 1..n : p[k] = t[k] * rows[k][a]
                  /\ Combined(base, t, rows, n, A)[a] = r[n]
  BY ColumnOf
<1>2. PICK s, q : /\ ColumnSums(s, start[b], q, n)
                  /\ \A k \in 1..n : q[k] = t[k] * others[k][b]
                  /\ Combined(start, t, others, n, B)[b] = s[n]
  BY ColumnOf
<1> SUFFICES ASSUME base[a] = start[b], \A k \in 1..n : rows[k][a] = others[k][b]
             PROVE  r[n] = s[n]
  BY <1>1, <1>2
<1>3. \A k \in 1..n : p[k] = q[k]
  BY <1>1, <1>2
<1> DEFINE T == {k \in 0..n : r[k] = s[k]}
<1>4. 0 \in T
  BY <1>1, <1>2 DEF ColumnSums
<1>5. ASSUME NEW k \in 1..n, k - 1 \in T
      PROVE  k \in T
  BY <1>1, <1>2, <1>3, <1>5 DEF ColumnSums
<1> HIDE DEF T
<1>6. 0..n \subseteq T
  BY <1>4, <1>5, EachTurn
<1> QED
  BY <1>6 DEF T

-----------------------------------------------------------------------------
(* The whole matrix: rows with a left and a right part *)

Columns(n) == 0..n + Right - 1
RightPart(v, n) == [c \in RightCols |-> v[n + c]]
LeftZero(v, n) == \A c \in 0..n - 1 : v[c] = 0

LEMMA ColumnsAre ==
  ASSUME NEW n \in Nat
  PROVE  /\ 0..n - 1 \subseteq Columns(n) /\ \A c \in RightCols : n + c \in Columns(n)
         /\ \A c \in Columns(n) : c \in 0..n - 1 \/ \E b \in RightCols : c = n + b
         /\ \A b \in RightCols : n + b \notin 0..n - 1
         /\ n = 0 => Columns(n) = RightCols
         /\ Columns(n) \subseteq Nat
<1>1. Right \in Nat
  BY QuadMatricesAssumption
<1>2. \A c \in Columns(n) : c \in 0..n - 1 \/ \E b \in RightCols : c = n + b
  <2>1. ASSUME NEW c \in Columns(n), c \notin 0..n - 1
        PROVE  \E b \in RightCols : c = n + b
    <3>1. c - n \in RightCols /\ c = n + (c - n)
      BY <1>1, <2>1 DEF Columns, RightCols
    <3> QED
      BY <3>1
  <2> QED
    BY <2>1
<1> QED
  BY <1>1, <1>2 DEF Columns, RightCols

LEMMA RightPartIs ==
  ASSUME NEW n \in Nat, NEW v \in RowsOn(Columns(n))
  PROVE  /\ RightPart(v, n) \in RowsOn(RightCols)
         /\ \A c \in RightCols : RightPart(v, n)[c] = v[n + c]
<1>1. \A c \in RightCols : v[n + c] \in Scalar
  BY ColumnsAre, Entries
<1> QED
  BY <1>1 DEF RightPart, RowsOn

LEMMA RightPartOfSum ==
  ASSUME NEW n \in Nat, NEW v \in RowsOn(Columns(n)), NEW w \in RowsOn(Columns(n)), NEW a \in Scalar
  PROVE  /\ RightPart(ReducedBy(v, a, w), n) = ReducedBy(RightPart(v, n), a, RightPart(w, n))
         /\ LeftZero(v, n) /\ LeftZero(w, n) => LeftZero(ReducedBy(v, a, w), n)
<1>1. a \in Nat /\ v \in SumsOn(Columns(n)) /\ w \in SumsOn(Columns(n))
  BY ScalarsAreNumbers
<1>2. /\ ReducedBy(v, a, w) \in RowsOn(Columns(n))
      /\ \A c \in Columns(n) : ReducedBy(v, a, w)[c] = Plus(v[c], a, w[c])
  BY <1>1, ReducedByIs
<1>3. PICK x \in RowsOn(Columns(n)) : x = ReducedBy(v, a, w) /\ \A c \in Columns(n) : x[c] = Plus(v[c], a, w[c])
  BY <1>2
<1>4. PICK r \in RowsOn(RightCols) : r = RightPart(v, n) /\ \A c \in RightCols : r[c] = v[n + c]
  BY RightPartIs
<1>5. PICK s \in RowsOn(RightCols) : s = RightPart(w, n) /\ \A c \in RightCols : s[c] = w[n + c]
  BY RightPartIs
<1>6. PICK y \in RowsOn(RightCols) : y = RightPart(x, n) /\ \A c \in RightCols : y[c] = x[n + c]
  BY RightPartIs
<1>7. /\ ReducedBy(r, a, s) \in RowsOn(RightCols)
      /\ \A c \in RightCols : ReducedBy(r, a, s)[c] = Plus(r[c], a, s[c])
  <2>1. r \in SumsOn(RightCols) /\ s \in SumsOn(RightCols)
    BY ScalarsAreNumbers
  <2> QED
    BY <1>1, <2>1, ReducedByIs
<1>8. \A c \in RightCols : n + c \in Columns(n)
  BY ColumnsAre
<1>9. y = ReducedBy(r, a, s)
  <2>1. \A c \in RightCols : y[c] = ReducedBy(r, a, s)[c]
    BY <1>3, <1>4, <1>5, <1>6, <1>7, <1>8
  <2> QED
    BY <1>7, <2>1, RowsEqual
<1>10. LeftZero(v, n) /\ LeftZero(w, n) => LeftZero(x, n)
  <2>1. Plus(0, a, 0) = 0
    <3>1. 0 + a * 0 = 0 /\ 0 % Modulus = 0
      BY <1>1, Remainders
    <3> QED
      BY <3>1 DEF Plus
  <2>2. 0..n - 1 \subseteq Columns(n)
    BY ColumnsAre
  <2> QED
    BY <1>3, <2>1, <2>2 DEF LeftZero
<1> QED
  BY <1>3, <1>4, <1>5, <1>6, <1>9, <1>10

LEMMA ZeroRowParts ==
  ASSUME NEW n \in Nat
  PROVE  /\ RightPart(ZeroRow(Columns(n)), n) = ZeroRow(RightCols) /\ LeftZero(ZeroRow(Columns(n)), n)
<1>1. PICK z \in RowsOn(Columns(n)) : z = ZeroRow(Columns(n)) /\ \A c \in Columns(n) : z[c] = 0
  BY ZeroRowIs
<1>2. PICK y \in RowsOn(RightCols) : y = ZeroRow(RightCols) /\ \A c \in RightCols : y[c] = 0
  BY ZeroRowIs
<1>3. PICK r \in RowsOn(RightCols) : r = RightPart(z, n) /\ \A c \in RightCols : r[c] = z[n + c]
  BY RightPartIs
<1>4. \A c \in RightCols : r[c] = y[c]
  BY <1>1, <1>2, <1>3, ColumnsAre
<1>5. r = y
  BY <1>4, RowsEqual
<1>6. LeftZero(z, n)
  BY <1>1, ColumnsAre DEF LeftZero
<1> QED
  BY <1>1, <1>2, <1>3, <1>5, <1>6

(* What rows of a space with nothing on the left have on the right *)
Cleared(W, n) == {RightPart(v, n) : v \in {w \in W : LeftZero(w, n)}}

LEMMA ClearedIsSpace ==
  ASSUME NEW n \in Nat, NEW W, Subspace(W, Columns(n))
  PROVE  Subspace(Cleared(W, n), RightCols)
<1>1. /\ W \subseteq RowsOn(Columns(n)) /\ ZeroRow(Columns(n)) \in W
      /\ \A v, w \in W : \A a \in Scalar : ReducedBy(v, a, w) \in W
  BY DEF Subspace
<1>2. Cleared(W, n) \subseteq RowsOn(RightCols)
  BY <1>1, RightPartIs DEF Cleared
<1>3. ZeroRow(RightCols) \in Cleared(W, n)
  <2>1. /\ RightPart(ZeroRow(Columns(n)), n) = ZeroRow(RightCols)
        /\ LeftZero(ZeroRow(Columns(n)), n)
    BY ZeroRowParts
  <2> QED
    BY <1>1, <2>1 DEF Cleared
<1>4. ASSUME NEW x \in Cleared(W, n), NEW y \in Cleared(W, n), NEW a \in Scalar
      PROVE  ReducedBy(x, a, y) \in Cleared(W, n)
  <2>1. PICK v \in W : x = RightPart(v, n) /\ LeftZero(v, n)
    BY DEF Cleared
  <2>2. PICK w \in W : y = RightPart(w, n) /\ LeftZero(w, n)
    BY DEF Cleared
  <2>3. /\ RightPart(ReducedBy(v, a, w), n) = ReducedBy(RightPart(v, n), a, RightPart(w, n))
        /\ LeftZero(ReducedBy(v, a, w), n)
    BY <1>1, <2>1, <2>2, RightPartOfSum
  <2>4. ReducedBy(v, a, w) \in W
    BY <1>1
  <2> QED
    BY <2>1, <2>2, <2>3, <2>4 DEF Cleared
<1> QED
  BY <1>2, <1>3, <1>4 DEF Subspace

(* A row with nothing on the left that is left so by multiples of the top rows
   had none added. *)
LEMMA NoMultiplesLeft ==
  ASSUME NEW n \in Nat, NEW J, 0..n - 1 \subseteq J, NEW tops, Summands(tops, n, J),
         NEW lead, NEW R, LeadsIn(lead, R, tops, n, 0..n - 1),
         NEW v \in SumsOn(J), LeftZero(v, n), NEW t \in [1..n -> Scalar],
         \A c \in 0..n - 1 : Combined(v, t, tops, n, J)[c] % Modulus = 0
  PROVE  \A k \in 1..n : t[k] = 0
<1>1. \A k \in 1..n : lead[k] \in 0..n - 1 /\ k = R[lead[k]]
  BY DEF LeadsIn
<1>2. \A c \in 0..n - 1 : /\ R[c] \in 1..n /\ lead[R[c]] = c /\ tops[R[c]][c] = 1
                        /\ \A b \in 0..n - 1 : b < c => tops[R[c]][b] = 0
  BY DEF LeadsIn
<1>3. Multiples(t, n)
  BY ScalarsAreNumbers DEF Multiples
<1> DEFINE T == {j \in 0..n : \A k \in 1..n : lead[k] < j => t[k] = 0}
<1>4. 0 \in T
  BY <1>1
<1>5. ASSUME NEW j \in 1..n, j - 1 \in T
      PROVE  j \in T
  <2>1. PICK c \in 0..n - 1 : c = j - 1 /\ c + 1 = j
    OBVIOUS
  <2>2. PICK i \in 1..n : i = R[c] /\ lead[i] = c /\ tops[i][c] = 1
    BY <1>2
  <2>3. \A k \in 1..n : lead[k] < c => t[k] = 0
    BY <1>5, <2>1
  <2> DEFINE u == [t EXCEPT ![i] = 0]
  <2>4. u[i] = 0 /\ \A k \in 1..n : k # i => t[k] = u[k]
    OBVIOUS
  <2>5. Multiples(u, n)
    BY <1>3, <2>4 DEF Multiples
  <2> HIDE DEF u, T
  <2>6. \A k \in 1..n : u[k] = 0 \/ tops[k][c] = 0
    <3>1. ASSUME NEW k \in 1..n, k # i
          PROVE  u[k] = 0 \/ tops[k][c] = 0
      <4>1. lead[k] # c
        BY <1>1, <2>2, <3>1
      <4>2. CASE lead[k] < c
        BY <2>3, <2>4, <3>1, <4>2
      <4>3. CASE lead[k] > c
        <5>1. PICK b \in 0..n - 1 : b = lead[k] /\ k = R[b]
          BY <1>1
        <5> QED
          BY <1>2, <4>3, <5>1
      <4> QED
        BY <1>1, <4>1, <4>2, <4>3
    <3> QED
      BY <2>4, <3>1
  <2>7. \A k \in 1..n : u[k] * tops[k][c] = 0
    <3>1. \A k \in 1..n : u[k] \in Nat /\ tops[k][c] \in Nat
      BY <2>5, Entries DEF Multiples, Summands
    <3> QED
      BY <2>6, <3>1, SMTT(20)
  <2>8. Combined(v, u, tops, n, J)[c] = 0
    <3>1. (\A k \in 1..n : u[k] * tops[k][c] = 0) => Combined(v, u, tops, n, J)[c] = v[c]
      BY <2>5, NothingAdded
    <3> QED
      BY <2>7, <3>1 DEF LeftZero
  <2>9. Combined(v, t, tops, n, J)[c] = Combined(v, u, tops, n, J)[c] + t[i] * tops[i][c]
    BY <1>3, <2>4, <2>5, OneMultipleMore
  <2>10. t[i] = 0
    <3>1. PICK a \in Scalar : a = t[i] /\ a \in Nat /\ a % Modulus = a
      BY Remainders, ScalarsAreNumbers
    <3>2. Combined(v, t, tops, n, J)[c] = a
      BY <2>2, <2>8, <2>9, <3>1
    <3> QED
      BY <3>1, <3>2
  <2>11. \A k \in 1..n : lead[k] < j => t[k] = 0
    <3>1. \A k \in 1..n : lead[k] < j => lead[k] < c \/ lead[k] = c
      BY <1>1, <2>1
    <3>2. \A k \in 1..n : lead[k] = c => k = i
      BY <1>1, <2>2
    <3> QED
      BY <2>3, <2>10, <3>1, <3>2
  <2> QED
    BY <2>11 DEF T
<1> HIDE DEF T
<1>6. n \in T
  <2>1. 0..n \subseteq T
    BY <1>4, <1>5, EachTurn
  <2> QED
    BY <2>1
<1> QED
  BY <1>1, <1>6 DEF T

(* What is left of a row once multiples of the top rows are added *)
Remaining(w, t, tops, n) == TakeModulus(Combined(w, t, tops, n, Columns(n)))

LEMMA RemainingIs ==
  ASSUME NEW n \in Nat, NEW tops, Summands(tops, n, Columns(n)),
         NEW w \in RowsOn(Columns(n)), NEW t \in [1..n -> Scalar]
  PROVE  /\ Remaining(w, t, tops, n) \in RowsOn(Columns(n))
         /\ Multiples(t, n)
         /\ Combined(w, t, tops, n, Columns(n)) \in SumsOn(Columns(n))
         /\ \A c \in Columns(n) :
              Remaining(w, t, tops, n)[c] = Combined(w, t, tops, n, Columns(n))[c] % Modulus
         /\ (\A k \in 1..n : t[k] = 0) => Remaining(w, t, tops, n) = w
<1>1. w \in SumsOn(Columns(n)) /\ Multiples(t, n)
  BY ScalarsAreNumbers DEF Multiples
<1>2. PICK x \in SumsOn(Columns(n)) : x = Combined(w, t, tops, n, Columns(n))
  BY <1>1, CombinedIsSum
<1>3. /\ Remaining(w, t, tops, n) \in RowsOn(Columns(n))
      /\ \A c \in Columns(n) : Remaining(w, t, tops, n)[c] = x[c] % Modulus
  BY <1>2, TakeModulusIs DEF Remaining
<1>4. ASSUME \A k \in 1..n : t[k] = 0
      PROVE  Remaining(w, t, tops, n) = w
  <2>1. ASSUME NEW c \in Columns(n)
        PROVE  Remaining(w, t, tops, n)[c] = w[c]
    <3>1. \A k \in 1..n : t[k] * tops[k][c] = 0
      <4>1. \A k \in 1..n : tops[k][c] \in Nat
        BY Entries DEF Summands
      <4> QED
        BY <1>4, <4>1
    <3>2. (\A k \in 1..n : t[k] * tops[k][c] = 0) => Combined(w, t, tops, n, Columns(n))[c] = w[c]
      BY <1>1, NothingAdded
    <3>3. x[c] = w[c]
      BY <1>2, <3>1, <3>2
    <3>4. w[c] % Modulus = w[c]
      BY Entries
    <3> QED
      BY <1>3, <3>3, <3>4
  <2> QED
    BY <1>3, <2>1, RowsEqual
<1> QED
  BY <1>1, <1>2, <1>3, <1>4

(* The rows of which multiples of the top rows leave something of S *)
Reducible(tops, n, S) ==
  {w \in RowsOn(Columns(n)) :
     \E t \in [1..n -> Scalar] : /\ LeftZero(Remaining(w, t, tops, n), n)
                                 /\ RightPart(Remaining(w, t, tops, n), n) \in S}

LEMMA ReducibleIsSpace ==
  ASSUME NEW n \in Nat, NEW tops, Summands(tops, n, Columns(n)),
         NEW S, Subspace(S, RightCols)
  PROVE  Subspace(Reducible(tops, n, S), Columns(n))
<1> DEFINE J == Columns(n)
           V == Reducible(tops, n, S)
<1>1. V \subseteq RowsOn(J)
  BY DEF Reducible
<1>2. ZeroRow(J) \in V
  <2>1. PICK z \in RowsOn(J) : z = ZeroRow(J)
    BY ZeroRowIs
  <2>2. PICK t \in [1..n -> Scalar] : \A k \in 1..n : t[k] = 0
    <3>1. [k \in 1..n |-> 0] \in [1..n -> Scalar]
      BY Remainders
    <3> QED
      BY <3>1
  <2>3. Remaining(z, t, tops, n) = z
    BY <2>2, RemainingIs
  <2>4. RightPart(z, n) = ZeroRow(RightCols) /\ LeftZero(z, n)
    BY <2>1, ZeroRowParts
  <2>5. ZeroRow(RightCols) \in S
    BY DEF Subspace
  <2>6. z \in V
    BY <2>3, <2>4, <2>5 DEF Reducible
  <2> QED
    BY <2>1, <2>6
<1>3. ASSUME NEW v \in V, NEW w \in V, NEW a \in Scalar
      PROVE  ReducedBy(v, a, w) \in V
  <2>1. PICK t \in [1..n -> Scalar] : /\ LeftZero(Remaining(v, t, tops, n), n)
                                      /\ RightPart(Remaining(v, t, tops, n), n) \in S
    BY DEF Reducible
  <2>2. PICK u \in [1..n -> Scalar] : /\ LeftZero(Remaining(w, u, tops, n), n)
                                      /\ RightPart(Remaining(w, u, tops, n), n) \in S
    BY DEF Reducible
  <2>3. v \in RowsOn(J) /\ w \in RowsOn(J) /\ v \in SumsOn(J) /\ w \in SumsOn(J) /\ a \in Nat
    BY <1>1, ScalarsAreNumbers
  <2>4. PICK x \in RowsOn(J) : x = ReducedBy(v, a, w) /\ \A c \in J : x[c] = Plus(v[c], a, w[c])
    <3>1. /\ ReducedBy(v, a, w) \in RowsOn(J)
          /\ \A c \in J : ReducedBy(v, a, w)[c] = Plus(v[c], a, w[c])
      BY <2>3, ReducedByIs
    <3> QED
      BY <3>1
  <2>5. PICK z \in [1..n -> Scalar] : \A k \in 1..n : z[k] = Plus(t[k], a, u[k])
    <3>1. \A k \in 1..n : Plus(t[k], a, u[k]) \in Scalar
      BY <2>3, PlusIsScalar, ScalarsAreNumbers
    <3>2. [k \in 1..n |-> Plus(t[k], a, u[k])] \in [1..n -> Scalar]
      BY <3>1
    <3> QED
      BY <3>2
  <2>6. PICK r \in RowsOn(J) : /\ r = Remaining(v, t, tops, n)
                               /\ \A c \in J : r[c] = Combined(v, t, tops, n, J)[c] % Modulus
    BY <2>3, RemainingIs
  <2>7. PICK s \in RowsOn(J) : /\ s = Remaining(w, u, tops, n)
                               /\ \A c \in J : s[c] = Combined(w, u, tops, n, J)[c] % Modulus
    BY <2>3, RemainingIs
  <2>8. PICK y \in RowsOn(J) : /\ y = Remaining(x, z, tops, n)
                               /\ \A c \in J : y[c] = Combined(x, z, tops, n, J)[c] % Modulus
    BY RemainingIs
  <2>9. ASSUME NEW c \in J
        PROVE  y[c] = Plus(r[c], a, s[c])
    <3>1. Multiples(t, n) /\ Multiples(u, n) /\ x \in SumsOn(J)
      BY <2>3, RemainingIs, ScalarsAreNumbers
    <3>2. IsSum(x, v, a, w, J) /\ IsSum(z, t, a, u, 1..n)
      BY <2>4, <2>5 DEF IsSum
    <3>3. Combined(x, z, tops, n, J)[c] % Modulus =
            Plus(Combined(v, t, tops, n, J)[c], a, Combined(w, u, tops, n, J)[c])
      BY <2>3, <3>1, <3>2, CombinationsCombine
    <3>4. PICK f \in Nat, g \in Nat : f = Combined(v, t, tops, n, J)[c] /\ g = Combined(w, u, tops, n, J)[c]
      <4>1. Combined(v, t, tops, n, J) \in SumsOn(J) /\ Combined(w, u, tops, n, J) \in SumsOn(J)
        BY <2>3, RemainingIs
      <4> QED
        BY <4>1, Entries
    <3>5. Plus(f, a, g) = Plus(f % Modulus, a, g % Modulus)
      <4>1. f % Modulus \in Nat /\ g % Modulus \in Nat
        BY Quotients
      <4>2. Plus(f % Modulus, a, g % Modulus) = Plus(f % Modulus, a, g)
        BY <2>3, <4>1, SumOfRemainders, SMTT(20) DEF Plus
      <4>3. Plus(f % Modulus, a, g) = Plus(f, a, g)
        BY <2>3, SumOfRemainders DEF Plus
      <4> QED
        BY <4>2, <4>3
    <3> QED
      BY <2>6, <2>7, <2>8, <3>3, <3>4, <3>5
  <2>10. y = ReducedBy(r, a, s)
    <3>1. r \in SumsOn(J) /\ s \in SumsOn(J)
      BY ScalarsAreNumbers
    <3>2. /\ ReducedBy(r, a, s) \in RowsOn(J)
          /\ \A c \in J : ReducedBy(r, a, s)[c] = Plus(r[c], a, s[c])
      BY <2>3, <3>1, ReducedByIs
    <3> QED
      BY <2>9, <3>2, RowsEqual
  <2>11. /\ RightPart(ReducedBy(r, a, s), n) = ReducedBy(RightPart(r, n), a, RightPart(s, n))
         /\ LeftZero(r, n) /\ LeftZero(s, n) => LeftZero(ReducedBy(r, a, s), n)
    BY RightPartOfSum
  <2>12. ReducedBy(RightPart(r, n), a, RightPart(s, n)) \in S
    BY <2>1, <2>2, <2>6, <2>7 DEF Subspace
  <2>13. LeftZero(y, n) /\ RightPart(y, n) \in S
    BY <2>1, <2>2, <2>6, <2>7, <2>10, <2>11, <2>12
  <2>14. x \in V
    BY <2>8, <2>13 DEF Reducible
  <2> QED
    BY <2>4, <2>14
<1> QED
  BY <1>1, <1>2, <1>3 DEF Subspace

(* A top row is reduced to nothing by itself. *)
LEMMA TopsReducible ==
  ASSUME NEW n \in Nat, NEW tops, \A k \in 1..n : tops[k] \in RowsOn(Columns(n)),
         NEW S, Subspace(S, RightCols), NEW i \in 1..n
  PROVE  tops[i] \in Reducible(tops, n, S)
<1> DEFINE J == Columns(n)
<1>1. Summands(tops, n, J)
  BY ScalarsAreNumbers DEF Summands
<1>2. PICK w \in RowsOn(J) : w = tops[i] /\ w \in SumsOn(J)
  BY ScalarsAreNumbers
<1>3. Modulus \in Nat /\ Modulus - 1 \in Scalar /\ Modulus - 1 \in Nat /\ 0 \in Scalar
  BY Remainders DEF Scalar
<1>4. PICK none \in [1..n -> Scalar] : \A k \in 1..n : none[k] = 0
  <2>1. [k \in 1..n |-> 0] \in [1..n -> Scalar]
    BY <1>3
  <2> QED
    BY <2>1
<1>5. PICK t \in [1..n -> Scalar] : \A k \in 1..n : t[k] = IF k = i THEN Modulus - 1 ELSE 0
  <2>1. [k \in 1..n |-> IF k = i THEN Modulus - 1 ELSE 0] \in [1..n -> Scalar]
    BY <1>3
  <2> QED
    BY <2>1
<1>6. Multiples(t, n) /\ Multiples(none, n)
  BY ScalarsAreNumbers DEF Multiples
<1> HIDE DEF J
<1>7. ASSUME NEW c \in J
      PROVE  Combined(w, t, tops, n, J)[c] % Modulus = 0
  <2>1. PICK x \in Nat : x = w[c]
    BY <1>2, Entries
  <2>2. Combined(w, none, tops, n, J)[c] = x
    <3>1. \A k \in 1..n : none[k] * tops[k][c] = 0
      <4>1. \A k \in 1..n : tops[k][c] \in Nat
        BY <1>1, Entries DEF Summands
      <4> QED
        BY <1>4, <4>1
    <3>2. (\A k \in 1..n : none[k] * tops[k][c] = 0) => Combined(w, none, tops, n, J)[c] = w[c]
      BY <1>1, <1>2, <1>6, NothingAdded
    <3> QED
      BY <2>1, <3>1, <3>2
  <2>3. Combined(w, t, tops, n, J)[c] = Combined(w, none, tops, n, J)[c] + t[i] * tops[i][c]
    <3>1. none[i] = 0 /\ \A k \in 1..n : k # i => t[k] = none[k]
      BY <1>4, <1>5
    <3> QED
      BY <1>1, <1>2, <1>6, <3>1, OneMultipleMore
  <2>4. Combined(w, t, tops, n, J)[c] = x + (Modulus - 1) * x
    BY <1>2, <1>5, <2>1, <2>2, <2>3
  <2>5. x + (Modulus - 1) * x = 0 + x * Modulus
    BY <1>3
  <2>6. (x + (Modulus - 1) * x) % Modulus = 0 % Modulus
    <3>1. x + (Modulus - 1) * x \in Nat
      BY <1>3
    <3> QED
      BY <2>5, <3>1, SameRemainder
  <2> QED
    BY <2>4, <2>6, Remainders
<1>8. PICK y \in RowsOn(J) : /\ y = Remaining(w, t, tops, n)
                             /\ \A c \in J : y[c] = Combined(w, t, tops, n, J)[c] % Modulus
  BY <1>1, RemainingIs DEF J
<1>9. y = ZeroRow(J)
  <2>1. ZeroRow(J) \in RowsOn(J) /\ \A c \in J : ZeroRow(J)[c] = 0
    BY ZeroRowIs
  <2> QED
    BY <1>7, <1>8, <2>1, RowsEqual
<1>10. RightPart(y, n) = ZeroRow(RightCols) /\ LeftZero(y, n)
  BY <1>9, ZeroRowParts DEF J
<1>11. ZeroRow(RightCols) \in S
  BY DEF Subspace
<1> QED
  BY <1>2, <1>8, <1>10, <1>11 DEF Reducible, J

(* Multiples of the top rows that leave nothing on the left of the bottom
   rows, and the rows they leave on the right: those of low, up to what
   S holds anyway. *)
MultiplesClear(bots, t, D, tops, n) ==
  /\ \A k \in 1..n : tops[k] \in RowsOn(Columns(n))
  /\ \A j \in D : /\ bots[j] \in RowsOn(Columns(n))
                   /\ t[j] \in [1..n -> Scalar]
                   /\ LeftZero(Remaining(bots[j], t[j], tops, n), n)

LeavesRows(low, S, bots, t, D, tops, n) ==
  /\ \A x \in low : \E j \in D : x = RightPart(Remaining(bots[j], t[j], tops, n), n)
  /\ \A j \in D : RightPart(Remaining(bots[j], t[j], tops, n), n) \in S

(* The right parts that multiples of the top rows leave of the bottom rows span
   those of all combinations with nothing on the left. *)
LEMMA RemainingSpan ==
  ASSUME NEW n \in Nat, NEW tops, NEW D, NEW bots, NEW t,
         MultiplesClear(bots, t, D, tops, n),
         NEW lead, NEW R, LeadsIn(lead, R, tops, n, 0..n - 1),
         NEW low, NEW S, LeastSpace(S, low, RightCols),
         LeavesRows(low, S, bots, t, D, tops, n),
         NEW W, LeastSpace(W, {tops[k] : k \in 1..n} \cup {bots[j] : j \in D}, Columns(n))
  PROVE  S = Cleared(W, n)
<1> DEFINE J == Columns(n)
           rows == {tops[k] : k \in 1..n} \cup {bots[j] : j \in D}
<1>0. /\ \A k \in 1..n : tops[k] \in RowsOn(Columns(n))
      /\ \A j \in D : /\ bots[j] \in RowsOn(Columns(n))
                       /\ t[j] \in [1..n -> Scalar]
                       /\ LeftZero(Remaining(bots[j], t[j], tops, n), n)
      /\ \A x \in low : \E j \in D : x = RightPart(Remaining(bots[j], t[j], tops, n), n)
      /\ \A j \in D : RightPart(Remaining(bots[j], t[j], tops, n), n) \in S
  BY DEF MultiplesClear, LeavesRows
<1>1. Summands(tops, n, J)
  BY <1>0, ScalarsAreNumbers DEF Summands
<1>2. Subspace(S, RightCols) /\ Subspace(W, J)
  BY DEF LeastSpace
<1>3. \A x \in rows : x \in RowsOn(J) /\ TakeModulus(x) = x
  <2>1. \A x \in RowsOn(J) : TakeModulus(x) = x
    BY TakeModulusIs, ScalarsAreNumbers
  <2> QED
    BY <1>0, <2>1
<1>4. \A x \in rows : x \in W
  <2>1. \A x \in rows : TakeModulus(x) \in W
    BY DEF LeastSpace, Holds
  <2> HIDE DEF rows
  <2> QED
    BY <1>3, <2>1
<1>5. S \subseteq Cleared(W, n)
  <2>1. Subspace(Cleared(W, n), RightCols)
    BY <1>2, ClearedIsSpace
  <2>2. ASSUME NEW j \in D
        PROVE  RightPart(Remaining(bots[j], t[j], tops, n), n) \in Cleared(W, n)
    <3>1. PICK w \in RowsOn(J) : w = bots[j] /\ w \in W /\ w \in SumsOn(J) /\ TakeModulus(w) = w
      BY <1>3, <1>4, ScalarsAreNumbers
    <3>2. PICK u \in [1..n -> Scalar] : u = t[j]
      BY <1>0
    <3>3. \A k \in 1..n : u[k] \in Scalar
      OBVIOUS
    <3>4. \A k \in 1..n : tops[k] \in W
      BY <1>4
    <3>5. Remaining(w, u, tops, n) \in W
      <4>1. TakeModulus(Combined(w, u, tops, n, J)) \in W <=> TakeModulus(w) \in W
        BY <1>2, <3>1, <3>3, <3>4, CombinedInSpace
      <4> QED
        BY <3>1, <4>1 DEF Remaining
    <3>6. LeftZero(Remaining(w, u, tops, n), n)
      BY <1>0, <3>1, <3>2
    <3> QED
      BY <3>1, <3>2, <3>5, <3>6 DEF Cleared
  <2>3. Holds(Cleared(W, n), low)
    <3>1. ASSUME NEW x \in low
          PROVE  TakeModulus(x) \in Cleared(W, n)
      <4>1. x \in Cleared(W, n)
        BY <1>0, <2>2
      <4>2. x \in RowsOn(RightCols)
        BY <2>1, <4>1 DEF Subspace
      <4>3. TakeModulus(x) = x
        BY <4>2, TakeModulusIs, ScalarsAreNumbers
      <4> QED
        BY <4>1, <4>3
    <3> QED
      BY <3>1 DEF Holds
  <2> QED
    BY <2>1, <2>3 DEF LeastSpace
<1>6. W \subseteq Reducible(tops, n, S)
  <2>1. Subspace(Reducible(tops, n, S), J)
    BY <1>1, <1>2, ReducibleIsSpace
  <2>2. \A k \in 1..n : tops[k] \in Reducible(tops, n, S)
    BY <1>0, <1>2, TopsReducible
  <2>3. \A j \in D : bots[j] \in Reducible(tops, n, S)
    BY <1>0 DEF Reducible
  <2>4. Holds(Reducible(tops, n, S), rows)
    <3>1. \A x \in rows : x \in Reducible(tops, n, S)
      BY <2>2, <2>3
    <3> HIDE DEF rows
    <3> QED
      BY <1>3, <3>1 DEF Holds
  <2> QED
    BY <2>1, <2>4 DEF LeastSpace
<1>7. ASSUME NEW v \in W, LeftZero(v, n)
      PROVE  RightPart(v, n) \in S
  <2>1. v \in RowsOn(J) /\ v \in SumsOn(J)
    BY <1>2, ScalarsAreNumbers DEF Subspace
  <2>2. PICK u \in [1..n -> Scalar] : /\ LeftZero(Remaining(v, u, tops, n), n)
                                      /\ RightPart(Remaining(v, u, tops, n), n) \in S
    BY <1>6 DEF Reducible
  <2>3. \A c \in J : Remaining(v, u, tops, n)[c] = Combined(v, u, tops, n, J)[c] % Modulus
    BY <1>1, <2>1, RemainingIs
  <2>4. 0..n - 1 \subseteq J
    BY ColumnsAre
  <2>5. \A c \in 0..n - 1 : Combined(v, u, tops, n, J)[c] % Modulus = 0
    BY <2>2, <2>3, <2>4 DEF LeftZero
  <2>6. \A k \in 1..n : u[k] = 0
    <3> HIDE DEF J
    <3> QED
      BY <1>0, <1>1, <1>7, <2>1, <2>4, <2>5, NoMultiplesLeft
  <2>7. Remaining(v, u, tops, n) = v
    BY <1>1, <2>1, <2>6, RemainingIs
  <2> QED
    BY <2>2, <2>7
<1>8. Cleared(W, n) \subseteq S
  BY <1>7 DEF Cleared
<1> QED
  BY <1>5, <1>8

LEMMA JoinIs ==
  ASSUME NEW n \in Nat, NEW left \in RowsOn(0..n - 1), NEW right \in RowsOn(RightCols)
  PROVE  /\ Join(left, right) \in RowsOn(Columns(n))
         /\ \A c \in 0..n - 1 : Join(left, right)[c] = left[c]
         /\ \A c \in RightCols : Join(left, right)[n + c] = right[c]
<1>1. DOMAIN left = 0..n - 1
  BY DEF RowsOn
<1>2. Cardinality(0..n - 1) = n
  <2>1. 0 \in Int /\ n - 1 \in Int
    OBVIOUS
  <2>2. Cardinality(0..n - 1) = IF 0 > n - 1 THEN 0 ELSE (n - 1) - 0 + 1
    BY <2>1, FS_Interval
  <2> QED
    BY <2>2
<1>3. Join(left, right) = [c \in Columns(n) |-> IF c \in 0..n - 1 THEN left[c] ELSE right[c - n]]
  BY <1>1, <1>2 DEF Join, Columns
<1>4. /\ 0..n - 1 \subseteq Columns(n) /\ \A c \in RightCols : n + c \in Columns(n)
      /\ \A c \in Columns(n) : c \in 0..n - 1 \/ \E b \in RightCols : c = n + b
      /\ \A b \in RightCols : n + b \notin 0..n - 1
  BY ColumnsAre
<1>5. \A b \in RightCols : (n + b) - n = b
  BY RightRows
<1> DEFINE v == [c \in Columns(n) |-> IF c \in 0..n - 1 THEN left[c] ELSE right[c - n]]
<1>6. \A c \in 0..n - 1 : v[c] = left[c]
  BY <1>4
<1>7. \A c \in RightCols : v[n + c] = right[c]
  <2>1. ASSUME NEW c \in RightCols
        PROVE  v[n + c] = right[c]
    <3>1. v[n + c] = right[(n + c) - n]
      BY <1>4
    <3> QED
      BY <1>5, <3>1
  <2> QED
    BY <2>1
<1>8. \A c \in Columns(n) : v[c] \in Scalar
  <2>1. (\A c \in 0..n - 1 : left[c] \in Scalar) /\ \A c \in RightCols : right[c] \in Scalar
    BY Entries
  <2> HIDE DEF v
  <2> QED
    BY <1>4, <1>6, <1>7, <2>1
<1>9. v \in RowsOn(Columns(n))
  <2>1. v = [c \in Columns(n) |-> v[c]]
    OBVIOUS
  <2> HIDE DEF v
  <2> QED
    BY <1>8, <2>1 DEF RowsOn
<1> QED
  BY <1>3, <1>6, <1>7, <1>9

(* A row of tmp leaves of the whole bottom row what reduce makes of it. *)
LEMMA RowsRemain ==
  ASSUME Inv, MultiplesInTmp, phase \in {"left", "right"}, NEW i \in DOMAIN rowOrder,
         NEW tops, \A k \in 1..Len(qm.topLeft) : tops[k] = Join(qm.topLeft[k], qm.topRight[k]),
         NEW row, row = Join(qm.bottomLeft[rowOrder[i]], qm.bottomRight[rowOrder[i]])
  PROVE  /\ LeftZero(Remaining(row, tmp[i], tops, Len(qm.topLeft)), Len(qm.topLeft))
         /\ RightPart(Remaining(row, tmp[i], tops, Len(qm.topLeft)), Len(qm.topLeft))
              = TakeModulus(RightSums(i))
<1> DEFINE L == LeftCols(qm)
<1>1. PICK n \in Nat : n = Len(qm.topLeft) /\ L = 0..n - 1
  BY SumsAreCombined DEF LeftCols
<1>2. PICK t \in [1..n -> Scalar] : t = tmp[i] /\ Multiples(t, n)
  BY <1>1, SumsAreCombined, ScalarsAreNumbers DEF Multiples
<1>3. PICK bl \in RowsOn(L), br \in RowsOn(RightCols) :
        bl = qm.bottomLeft[rowOrder[i]] /\ br = qm.bottomRight[rowOrder[i]]
  BY SumsAreCombined
<1>4. bl \in SumsOn(L) /\ br \in SumsOn(RightCols)
  BY ScalarsAreNumbers
<1>5. \A k \in 1..n : qm.topLeft[k] \in RowsOn(L) /\ qm.topRight[k] \in RowsOn(RightCols)
  BY <1>1, SumsAreCombined, TopsBegin
<1>6. Summands(qm.topLeft, n, L) /\ Summands(qm.topRight, n, RightCols)
  BY <1>5, ScalarsAreNumbers DEF Summands
<1>7. PICK w \in RowsOn(Columns(n)) : /\ w = Join(bl, br) /\ w \in SumsOn(Columns(n))
                                      /\ \A c \in L : w[c] = bl[c]
                                      /\ \A c \in RightCols : w[n + c] = br[c]
  <2>1. bl \in RowsOn(0..n - 1)
    BY <1>1
  <2>2. /\ Join(bl, br) \in RowsOn(Columns(n))
        /\ \A c \in 0..n - 1 : Join(bl, br)[c] = bl[c]
        /\ \A c \in RightCols : Join(bl, br)[n + c] = br[c]
    BY <2>1, JoinIs
  <2> QED
    BY <1>1, <2>2, ScalarsAreNumbers
<1>8. \A k \in 1..n : /\ tops[k] \in RowsOn(Columns(n))
                      /\ \A c \in L : tops[k][c] = qm.topLeft[k][c]
                      /\ \A c \in RightCols : tops[k][n + c] = qm.topRight[k][c]
  <2>1. ASSUME NEW k \in 1..n
        PROVE  /\ tops[k] \in RowsOn(Columns(n))
               /\ \A c \in L : tops[k][c] = qm.topLeft[k][c]
               /\ \A c \in RightCols : tops[k][n + c] = qm.topRight[k][c]
    <3>1. PICK f \in RowsOn(0..n - 1), g \in RowsOn(RightCols) :
            f = qm.topLeft[k] /\ g = qm.topRight[k]
      BY <1>1, <1>5
    <3>2. /\ Join(f, g) \in RowsOn(Columns(n))
          /\ \A c \in 0..n - 1 : Join(f, g)[c] = f[c]
          /\ \A c \in RightCols : Join(f, g)[n + c] = g[c]
      BY JoinIs
    <3>3. tops[k] = Join(f, g)
      BY <1>1, <3>1
    <3> QED
      BY <1>1, <3>1, <3>2, <3>3
  <2> QED
    BY <2>1
<1>9. Summands(tops, n, Columns(n))
  BY <1>8, ScalarsAreNumbers DEF Summands
<1>10. PICK x \in SumsOn(L) : /\ x = Combined(bl, t, qm.topLeft, n, L)
                              /\ \A c \in L : x[c] % Modulus = 0
  BY <1>1, <1>2, <1>3, SumsAreCombined, LeftSumsCancel
<1>11. PICK y \in SumsOn(RightCols) : /\ y = Combined(br, t, qm.topRight, n, RightCols)
                                      /\ y = RightSums(i)
  <2>1. RightSums(i) = Combined(br, t, qm.topRight, n, RightCols)
    BY <1>1, <1>2, <1>3, SumsAreCombined
  <2>2. Combined(br, t, qm.topRight, n, RightCols) \in SumsOn(RightCols)
    BY <1>2, <1>4, <1>6, CombinedIsSum
  <2> QED
    BY <2>1, <2>2
<1>12. PICK z \in RowsOn(Columns(n)) :
         /\ z = Remaining(w, t, tops, n)
         /\ \A c \in Columns(n) : z[c] = Combined(w, t, tops, n, Columns(n))[c] % Modulus
  BY <1>9, RemainingIs
<1>13. L \subseteq Columns(n) /\ \A c \in RightCols : n + c \in Columns(n)
  BY <1>1, ColumnsAre
<1> HIDE DEF L
<1>14. ASSUME NEW c \in L
       PROVE  z[c] = 0
  <2>1. c \in Columns(n) /\ w[c] = bl[c] /\ \A k \in 1..n : tops[k][c] = qm.topLeft[k][c]
    BY <1>7, <1>8, <1>13
  <2>2. Combined(w, t, tops, n, Columns(n))[c] = Combined(bl, t, qm.topLeft, n, L)[c]
    BY <1>2, <1>4, <1>6, <1>7, <1>9, <2>1, SameColumn
  <2> QED
    BY <1>10, <1>12, <2>1, <2>2
<1>15. ASSUME NEW c \in RightCols
       PROVE  z[n + c] = y[c] % Modulus
  <2>1. n + c \in Columns(n) /\ w[n + c] = br[c] /\ \A k \in 1..n : tops[k][n + c] = qm.topRight[k][c]
    BY <1>7, <1>8, <1>13
  <2>2. Combined(w, t, tops, n, Columns(n))[n + c] = Combined(br, t, qm.topRight, n, RightCols)[c]
    BY <1>2, <1>4, <1>6, <1>7, <1>9, <2>1, SameColumn
  <2> QED
    BY <1>11, <1>12, <2>1, <2>2
<1>16. LeftZero(z, n)
  BY <1>1, <1>14 DEF LeftZero
<1>17. RightPart(z, n) = TakeModulus(y)
  <2>1. /\ RightPart(z, n) \in RowsOn(RightCols)
        /\ \A c \in RightCols : RightPart(z, n)[c] = z[n + c]
    BY RightPartIs
  <2>2. TakeModulus(y) \in RowsOn(RightCols) /\ \A c \in RightCols : TakeModulus(y)[c] = y[c] % Modulus
    BY TakeModulusIs
  <2> QED
    BY <1>15, <2>1, <2>2, RowsEqual
<1> QED
  BY <1>1, <1>2, <1>3, <1>7, <1>11, <1>12, <1>16, <1>17

LEMMA InvSpansRest ==
  ASSUME Inv, ReduceInv
  PROVE  LowerSpansRest
<1> DEFINE n == Len(qm.topLeft)
           D == DOMAIN qm.bottomLeft
           joined == {Join(qm.topLeft[i], qm.topRight[i]) : i \in DOMAIN qm.topLeft}
                       \cup {Join(qm.bottomLeft[i], qm.bottomRight[i]) : i \in D}
<1> SUFFICES ASSUME phase = "right", todo = {}
             PROVE  Span(Range(lower)) = Cleared(Span(joined), n)
  BY DEF LowerSpansRest, Cleared, RightPart, LeftZero, LeftCols
<1>1. /\ TypeOK /\ MultiplesInTmp /\ TakenOnce /\ LowerIsRight
      /\ tmp \in Seq([DOMAIN qm.topLeft -> Scalar]) /\ Len(tmp) = Len(rowOrder)
      /\ rowOrder \in Seq(D)
  BY DEF ReduceInv, Inv, InReduce, TypeOK
<1>2. PICK m \in QuadMatrices : m = qm
  BY <1>1 DEF TypeOK
<1>3. n \in Nat /\ DOMAIN qm.topLeft = 1..n /\ LeftCols(qm) = 0..n - 1
  BY <1>2, TopsBegin
<1>4. DOMAIN tmp = DOMAIN rowOrder /\ \A i \in DOMAIN rowOrder : rowOrder[i] \in D
  BY <1>1
<1>5. /\ \A k \in 1..n : qm.topLeft[k] \in RowsOn(0..n - 1) /\ qm.topRight[k] \in RowsOn(RightCols)
      /\ \A j \in D : qm.bottomLeft[j] \in RowsOn(0..n - 1) /\ qm.bottomRight[j] \in RowsOn(RightCols)
  <2>1. /\ qm.topLeft \in Seq(RowsOn(LeftCols(qm))) /\ qm.topRight \in Seq(RowsOn(RightCols))
        /\ qm.bottomLeft \in Seq(RowsOn(LeftCols(qm))) /\ qm.bottomRight \in Seq(RowsOn(RightCols))
        /\ Len(qm.topLeft) = Len(qm.topRight) /\ Len(qm.bottomLeft) = Len(qm.bottomRight)
    BY <1>2, QuadMatricesAssumption DEF RowsOn
  <2>2. DOMAIN qm.topRight = 1..n /\ DOMAIN qm.bottomRight = D
    BY <1>3, <2>1
  <2>3. \A k \in 1..n : qm.topLeft[k] \in RowsOn(LeftCols(qm)) /\ qm.topRight[k] \in RowsOn(RightCols)
    BY <1>3, <2>1, <2>2
  <2>4. \A j \in D : qm.bottomLeft[j] \in RowsOn(LeftCols(qm)) /\ qm.bottomRight[j] \in RowsOn(RightCols)
    BY <2>1, <2>2
  <2>5. RowsOn(LeftCols(qm)) = RowsOn(0..n - 1)
    BY <1>3
  <2> HIDE DEF n, D
  <2> QED
    BY <2>3, <2>4, <2>5
<1> DEFINE tops == [k \in 1..n |-> Join(qm.topLeft[k], qm.topRight[k])]
           bots == [j \in D |-> Join(qm.bottomLeft[j], qm.bottomRight[j])]
           from == [j \in D |-> CHOOSE i \in DOMAIN rowOrder : rowOrder[i] = j]
           t == [j \in D |-> tmp[from[j]]]
           lead == [k \in 1..n |-> LeadCol(qm.topLeft[k])]
           place == [c \in 0..n - 1 |-> RowThatReducesCol(qm, c)]
<1>6. joined = {tops[k] : k \in 1..n} \cup {bots[j] : j \in D}
  BY <1>3
<1>7. \A k \in 1..n : /\ tops[k] \in RowsOn(Columns(n))
                      /\ \A c \in 0..n - 1 : tops[k][c] = qm.topLeft[k][c]
  <2>1. ASSUME NEW k \in 1..n
        PROVE  /\ tops[k] \in RowsOn(Columns(n))
               /\ \A c \in 0..n - 1 : tops[k][c] = qm.topLeft[k][c]
    <3>1. PICK f \in RowsOn(0..n - 1), g \in RowsOn(RightCols) :
            f = qm.topLeft[k] /\ g = qm.topRight[k]
      BY <1>5
    <3>2. Join(f, g) \in RowsOn(Columns(n)) /\ \A c \in 0..n - 1 : Join(f, g)[c] = f[c]
      <4>1. n \in Nat
        BY <1>3
      <4> HIDE DEF n
      <4> QED
        BY <4>1, JoinIs
    <3> QED
      BY <3>1, <3>2
  <2> HIDE DEF tops
  <2> QED
    BY <2>1
<1>8. \A j \in D : bots[j] \in RowsOn(Columns(n))
  <2>1. ASSUME NEW j \in D
        PROVE  bots[j] \in RowsOn(Columns(n))
    <3>1. PICK f \in RowsOn(0..n - 1), g \in RowsOn(RightCols) :
            f = qm.bottomLeft[j] /\ g = qm.bottomRight[j]
      BY <1>5
    <3>2. Join(f, g) \in RowsOn(Columns(n))
      <4>1. n \in Nat
        BY <1>3
      <4> HIDE DEF n
      <4> QED
        BY <4>1, JoinIs
    <3> QED
      BY <3>1, <3>2
  <2> QED
    BY <2>1
<1>9. LeadsIn(lead, place, tops, n, 0..n - 1)
  <2>1. \A k \in 1..n : /\ k - 1 \in 0..n - 1 /\ lead[k] \in 0..n - 1 /\ k = place[lead[k]]
                        /\ BeginsIn(qm.topLeft[k], lead[k])
    <3>1. \A k \in 1..n : k - 1 \in 0..n - 1
      BY <1>3
    <3>2. \A k \in 1..n : /\ LeadCol(qm.topLeft[k]) \in 0..n - 1
                          /\ k = RowThatReducesCol(qm, LeadCol(qm.topLeft[k]))
                          /\ BeginsIn(qm.topLeft[k], LeadCol(qm.topLeft[k]))
      BY <1>2, <1>3, TopsBegin
    <3> QED
      BY <3>1, <3>2
  <2>2. \A c \in 0..n - 1 : place[c] \in 1..n /\ lead[place[c]] = c
    BY <1>2, <1>3, TopsBegin
  <2>3. \A k \in 1..n : tops[k][lead[k]] = 1 /\ \A b \in 0..n - 1 : b < lead[k] => tops[k][b] = 0
    <3>1. \A k \in 1..n : DOMAIN qm.topLeft[k] = 0..n - 1
      BY <1>5 DEF RowsOn
    <3>2. ASSUME NEW k \in 1..n
          PROVE  /\ tops[k][lead[k]] = 1
                 /\ \A b \in 0..n - 1 : b < lead[k] => tops[k][b] = 0
      <4>1. PICK f \in RowsOn(0..n - 1) : f = qm.topLeft[k]
        BY <1>5
      <4>2. PICK c \in 0..n - 1 : c = lead[k]
        BY <2>1
      <4>3. BeginsIn(f, c) /\ DOMAIN f = 0..n - 1
        BY <2>1, <3>1, <4>1, <4>2
      <4>4. \A b \in 0..n - 1 : tops[k][b] = f[b]
        BY <1>7, <4>1
      <4> HIDE DEF tops, lead, place, n
      <4>5. f[c] = 1 /\ \A b \in 0..n - 1 : b < c => f[b] = 0
        BY <4>3 DEF BeginsIn
      <4> QED
        BY <4>2, <4>4, <4>5
    <3> HIDE DEF tops, lead, place, n
    <3> QED
      BY <3>2
  <2>4. 0..n - 1 \subseteq Nat /\ \A c \in 0..n - 1 : c < n
    BY <1>3
  <2> HIDE DEF tops, lead, place, n
  <2> QED
    BY <2>1, <2>2, <2>3, <2>4 DEF LeadsIn
<1>10. ASSUME NEW j \in D
       PROVE  from[j] \in DOMAIN rowOrder /\ rowOrder[from[j]] = j
  <2>1. \E i \in DOMAIN rowOrder : rowOrder[i] = j
    BY <1>1 DEF TakenOnce
  <2> QED
    BY <2>1, Zenon
<1> HIDE DEF from
<1>11. \A i \in DOMAIN rowOrder : i = from[rowOrder[i]]
  BY <1>1, <1>4, <1>10 DEF TakenOnce
<1>12. ASSUME NEW j \in D
       PROVE  /\ t[j] \in [1..n -> Scalar]
              /\ LeftZero(Remaining(bots[j], t[j], tops, n), n)
              /\ RightPart(Remaining(bots[j], t[j], tops, n), n) = TakeModulus(RightSums(from[j]))
  <2>1. PICK i \in DOMAIN rowOrder : i = from[j] /\ rowOrder[i] = j
    BY <1>10
  <2>2. t[j] = tmp[i] /\ tmp[i] \in [1..n -> Scalar]
    <3>1. t[j] = tmp[i]
      BY <2>1
    <3>2. tmp[i] \in [1..n -> Scalar]
      BY SumsAreCombined
    <3> QED
      BY <3>1, <3>2
  <2>3. /\ \A k \in 1..Len(qm.topLeft) : tops[k] = Join(qm.topLeft[k], qm.topRight[k])
        /\ bots[j] = Join(qm.bottomLeft[j], qm.bottomRight[j])
    OBVIOUS
  <2> HIDE DEF tops, bots, t
  <2>4. PICK row : row = bots[j]
    OBVIOUS
  <2>5. /\ LeftZero(Remaining(row, tmp[i], tops, n), n)
        /\ RightPart(Remaining(row, tmp[i], tops, n), n) = TakeModulus(RightSums(i))
    BY <1>1, <2>1, <2>3, <2>4, RowsRemain
  <2> QED
    BY <2>1, <2>2, <2>4, <2>5
<1>13. ASSUME NEW x \in Range(lower)
       PROVE  \E j \in D : x = RightPart(Remaining(bots[j], t[j], tops, n), n)
  <2>1. PICK r \in DOMAIN lower : x = lower[r]
    BY <1>1, LowerRows
  <2>2. PICK i \in DOMAIN rowOrder : x = TakeModulus(RightSums(i))
    BY <1>1, <1>4, <2>1 DEF LowerIsRight
  <2>3. PICK j \in D : i = from[j]
    BY <1>4, <1>11
  <2> HIDE DEF t, tops, bots, n
  <2> QED
    BY <1>12, <2>2, <2>3
<1>14. /\ IsFiniteSet(Range(lower)) /\ Range(lower) \subseteq RowsOn(RightCols)
       /\ LeastSpace(Span(Range(lower)), Range(lower), RightCols)
  <2>1. /\ Len(lower) \in Nat /\ DOMAIN lower = 1..Len(lower)
        /\ \A row \in DOMAIN lower : lower[row] \in ScalarRow
        /\ Range(lower) = {lower[row] : row \in DOMAIN lower}
    BY <1>1, LowerRows
  <2>2. IsFiniteSet(DOMAIN lower)
    BY <2>1, FS_Interval
  <2>3. IsFiniteSet({lower[row] : row \in DOMAIN lower})
    BY <2>2, EntriesAreFinite
  <2>4. Range(lower) \subseteq RowsOn(RightCols)
    BY <2>1 DEF ScalarRow, RowsOn
  <2>5. Range(lower) \subseteq SumsOn(RightCols)
    BY <2>4, ScalarsAreNumbers
  <2> QED
    BY <2>1, <2>3, <2>4, <2>5, SpanIsLeast
<1>15. ASSUME NEW j \in D
       PROVE  RightPart(Remaining(bots[j], t[j], tops, n), n) \in Span(Range(lower))
  <2>1. PICK i \in DOMAIN tmp : i = from[j]
    BY <1>4, <1>10
  <2>2. PICK d \in RowsOn(RightCols) : d = TakeModulus(RightSums(i))
    <3>1. RightSums(i) \in SumsOn(RightCols)
      BY <1>1, RightSumsFit DEF Inv, SumsOn, DenseRow
    <3> QED
      BY <3>1, TakeModulusIs
  <2>3. Zero(d) \/ \E r \in DOMAIN lower : lower[r] = d
    BY <1>1, <2>2 DEF LowerIsRight
  <2>4. /\ Subspace(Span(Range(lower)), RightCols)
        /\ Holds(Span(Range(lower)), Range(lower))
    BY <1>14 DEF LeastSpace
  <2>5. d \in Span(Range(lower))
    <3>1. CASE Zero(d)
      <4>1. d = ZeroRow(RightCols)
        BY <3>1, ZeroRowIs
      <4> QED
        BY <2>4, <4>1 DEF Subspace
    <3>2. CASE \E r \in DOMAIN lower : lower[r] = d
      <4>1. d \in Range(lower)
        BY <1>1, <3>2, LowerRows
      <4>2. TakeModulus(d) = d
        BY TakeModulusIs, ScalarsAreNumbers
      <4> QED
        BY <2>4, <4>1, <4>2 DEF Holds
    <3> QED
      BY <2>3, <3>1, <3>2
  <2> QED
    BY <1>12, <2>1, <2>2, <2>5
<1>16. LeastSpace(Span(joined), joined, Columns(n))
  <2>1. IsFiniteSet(1..n) /\ IsFiniteSet(D)
    <3>1. PICK k \in Nat : D = 1..k
      <4>1. qm.bottomLeft \in Seq(RowsOn(LeftCols(qm)))
        BY <1>2, QuadMatricesAssumption DEF RowsOn
      <4> QED
        BY <4>1
    <3> QED
      BY <1>3, <3>1, FS_Interval
  <2>2. IsFiniteSet({tops[k] : k \in 1..n}) /\ IsFiniteSet({bots[j] : j \in D})
    <3> HIDE DEF tops, bots, n, D
    <3> QED
      BY <2>1, EntriesAreFinite
  <2>3. IsFiniteSet(joined)
    <3>1. IsFiniteSet({tops[k] : k \in 1..n} \cup {bots[j] : j \in D})
      <4> HIDE DEF tops, bots, n, D
      <4> QED
        BY <2>2, FS_Union
    <3> QED
      BY <1>6, <3>1
  <2>4. joined \subseteq SumsOn(Columns(n))
    <3>1. joined \subseteq RowsOn(Columns(n))
      <4> HIDE DEF joined, tops, bots, n, D
      <4> QED
        BY <1>6, <1>7, <1>8
    <3> HIDE DEF joined, n
    <3> QED
      BY <3>1, ScalarsAreNumbers
  <2>5. joined = {} => Columns(n) = RightCols
    <3>1. ASSUME joined = {}
          PROVE  Columns(n) = RightCols
      <4>1. 1..n = {}
        BY <1>6, <3>1
      <4>2. n = 0
        BY <1>3, <4>1
      <4> QED
        BY <4>2, ColumnsAre
    <3> QED
      BY <3>1
  <2> HIDE DEF joined, n
  <2> QED
    BY <2>3, <2>4, <2>5, SpanIsLeast
<1>17. LeastSpace(Span(joined), {tops[k] : k \in 1..n} \cup {bots[j] : j \in D}, Columns(n))
  <2> HIDE DEF joined, tops, bots, n, D
  <2> QED
    BY <1>6, <1>16
<1>18. n \in Nat
  BY <1>3
<1> HIDE DEF joined, tops, bots, t, lead, place, n, D
<1>19. MultiplesClear(bots, t, D, tops, n)
  BY <1>7, <1>8, <1>12 DEF MultiplesClear
<1>20. LeavesRows(Range(lower), Span(Range(lower)), bots, t, D, tops, n)
  BY <1>13, <1>15 DEF LeavesRows
<1> QED
  BY <1>9, <1>14, <1>17, <1>18, <1>19, <1>20, RemainingSpan

-----------------------------------------------------------------------------

LEMMA SpansAlways == Spec => [](Inv /\ ReduceInv /\ EchelonInv)
<1>1. Init => ReduceInv /\ EchelonInv
  BY InitReduces
<1>2. Inv /\ ReduceInv /\ EchelonInv /\ [Next]_vars => (ReduceInv /\ EchelonInv)'
  BY ReduceInvKept, EchelonInvKept
<1> QED
  BY <1>1, <1>2, InvAlways, PTL DEF Spec

(* For any modulus that is a prime, and whatever order the threads come in,
   each row that is taken is made zero on the left by its own multipliers
   (rowOrder names the row they belong to), the rows that reduce returns span
   what the combinations of all rows have on the right where they have nothing
   on the left, and neither way to echelon form changes what the rows span:
   F4MatrixReducer::reduceToBottomRight and reducedRowEchelonForm. *)
THEOREM RowSpaceStaysKept == Spec => []RowSpaceKept
<1>1. Inv /\ ReduceInv /\ EchelonInv => RowSpaceKept
  BY InvCancels, InvSpansRest, InvSpans DEF RowSpaceKept
<1> QED
  BY <1>1, SpansAlways, PTL

-----------------------------------------------------------------------------
(* The reduced row echelon form that F4MatrixReducer ends with is the only *)
(* one of its matrix, for any modulus that is a prime and any matrix, so   *)
(* that the algorithm of rowReducedEchelonMatrix, which is turned off,     *)
(* computes the same rows.                                                 *)
(*                                                                         *)
(* Whatever the rows of a reduced form span begins where one of them       *)
(* begins: the difference of a row of one form and the row of another that *)
(* begins in the same column begins nowhere.  That the third algorithm     *)
(* ends with a reduced form that spans what its matrix spans follows turn  *)
(* by turn of its two loops (EchelonSoFar, FormSoFar).                     *)

(* Rows of which multiples leave nothing *)
Vanishing(rows, n) ==
  {w \in RowsOn(RightCols) :
     \E t \in [1..n -> Scalar] :
       \A c \in RightCols : Combined(w, t, rows, n, RightCols)[c] % Modulus = 0}

LEMMA NoProductAdded ==
  ASSUME NEW cols, NEW n \in Nat, NEW base \in SumsOn(cols), NEW t, Multiples(t, n), NEW rows,
         Summands(rows, n, cols), NEW c \in cols
  PROVE  (\A k \in 1..n : t[k] = 0 \/ rows[k][c] = 0)
           => Combined(base, t, rows, n, cols)[c] = base[c]
<1>1. \A k \in 1..n : t[k] \in Nat /\ rows[k][c] \in Nat
  BY Entries DEF Multiples, Summands
<1>2. \A k \in 1..n : (t[k] = 0 \/ rows[k][c] = 0) => t[k] * rows[k][c] = 0
  BY <1>1
<1>3. (\A k \in 1..n : t[k] * rows[k][c] = 0) => Combined(base, t, rows, n, cols)[c] = base[c]
  BY NothingAdded
<1> QED
  BY <1>2, <1>3

LEMMA VanishingIsSpace ==
  ASSUME NEW n \in Nat, NEW rows, Summands(rows, n, RightCols)
  PROVE  Subspace(Vanishing(rows, n), RightCols)
<1> DEFINE J == RightCols
           V == Vanishing(rows, n)
<1>1. V \subseteq RowsOn(J)
  BY DEF Vanishing
<1>2. ZeroRow(J) \in V
  <2>1. PICK z \in RowsOn(J) : z = ZeroRow(J) /\ z \in SumsOn(J) /\ \A c \in J : z[c] = 0
    BY ZeroRowIs, ScalarsAreNumbers
  <2>2. PICK t \in [1..n -> Scalar] : \A k \in 1..n : t[k] = 0
    <3>1. [k \in 1..n |-> 0] \in [1..n -> Scalar]
      BY Remainders
    <3> QED
      BY <3>1
  <2>3. Multiples(t, n)
    BY <2>2 DEF Multiples
  <2>4. ASSUME NEW c \in J
        PROVE  Combined(z, t, rows, n, J)[c] % Modulus = 0
    <3>1. (\A k \in 1..n : t[k] = 0 \/ rows[k][c] = 0) => Combined(z, t, rows, n, J)[c] = z[c]
      BY <2>1, <2>3, NoProductAdded
    <3>2. Combined(z, t, rows, n, J)[c] = 0
      BY <2>1, <2>2, <3>1
    <3> QED
      BY <3>2, Remainders
  <2>5. z \in V
    BY <2>4 DEF Vanishing
  <2> QED
    BY <2>1, <2>5
<1>3. ASSUME NEW v \in V, NEW w \in V, NEW a \in Scalar
      PROVE  ReducedBy(v, a, w) \in V
  <2>1. PICK t \in [1..n -> Scalar] : \A c \in J : Combined(v, t, rows, n, J)[c] % Modulus = 0
    BY DEF Vanishing
  <2>2. PICK u \in [1..n -> Scalar] : \A c \in J : Combined(w, u, rows, n, J)[c] % Modulus = 0
    BY DEF Vanishing
  <2>3. v \in RowsOn(J) /\ w \in RowsOn(J) /\ v \in SumsOn(J) /\ w \in SumsOn(J) /\ a \in Nat
    BY <1>1, ScalarsAreNumbers
  <2>4. PICK x \in RowsOn(J) : x = ReducedBy(v, a, w) /\ \A c \in J : x[c] = Plus(v[c], a, w[c])
    <3>1. /\ ReducedBy(v, a, w) \in RowsOn(J)
          /\ \A c \in J : ReducedBy(v, a, w)[c] = Plus(v[c], a, w[c])
      BY <2>3, ReducedByIs
    <3> QED
      BY <3>1
  <2>5. PICK z \in [1..n -> Scalar] : \A k \in 1..n : z[k] = Plus(t[k], a, u[k])
    <3>1. \A k \in 1..n : Plus(t[k], a, u[k]) \in Scalar
      BY <2>3, PlusIsScalar, ScalarsAreNumbers
    <3>2. [k \in 1..n |-> Plus(t[k], a, u[k])] \in [1..n -> Scalar]
      BY <3>1
    <3> QED
      BY <3>2
  <2>6. Multiples(t, n) /\ Multiples(u, n) /\ x \in SumsOn(J)
    BY ScalarsAreNumbers DEF Multiples
  <2>7. IsSum(x, v, a, w, J) /\ IsSum(z, t, a, u, 1..n)
    BY <2>4, <2>5 DEF IsSum
  <2>8. ASSUME NEW c \in J
        PROVE  Combined(x, z, rows, n, J)[c] % Modulus = 0
    <3>1. Combined(x, z, rows, n, J)[c] % Modulus =
            Plus(Combined(v, t, rows, n, J)[c], a, Combined(w, u, rows, n, J)[c])
      BY <2>3, <2>6, <2>7, CombinationsCombine
    <3>2. PICK f \in Nat, g \in Nat : f = Combined(v, t, rows, n, J)[c] /\ g = Combined(w, u, rows, n, J)[c]
      <4>1. Combined(v, t, rows, n, J) \in SumsOn(J) /\ Combined(w, u, rows, n, J) \in SumsOn(J)
        BY <2>3, <2>6, CombinedIsSum
      <4> QED
        BY <4>1, Entries
    <3>3. f % Modulus = 0 /\ g % Modulus = 0
      BY <2>1, <2>2, <3>2
    <3>4. Plus(f, a, g) = Plus(f % Modulus, a, g)
      BY <2>3, PlusModulo
    <3>5. Plus(0, a, g) = Plus(0, a, g % Modulus)
      <4>1. 0 \in Nat
        OBVIOUS
      <4> QED
        BY <2>3, <4>1, SumOfRemainders DEF Plus
    <3>6. Plus(0, a, 0) = 0
      BY <2>3, Remainders DEF Plus
    <3> QED
      BY <3>1, <3>2, <3>3, <3>4, <3>5, <3>6
  <2>9. x \in V
    BY <2>8 DEF Vanishing
  <2> QED
    BY <2>4, <2>9
<1> QED
  BY <1>1, <1>2, <1>3 DEF Subspace

(* Each row is made to vanish by itself. *)
LEMMA RowsVanish ==
  ASSUME NEW n \in Nat, NEW rows, \A k \in 1..n : rows[k] \in RowsOn(RightCols), NEW i \in 1..n
  PROVE  rows[i] \in Vanishing(rows, n)
<1> DEFINE J == RightCols
<1>1. Summands(rows, n, J)
  BY ScalarsAreNumbers DEF Summands
<1>2. PICK w \in RowsOn(J) : w = rows[i] /\ w \in SumsOn(J)
  BY ScalarsAreNumbers
<1>3. Modulus \in Nat /\ Modulus - 1 \in Scalar /\ Modulus - 1 \in Nat /\ 0 \in Scalar
  BY Remainders DEF Scalar
<1>4. PICK none \in [1..n -> Scalar] : \A k \in 1..n : none[k] = 0
  <2>1. [k \in 1..n |-> 0] \in [1..n -> Scalar]
    BY <1>3
  <2> QED
    BY <2>1
<1>5. PICK t \in [1..n -> Scalar] : \A k \in 1..n : t[k] = IF k = i THEN Modulus - 1 ELSE 0
  <2>1. [k \in 1..n |-> IF k = i THEN Modulus - 1 ELSE 0] \in [1..n -> Scalar]
    BY <1>3
  <2> QED
    BY <2>1
<1>6. Multiples(t, n) /\ Multiples(none, n)
  BY ScalarsAreNumbers DEF Multiples
<1> HIDE DEF J
<1>7. ASSUME NEW c \in J
      PROVE  Combined(w, t, rows, n, J)[c] % Modulus = 0
  <2>1. PICK x \in Nat : x = w[c]
    BY <1>2, Entries
  <2>2. Combined(w, none, rows, n, J)[c] = x
    <3>1. (\A k \in 1..n : none[k] = 0 \/ rows[k][c] = 0) => Combined(w, none, rows, n, J)[c] = w[c]
      BY <1>1, <1>2, <1>6, NoProductAdded
    <3> QED
      BY <1>4, <2>1, <3>1
  <2>3. Combined(w, t, rows, n, J)[c] = Combined(w, none, rows, n, J)[c] + t[i] * rows[i][c]
    <3>1. none[i] = 0 /\ \A k \in 1..n : k # i => t[k] = none[k]
      BY <1>4, <1>5
    <3> QED
      BY <1>1, <1>2, <1>6, <3>1, OneMultipleMore
  <2>4. Combined(w, t, rows, n, J)[c] = x + (Modulus - 1) * x
    BY <1>2, <1>5, <2>1, <2>2, <2>3
  <2>5. x + (Modulus - 1) * x = 0 + x * Modulus
    BY <1>3
  <2>6. (x + (Modulus - 1) * x) % Modulus = 0 % Modulus
    <3>1. x + (Modulus - 1) * x \in Nat
      BY <1>3
    <3> QED
      BY <2>5, <3>1, SameRemainder
  <2> QED
    BY <2>4, <2>6, Remainders
<1> QED
  BY <1>2, <1>7 DEF Vanishing, J

-----------------------------------------------------------------------------
(* A reduced row echelon form is unique *)

(* In reduced row echelon form, but that rows may be zero and in any order *)
ReducedForm(rows, n) ==
  \A i \in 1..n :
    /\ rows[i] \in RowsOn(RightCols)
    /\ ~Zero(rows[i]) => \A j \in 1..n : rows[j][LeadCol(rows[i])] = IF i = j THEN 1 ELSE 0

LEMMA LeadOfRow ==
  ASSUME NEW v \in RowsOn(RightCols), ~Zero(v)
  PROVE  /\ LeadCol(v) \in RightCols /\ v[LeadCol(v)] # 0
         /\ \A c \in RightCols : c < LeadCol(v) => v[c] = 0
<1>1. DOMAIN v = RightCols /\ RightCols \subseteq Nat
  BY RightRows DEF RowsOn
<1> QED
  BY <1>1, LeadExists

(* What the rows span begins where one of them begins. *)
LEMMA LeadsOfSpan ==
  ASSUME NEW n \in Nat, NEW rows, ReducedForm(rows, n),
         NEW W, LeastSpace(W, {rows[k] : k \in 1..n}, RightCols),
         NEW v \in W, ~Zero(v)
  PROVE  \E k \in 1..n : ~Zero(rows[k]) /\ LeadCol(rows[k]) = LeadCol(v)
<1>1. \A k \in 1..n : rows[k] \in RowsOn(RightCols)
  BY DEF ReducedForm
<1>2. Summands(rows, n, RightCols)
  BY <1>1, ScalarsAreNumbers DEF Summands
<1>3. v \in Vanishing(rows, n)
  <2>1. Subspace(Vanishing(rows, n), RightCols)
    BY <1>2, VanishingIsSpace
  <2>2. \A k \in 1..n : rows[k] \in Vanishing(rows, n)
    BY <1>1, RowsVanish
  <2>3. Holds(Vanishing(rows, n), {rows[k] : k \in 1..n})
    <3>1. \A k \in 1..n : TakeModulus(rows[k]) = rows[k]
      BY <1>1, ScalarsAreNumbers, TakeModulusIs
    <3> QED
      BY <2>2, <3>1 DEF Holds
  <2> QED
    BY <2>1, <2>3 DEF LeastSpace
<1>4. v \in RowsOn(RightCols) /\ v \in SumsOn(RightCols)
  BY <1>3, ScalarsAreNumbers DEF Vanishing
<1>5. PICK t \in [1..n -> Scalar] :
        \A c \in RightCols : Combined(v, t, rows, n, RightCols)[c] % Modulus = 0
  BY <1>3 DEF Vanishing
<1>6. Multiples(t, n)
  BY ScalarsAreNumbers DEF Multiples
<1>7. PICK lead \in RightCols : /\ lead = LeadCol(v) /\ v[lead] # 0
                                /\ \A c \in RightCols : c < lead => v[c] = 0
  BY <1>4, LeadOfRow
<1> SUFFICES ASSUME \A k \in 1..n : ~Zero(rows[k]) => LeadCol(rows[k]) # lead
             PROVE  FALSE
  BY <1>7
<1>8. ASSUME NEW i \in 1..n, ~Zero(rows[i]), LeadCol(rows[i]) < lead
      PROVE  t[i] = 0
  <2>1. PICK c \in RightCols : c = LeadCol(rows[i]) /\ c < lead
    BY <1>1, <1>8, LeadOfRow
  <2>2. \A j \in 1..n : rows[j][c] = IF i = j THEN 1 ELSE 0
    BY <1>8, <2>1 DEF ReducedForm
  <2>3. PICK u \in [1..n -> Scalar] : u[i] = 0 /\ \A k \in 1..n : k # i => t[k] = u[k]
    <3>1. [t EXCEPT ![i] = 0] \in [1..n -> Scalar]
      BY Remainders
    <3> QED
      BY <3>1
  <2>4. Multiples(u, n)
    BY ScalarsAreNumbers DEF Multiples
  <2>5. Combined(v, u, rows, n, RightCols)[c] = v[c]
    <3>1. (\A k \in 1..n : u[k] = 0 \/ rows[k][c] = 0)
            => Combined(v, u, rows, n, RightCols)[c] = v[c]
      BY <1>2, <1>4, <2>4, NoProductAdded
    <3> QED
      BY <2>2, <2>3, <3>1
  <2>6. Combined(v, t, rows, n, RightCols)[c] =
          Combined(v, u, rows, n, RightCols)[c] + t[i] * rows[i][c]
    BY <1>2, <1>4, <1>6, <2>3, <2>4, OneMultipleMore
  <2>7. PICK a \in Scalar : a = t[i] /\ a \in Nat /\ a % Modulus = a
    BY Remainders, ScalarsAreNumbers
  <2>8. Combined(v, t, rows, n, RightCols)[c] = a
    BY <1>7, <2>1, <2>2, <2>5, <2>6, <2>7
  <2> QED
    BY <1>5, <2>7, <2>8
<1>9. ASSUME NEW k \in 1..n
      PROVE  t[k] = 0 \/ rows[k][lead] = 0
  <2>1. CASE Zero(rows[k])
    <3>1. DOMAIN rows[k] = RightCols
      BY <1>1 DEF RowsOn
    <3> QED
      BY <2>1, <3>1 DEF Zero
  <2>2. CASE ~Zero(rows[k])
    <3>1. PICK c \in RightCols : /\ c = LeadCol(rows[k]) /\ c # lead
                                 /\ \A b \in RightCols : b < c => rows[k][b] = 0
      BY <1>1, <2>2, LeadOfRow
    <3>2. c < lead \/ lead < c
      BY <3>1, RightRows
    <3> QED
      BY <1>8, <2>2, <3>1, <3>2
  <2> QED
    BY <2>1, <2>2
<1>10. Combined(v, t, rows, n, RightCols)[lead] = v[lead]
  <2>1. (\A k \in 1..n : t[k] = 0 \/ rows[k][lead] = 0)
          => Combined(v, t, rows, n, RightCols)[lead] = v[lead]
    BY <1>2, <1>4, <1>6, NoProductAdded
  <2> QED
    BY <1>9, <2>1
<1>11. v[lead] % Modulus = v[lead]
  BY <1>4, Entries
<1> QED
  BY <1>5, <1>7, <1>10, <1>11

(* Two forms of one space have the same rows. *)
FormOf(W, rows, n) ==
  ReducedForm(rows, n) /\ LeastSpace(W, {rows[k] : k \in 1..n}, RightCols)

RowsAmong(rows, n, others, m) ==
  \A i \in 1..n : ~Zero(rows[i]) => \E j \in 1..m : ~Zero(others[j]) /\ rows[i] = others[j]

LEMMA FormIsUnique ==
  ASSUME NEW W, NEW n \in Nat, NEW rows, FormOf(W, rows, n),
         NEW m \in Nat, NEW others, FormOf(W, others, m)
  PROVE  RowsAmong(rows, n, others, m)
<1> SUFFICES ASSUME NEW i \in 1..n, ~Zero(rows[i])
             PROVE  \E j \in 1..m : ~Zero(others[j]) /\ rows[i] = others[j]
  BY DEF RowsAmong
<1> USE DEF FormOf
<1>1. /\ \A k \in 1..n : rows[k] \in RowsOn(RightCols)
      /\ \A k \in 1..m : others[k] \in RowsOn(RightCols)
  BY DEF ReducedForm
<1>2. \A x \in RowsOn(RightCols) : TakeModulus(x) = x
  BY TakeModulusIs, ScalarsAreNumbers
<1>3. /\ \A k \in 1..n : rows[k] \in W
      /\ \A k \in 1..m : others[k] \in W
  <2>1. Holds(W, {rows[k] : k \in 1..n}) /\ Holds(W, {others[k] : k \in 1..m})
    BY DEF LeastSpace
  <2> QED
    BY <1>1, <1>2, <2>1 DEF Holds
<1>4. PICK r \in RowsOn(RightCols) : r = rows[i] /\ r \in W /\ r \in SumsOn(RightCols)
  BY <1>1, <1>3, ScalarsAreNumbers
<1>5. PICK j \in 1..m : ~Zero(others[j]) /\ LeadCol(others[j]) = LeadCol(r)
  BY <1>4, LeadsOfSpan
<1>6. PICK s \in RowsOn(RightCols) : s = others[j] /\ s \in W /\ s \in SumsOn(RightCols)
  BY <1>1, <1>3, ScalarsAreNumbers
<1>7. PICK c \in RightCols : c = LeadCol(r) /\ c = LeadCol(s)
  BY <1>4, <1>5, <1>6, LeadOfRow
<1>8. r[c] = 1 /\ s[c] = 1
  BY <1>4, <1>5, <1>6, <1>7 DEF ReducedForm
<1>9. PICK a \in Scalar : a = Modulus - 1 /\ a \in Nat /\ Modulus \in Nat /\ 0 \in Nat
  BY Remainders DEF Scalar
<1>10. PICK d \in RowsOn(RightCols) :
         d = ReducedBy(r, a, s) /\ \A b \in RightCols : d[b] = Plus(r[b], a, s[b])
  <2>1. /\ ReducedBy(r, a, s) \in RowsOn(RightCols)
        /\ \A b \in RightCols : ReducedBy(r, a, s)[b] = Plus(r[b], a, s[b])
    BY <1>4, <1>6, <1>9, ReducedByIs
  <2> QED
    BY <2>1
<1>11. d \in W
  <2>1. Subspace(W, RightCols)
    BY DEF LeastSpace
  <2> QED
    BY <1>4, <1>6, <1>10, <2>1 DEF Subspace
<1>12. Zero(d)
  <2>1. SUFFICES ASSUME ~Zero(d)
                 PROVE  FALSE
    OBVIOUS
  <2>2. PICK b \in RightCols : b = LeadCol(d) /\ d[b] # 0
    BY <2>1, LeadOfRow
  <2>3. PICK k \in 1..n : ~Zero(rows[k]) /\ LeadCol(rows[k]) = b
    BY <1>11, <2>1, <2>2, LeadsOfSpan
  <2>4. PICK l \in 1..m : ~Zero(others[l]) /\ LeadCol(others[l]) = b
    BY <1>11, <2>1, <2>2, LeadsOfSpan
  <2>5. r[b] = IF k = i THEN 1 ELSE 0
    BY <1>4, <2>3 DEF ReducedForm
  <2>6. s[b] = IF l = j THEN 1 ELSE 0
    BY <1>6, <2>4 DEF ReducedForm
  <2>7. CASE b = c
    <3>1. Plus(1, a, 1) = 0
      <4>1. 1 + a * 1 = 0 + 1 * Modulus
        BY <1>9
      <4>2. (1 + a * 1) % Modulus = 0 % Modulus
        <5>1. 1 + a * 1 \in Nat
          BY <1>9
        <5> QED
          BY <1>9, <4>1, <5>1, SameRemainder
      <4> QED
        BY <4>2, Remainders DEF Plus
    <3> QED
      BY <1>8, <1>10, <2>2, <2>7, <3>1
  <2>8. CASE b # c
    <3>1. k # i /\ l # j
      BY <1>4, <1>6, <1>7, <2>3, <2>4, <2>8
    <3>2. Plus(0, a, 0) = 0
      BY <1>9, Remainders DEF Plus
    <3> QED
      BY <1>10, <2>2, <2>5, <2>6, <3>1, <3>2
  <2> QED
    BY <2>7, <2>8
<1>13. ASSUME NEW b \in RightCols
       PROVE  r[b] = s[b]
  <2>1. d[b] = 0
    <3>1. DOMAIN d = RightCols
      BY DEF RowsOn
    <3> QED
      BY <1>12, <3>1 DEF Zero
  <2>2. PICK x \in Nat, y \in Nat : x = r[b] /\ y = s[b] /\ x % Modulus = x /\ y % Modulus = y
    BY Entries
  <2>3. Plus(Plus(x, a, y), Opposite(a), y) = x % Modulus
    BY <2>2, SumTakenBack
  <2>4. Opposite(a) = 1
    <3>1. Modulus - a = 1
      BY <1>9
    <3> QED
      BY <3>1, Remainders DEF Opposite
  <2>5. Plus(x, a, y) = 0
    BY <1>10, <2>1, <2>2
  <2>6. Plus(0, 1, y) = y % Modulus
    BY <2>2 DEF Plus
  <2> QED
    BY <2>2, <2>3, <2>4, <2>5, <2>6
<1>14. r = s
  BY <1>13, RowsEqual
<1> QED
  BY <1>4, <1>5, <1>6, <1>14

-----------------------------------------------------------------------------
(* Shrawan's algorithm: one row *)

(* A row that is reduced by one that begins in column c *)
LEMMA ColumnReduced ==
  ASSUME NEW d \in RowsOn(RightCols), NEW c \in RightCols, NEW pivot \in RowsOn(RightCols),
         BeginsIn(pivot, c)
  PROVE  \E e \in RowsOn(RightCols) :
           /\ e = ReducedBy(d, Negative(d[c]), pivot)
           /\ e[c] = 0
           /\ \A b \in RightCols : pivot[b] = 0 => e[b] = d[b]
           /\ \A V : Subspace(V, RightCols) /\ pivot \in V => (e \in V <=> d \in V)
<1>1. PICK x \in Scalar : x = d[c] /\ x \in Nat /\ x % Modulus = x /\ 0 \in Nat /\ 1 \in Nat
  BY Entries
<1>2. PICK a \in Scalar : a = Negative(d[c]) /\ a = Opposite(x) /\ a \in Nat
  <2>1. Negative(d[c]) = Opposite(x)
    BY <1>1 DEF Negative, Opposite
  <2>2. Opposite(x) \in Scalar
    BY <1>1, SumTakenBack
  <2> QED
    BY <2>1, <2>2, ScalarsAreNumbers
<1>3. d \in SumsOn(RightCols) /\ pivot \in SumsOn(RightCols)
  BY ScalarsAreNumbers
<1>4. PICK e \in RowsOn(RightCols) :
        e = ReducedBy(d, a, pivot) /\ \A b \in RightCols : e[b] = Plus(d[b], a, pivot[b])
  <2>1. /\ ReducedBy(d, a, pivot) \in RowsOn(RightCols)
        /\ \A b \in RightCols : ReducedBy(d, a, pivot)[b] = Plus(d[b], a, pivot[b])
    BY <1>2, <1>3, ReducedByIs
  <2> QED
    BY <2>1
<1>5. e[c] = 0
  <2>1. Plus(Plus(0, x, 1), Opposite(x), 1) = 0 % Modulus
    BY <1>1, SumTakenBack
  <2>2. Plus(0, x, 1) = x
    BY <1>1 DEF Plus
  <2>3. pivot[c] = 1
    BY DEF BeginsIn
  <2> QED
    BY <1>1, <1>2, <1>4, <2>1, <2>2, <2>3, Remainders
<1>6. ASSUME NEW b \in RightCols, pivot[b] = 0
      PROVE  e[b] = d[b]
  <2>1. PICK y \in Nat : y = d[b] /\ y % Modulus = y
    BY Entries
  <2>2. Plus(y, a, 0) = y
    <3>1. y + a * 0 = y
      BY <1>2
    <3> QED
      BY <2>1, <3>1 DEF Plus
  <2> QED
    BY <1>4, <1>6, <2>1, <2>2
<1>7. ASSUME NEW V, Subspace(V, RightCols), pivot \in V
      PROVE  e \in V <=> d \in V
  <2>1. ReducedBy(d, a, pivot) \in V <=> d \in V
    BY <1>7, SpaceClosed
  <2> QED
    BY <1>4, <2>1
<1> QED
  BY <1>2, <1>4, <1>5, <1>6, <1>7

(* What the algorithm knows of its matrix *)
PivotsOf(s, n) ==
  /\ s.rows \in [1..n -> RowsOn(RightCols)]
  /\ s.pivots \in [RightCols -> 0..n]
  /\ \A c \in RightCols : s.pivots[c] # 0 => BeginsIn(s.rows[s.pivots[c]], c)

LEMMA PivotOf ==
  ASSUME NEW n \in Nat, NEW s, PivotsOf(s, n), NEW c \in RightCols, s.pivots[c] # 0
  PROVE  /\ s.pivots[c] \in 1..n
         /\ s.rows[s.pivots[c]] \in RowsOn(RightCols) /\ BeginsIn(s.rows[s.pivots[c]], c)
         /\ LeadCol(s.rows[s.pivots[c]]) = c /\ ~Zero(s.rows[s.pivots[c]])
<1>1. PICK i \in 1..n : i = s.pivots[c]
  BY DEF PivotsOf
<1>2. s.rows[i] \in RowsOn(RightCols) /\ BeginsIn(s.rows[i], c)
  BY <1>1 DEF PivotsOf
<1>3. DOMAIN s.rows[i] \subseteq Nat
  BY <1>2, RightRows DEF RowsOn
<1>4. LeadCol(s.rows[i]) = c /\ ~Zero(s.rows[i])
  BY <1>2, <1>3, LeadIs
<1> QED
  BY <1>1, <1>2, <1>4

(* A space has the rows of the pivots of the columns after lead. *)
HoldsPivots(V, s, lead) ==
  \A c \in RightCols : c > lead /\ s.pivots[c] # 0 => s.rows[s.pivots[c]] \in V

Stuck(s, d) == ~Zero(d) /\ s.pivots[LeadCol(d)] = 0

ReducedCol(s, d, c) ==
  IF Stuck(s, d) \/ d[c] = 0 THEN d ELSE ReducedBy(d, Negative(d[c]), s.rows[s.pivots[c]])

ReducedToLead(s, row) ==
  Folded([k \in 1..Right |-> [d \in [RightCols -> Scalar] |-> ReducedCol(s, d, k - 1)]],
         s.rows[row], Right)

LEMMA ToLead ==
  ASSUME NEW n \in Nat, NEW s, PivotsOf(s, n), NEW row \in 1..n
  PROVE  \E e \in RowsOn(RightCols) :
           /\ e = ReducedToLead(s, row)
           /\ Zero(e) \/ Stuck(s, e)
           /\ \A V : Subspace(V, RightCols) /\ HoldsPivots(V, s, -1) =>
                (e \in V <=> s.rows[row] \in V)
<1> DEFINE step == [k \in 1..Right |-> [d \in RowsOn(RightCols) |-> ReducedCol(s, d, k - 1)]]
<1>1. ReducedToLead(s, row) = Folded(step, s.rows[row], Right)
  BY DEF ReducedToLead, RowsOn
<1>2. Right \in Nat /\ RightCols = 0..Right - 1 /\ s.rows[row] \in RowsOn(RightCols)
  BY RightRows DEF PivotsOf
<1>3. \A k \in 1..Right : \A d \in RowsOn(RightCols) : step[k][d] = ReducedCol(s, d, k - 1)
  OBVIOUS
<1> HIDE DEF step
<1>4. PICK after :
        /\ after[0] = s.rows[row]
        /\ \A k \in 1..Right : after[k] = step[k][after[k - 1]]
        /\ Folded(step, s.rows[row], Right) = after[Right]
  <2>1. Right \in Nat
    BY <1>2
  <2> QED
    BY <2>1, LoopTurns
<1> DEFINE Same(e) == \A V : Subspace(V, RightCols) /\ HoldsPivots(V, s, -1) =>
                        (e \in V <=> s.rows[row] \in V)
           T == {k \in 0..Right : /\ after[k] \in RowsOn(RightCols)
                                  /\ Stuck(s, after[k])
                                       \/ \A c \in RightCols : c < k => after[k][c] = 0
                                  /\ Same(after[k])}
<1>5. 0 \in T
  BY <1>2, <1>4
<1>6. ASSUME NEW k \in 1..Right, k - 1 \in T
      PROVE  k \in T
  <2>1. PICK d \in RowsOn(RightCols) :
          /\ d = after[k - 1]
          /\ Stuck(s, d) \/ \A c \in RightCols : c < k - 1 => d[c] = 0
          /\ Same(d)
    BY <1>6
  <2>2. PICK col \in RightCols : col = k - 1 /\ \A c \in RightCols : c < k <=> c < col \/ c = col
    <3>1. k - 1 \in RightCols
      BY <1>2
    <3>2. \A c \in RightCols : c < k <=> c < k - 1 \/ c = k - 1
      BY <1>2
    <3> QED
      BY <3>1, <3>2
  <2>3. after[k] = ReducedCol(s, d, col)
    BY <1>3, <1>4, <2>1, <2>2
  <2> HIDE DEF Same
  <2>4. CASE Stuck(s, d)
    BY <2>1, <2>3, <2>4 DEF ReducedCol
  <2>5. CASE ~Stuck(s, d) /\ d[col] = 0
    <3>1. after[k] = d
      BY <2>3, <2>5 DEF ReducedCol
    <3>2. \A c \in RightCols : c < k => d[c] = 0
      BY <2>1, <2>2, <2>5
    <3> QED
      BY <2>1, <3>1, <3>2
  <2>6. CASE ~Stuck(s, d) /\ d[col] # 0
    <3>1. ~Zero(d)
      BY <2>6 DEF Zero, RowsOn
    <3>2. PICK lead \in RightCols : /\ lead = LeadCol(d) /\ d[lead] # 0
                                    /\ \A c \in RightCols : c < lead => d[c] = 0
      BY <3>1, LeadOfRow
    <3>3. lead = col
      <4>1. ~(lead < col)
        BY <2>1, <2>2, <2>6, <3>2
      <4>2. ~(col < lead)
        BY <2>6, <3>2
      <4> QED
        BY <4>1, <4>2, RightRows
    <3>4. s.pivots[col] # 0
      BY <2>6, <3>1, <3>2, <3>3 DEF Stuck
    <3>5. PICK pivot \in RowsOn(RightCols) : pivot = s.rows[s.pivots[col]] /\ BeginsIn(pivot, col)
      BY <3>4, PivotOf
    <3>6. PICK e \in RowsOn(RightCols) :
            /\ e = ReducedBy(d, Negative(d[col]), pivot)
            /\ e[col] = 0
            /\ \A b \in RightCols : pivot[b] = 0 => e[b] = d[b]
            /\ \A V : Subspace(V, RightCols) /\ pivot \in V => (e \in V <=> d \in V)
      BY <3>5, ColumnReduced
    <3>7. after[k] = e
      BY <2>3, <2>6, <3>5, <3>6 DEF ReducedCol
    <3>8. ASSUME NEW c \in RightCols, c < k
          PROVE  e[c] = 0
      <4>1. CASE c = col
        BY <3>6, <4>1
      <4>2. CASE c < col
        <5>1. pivot[c] = 0
          BY <3>5, <4>2 DEF BeginsIn, RowsOn
        <5> QED
          BY <3>2, <3>3, <3>6, <4>2, <5>1
      <4> QED
        BY <2>2, <3>8, <4>1, <4>2
    <3>9. ASSUME NEW V, Subspace(V, RightCols), HoldsPivots(V, s, -1)
          PROVE  e \in V <=> s.rows[row] \in V
      <4>1. pivot \in V
        <5>1. col > -1
          BY RightRows
        <5> QED
          BY <3>4, <3>5, <3>9, <5>1 DEF HoldsPivots
      <4> QED
        BY <2>1, <3>6, <3>9, <4>1 DEF Same
    <3> QED
      BY <3>7, <3>8, <3>9 DEF Same
  <2> QED
    BY <2>4, <2>5, <2>6
<1>7. Right \in T
  <2>1. 0..Right \subseteq T
    <3> HIDE DEF T
    <3> QED
      BY <1>2, <1>5, <1>6, EachTurn
  <2> QED
    BY <1>2, <2>1
<1>8. PICK e \in RowsOn(RightCols) :
        /\ e = after[Right]
        /\ Stuck(s, e) \/ \A c \in RightCols : c < Right => e[c] = 0
        /\ Same(e)
  BY <1>7
<1>9. Zero(e) \/ Stuck(s, e)
  <2>1. \A c \in RightCols : c < Right
    BY <1>2
  <2>2. DOMAIN e = RightCols
    BY DEF RowsOn
  <2> QED
    BY <1>8, <2>1, <2>2 DEF Zero
<1> QED
  BY <1>1, <1>4, <1>8, <1>9

(* A row that is made unitary *)
LEMMA UnitaryBegins ==
  ASSUME NEW d \in RowsOn(RightCols), ~Zero(d)
  PROVE  \E u \in RowsOn(RightCols) :
           /\ u = MakeUnitary(d, LeadCol(d))
           /\ BeginsIn(u, LeadCol(d))
           /\ \A V : Subspace(V, RightCols) => (u \in V <=> d \in V)
<1>1. PICK lead \in RightCols : /\ lead = LeadCol(d) /\ d[lead] # 0
                                /\ \A c \in RightCols : c < lead => d[c] = 0
  BY LeadOfRow
<1>2. \A c \in RightCols : d[c] % Modulus = d[c] /\ d[c] \in Scalar
  BY Entries
<1>3. d \in DenseRow /\ d[lead] % Modulus # 0
  BY <1>1, <1>2, RightRows, ScalarsAreNumbers
<1>4. PICK u \in DenseRow : /\ u = MakeUnitary(d, lead) /\ u[lead] = 1
                            /\ \A c \in RightCols : /\ c < lead => u[c] = d[c]
                                                    /\ c >= lead => u[c] \in Scalar
  <2>1. /\ MakeUnitary(d, lead) \in DenseRow
        /\ MakeUnitary(d, lead)[lead] = 1
        /\ \A c \in RightCols : /\ c < lead => MakeUnitary(d, lead)[c] = d[c]
                                /\ c >= lead => MakeUnitary(d, lead)[c] \in Scalar
    BY <1>3, MadeUnitary
  <2> QED
    BY <2>1
<1>5. u \in RowsOn(RightCols)
  <2>1. \A c \in RightCols : u[c] \in Scalar
    <3>1. \A c \in RightCols : c < lead \/ c >= lead
      BY RightRows
    <3> QED
      BY <1>2, <1>4, <3>1
  <2> QED
    BY <2>1 DEF RowsOn, DenseRow
<1>6. BeginsIn(u, lead)
  <2>1. DOMAIN u = RightCols
    BY DEF DenseRow
  <2> QED
    BY <1>1, <1>4, <2>1 DEF BeginsIn
<1>7. ASSUME NEW V, Subspace(V, RightCols)
      PROVE  u \in V <=> d \in V
  <2>1. \A c \in RightCols : c < lead => d[c] % Modulus = 0
    BY <1>1, Remainders
  <2>2. TakeModulus(MakeUnitary(d, lead)) \in V <=> TakeModulus(d) \in V
    BY <1>3, <1>7, <2>1, UnitaryKeepsSpace
  <2>3. TakeModulus(u) = u /\ TakeModulus(d) = d
    BY <1>5, TakeModulusIs, ScalarsAreNumbers
  <2> QED
    BY <1>4, <2>2, <2>3
<1> QED
  BY <1>1, <1>4, <1>5, <1>6, <1>7

States(n) == [rows : [1..n -> RowsOn(RightCols)], pivots : [RightCols -> 0..n]]

(* The same spaces hold the rows of either. *)
SameSpaces(rows, others, n) ==
  \A V : Subspace(V, RightCols) =>
    ((\A r \in 1..n : rows[r] \in V) <=> (\A r \in 1..n : others[r] \in V))

LEMMA OneRowChanged ==
  ASSUME NEW n \in Nat, NEW rows, NEW row \in 1..n, NEW new, NEW others,
         SameSpaces(rows, others, n),
         \A r \in 1..n : r # row => new[r] = rows[r],
         \A V : Subspace(V, RightCols) /\ (\A r \in 1..n : r # row => rows[r] \in V) =>
           (new[row] \in V <=> rows[row] \in V)
  PROVE  SameSpaces(new, others, n)
<1> SUFFICES ASSUME NEW V, Subspace(V, RightCols)
             PROVE  (\A r \in 1..n : new[r] \in V) <=> (\A r \in 1..n : others[r] \in V)
  BY DEF SameSpaces
<1>1. (\A r \in 1..n : rows[r] \in V) <=> (\A r \in 1..n : others[r] \in V)
  BY DEF SameSpaces
<1>2. (\A r \in 1..n : new[r] \in V) <=> (\A r \in 1..n : rows[r] \in V)
  OBVIOUS
<1> QED
  BY <1>1, <1>2

(* After the first j rows *)
EchelonSoFar(s, j, m, n) ==
  /\ PivotsOf(s, n)
  /\ \A c \in RightCols : s.pivots[c] <= j
  /\ \A r \in 1..j : Zero(s.rows[r]) \/ \E c \in RightCols : s.pivots[c] = r
  /\ SameSpaces(s.rows, m, n)

LEMMA ReduceRowIs ==
  ASSUME NEW s, NEW row
  PROVE  ShrawanReduceRow(s, row) =
           LET e == ReducedToLead(s, row)
           IN  IF Zero(e) THEN [s EXCEPT !.rows[row] = e]
               ELSE [s EXCEPT !.rows[row] = MakeUnitary(e, LeadCol(e)),
                              !.pivots[LeadCol(e)] = row]
  BY DEF ShrawanReduceRow, ReducedToLead, ReducedCol, Stuck

LEMMA RowReducedByPivots ==
  ASSUME NEW n \in Nat, NEW m, NEW j \in 1..n, NEW s \in States(n), EchelonSoFar(s, j - 1, m, n)
  PROVE  /\ ShrawanReduceRow(s, j) \in States(n)
         /\ EchelonSoFar(ShrawanReduceRow(s, j), j, m, n)
<1>1. PICK rows \in [1..n -> RowsOn(RightCols)], pivots \in [RightCols -> 0..n] :
        s = [rows |-> rows, pivots |-> pivots]
  BY DEF States
<1>2. /\ PivotsOf(s, n) /\ SameSpaces(rows, m, n)
      /\ \A c \in RightCols : pivots[c] # 0 => pivots[c] \in 1..j - 1
      /\ \A r \in 1..j - 1 : Zero(rows[r]) \/ \E c \in RightCols : pivots[c] = r
  <2>1. \A c \in RightCols : pivots[c] \in 0..n /\ pivots[c] <= j - 1
    BY <1>1 DEF EchelonSoFar
  <2> QED
    BY <1>1, <2>1 DEF EchelonSoFar
<1>3. PICK e \in RowsOn(RightCols) :
        /\ e = ReducedToLead(s, j)
        /\ Zero(e) \/ Stuck(s, e)
        /\ \A V : Subspace(V, RightCols) /\ HoldsPivots(V, s, -1) =>
             (e \in V <=> rows[j] \in V)
  <2>1. PivotsOf(s, n)
    BY <1>2
  <2>2. s.rows[j] = rows[j]
    BY <1>1
  <2> QED
    BY <2>1, <2>2, ToLead
<1>4. ASSUME NEW V, \A r \in 1..n : r # j => rows[r] \in V
      PROVE  HoldsPivots(V, s, -1)
  BY <1>1, <1>2, <1>4 DEF HoldsPivots
<1>5. ASSUME NEW u \in RowsOn(RightCols), NEW new \in [1..n -> RowsOn(RightCols)],
             new = [rows EXCEPT ![j] = u],
             \A V : Subspace(V, RightCols) => (u \in V <=> e \in V)
      PROVE  SameSpaces(new, m, n)
  <2>1. new[j] = u /\ \A r \in 1..n : r # j => new[r] = rows[r]
    BY <1>5
  <2>2. \A V : Subspace(V, RightCols) /\ (\A r \in 1..n : r # j => rows[r] \in V) =>
          (new[j] \in V <=> rows[j] \in V)
    BY <1>3, <1>4, <1>5, <2>1
  <2> QED
    BY <1>2, <2>1, <2>2, OneRowChanged
<1>6. CASE Zero(e)
  <2>1. PICK new \in [1..n -> RowsOn(RightCols)] : new = [rows EXCEPT ![j] = e]
    OBVIOUS
  <2>2. ShrawanReduceRow(s, j) = [rows |-> new, pivots |-> pivots]
    <3>1. ShrawanReduceRow(s, j) = [s EXCEPT !.rows[j] = e]
      BY <1>3, <1>6, ReduceRowIs
    <3> QED
      BY <1>1, <2>1, <3>1
  <2>3. SameSpaces(new, m, n)
    BY <1>5, <2>1
  <2>4. PICK s1 \in States(n) : s1 = [rows |-> new, pivots |-> pivots]
    BY DEF States
  <2>5. PivotsOf(s1, n)
    <3>1. \A c \in RightCols : pivots[c] # 0 => BeginsIn(rows[pivots[c]], c)
      BY <1>1, <1>2 DEF PivotsOf
    <3>2. \A c \in RightCols : pivots[c] # 0 => new[pivots[c]] = rows[pivots[c]]
      BY <1>2, <2>1
    <3> QED
      BY <2>4, <3>1, <3>2 DEF PivotsOf
  <2>6. \A c \in RightCols : pivots[c] <= j
    <3>1. \A c \in RightCols : pivots[c] \in 0..n /\ (pivots[c] # 0 => pivots[c] \in 1..j - 1)
      BY <1>2
    <3> QED
      BY <3>1
  <2>7. ASSUME NEW r \in 1..j
        PROVE  Zero(new[r]) \/ \E c \in RightCols : pivots[c] = r
    <3>1. CASE r = j
      BY <1>6, <2>1, <3>1
    <3>2. CASE r # j
      <4>1. r \in 1..j - 1 /\ r \in 1..n /\ new[r] = rows[r]
        BY <2>1, <3>2
      <4> QED
        BY <1>2, <4>1
    <3> QED
      BY <3>1, <3>2
  <2>8. EchelonSoFar(s1, j, m, n)
    BY <2>3, <2>4, <2>5, <2>6, <2>7 DEF EchelonSoFar
  <2> QED
    BY <2>2, <2>4, <2>8
<1>7. CASE ~Zero(e)
  <2>1. PICK lead \in RightCols : lead = LeadCol(e) /\ pivots[lead] = 0
    BY <1>1, <1>3, <1>7, LeadOfRow DEF Stuck
  <2>2. PICK u \in RowsOn(RightCols) :
          /\ u = MakeUnitary(e, lead)
          /\ BeginsIn(u, lead)
          /\ \A V : Subspace(V, RightCols) => (u \in V <=> e \in V)
    BY <1>7, <2>1, UnitaryBegins
  <2>3. PICK new \in [1..n -> RowsOn(RightCols)] : new = [rows EXCEPT ![j] = u]
    OBVIOUS
  <2>4. PICK found \in [RightCols -> 0..n] : found = [pivots EXCEPT ![lead] = j]
    <3>1. j \in 0..n
      OBVIOUS
    <3> QED
      BY <3>1
  <2>5. ShrawanReduceRow(s, j) = [rows |-> new, pivots |-> found]
    <3>1. ShrawanReduceRow(s, j) = [s EXCEPT !.rows[j] = u, !.pivots[lead] = j]
      BY <1>3, <1>7, <2>1, <2>2, ReduceRowIs
    <3> QED
      BY <1>1, <2>3, <2>4, <3>1
  <2>6. SameSpaces(new, m, n)
    BY <1>5, <2>2, <2>3
  <2>7. PICK s1 \in States(n) : s1 = [rows |-> new, pivots |-> found]
    BY DEF States
  <2>8. \A c \in RightCols : found[c] = IF c = lead THEN j ELSE pivots[c]
    BY <2>4
  <2>9. PivotsOf(s1, n)
    <3>1. \A c \in RightCols : pivots[c] # 0 => BeginsIn(rows[pivots[c]], c)
      BY <1>1, <1>2 DEF PivotsOf
    <3>2. \A c \in RightCols : pivots[c] # 0 => new[pivots[c]] = rows[pivots[c]]
      BY <1>2, <2>3
    <3>3. BeginsIn(new[j], lead)
      BY <2>2, <2>3
    <3>4. \A c \in RightCols : found[c] # 0 => BeginsIn(new[found[c]], c)
      BY <2>8, <3>1, <3>2, <3>3
    <3> QED
      BY <2>7, <3>4 DEF PivotsOf
  <2>10. \A c \in RightCols : found[c] <= j
    <3>1. \A c \in RightCols : pivots[c] \in 0..n /\ (pivots[c] # 0 => pivots[c] \in 1..j - 1)
      BY <1>2
    <3> QED
      BY <2>8, <3>1
  <2>11. ASSUME NEW r \in 1..j
         PROVE  Zero(new[r]) \/ \E c \in RightCols : found[c] = r
    <3>1. CASE r = j
      BY <2>8, <3>1
    <3>2. CASE r # j
      <4>1. r \in 1..j - 1 /\ r \in 1..n /\ new[r] = rows[r]
        BY <2>3, <3>2
      <4>2. \A c \in RightCols : pivots[c] = r => found[c] = r
        BY <2>1, <2>8, <4>1
      <4> QED
        BY <1>2, <4>1, <4>2
    <3> QED
      BY <3>1, <3>2
  <2>12. EchelonSoFar(s1, j, m, n)
    BY <2>6, <2>7, <2>9, <2>10, <2>11 DEF EchelonSoFar
  <2> QED
    BY <2>5, <2>7, <2>12
<1> QED
  BY <1>6, <1>7

-----------------------------------------------------------------------------
(* Shrawan's algorithm: back reduction *)

BackReducedCol(s, lead, d, c) ==
  IF c <= lead \/ s.pivots[c] = 0 THEN d ELSE ReducedBy(d, Negative(d[c]), s.rows[s.pivots[c]])

BackReduced(s, row, lead) ==
  Folded([k \in 1..Right |-> [d \in [RightCols -> Scalar] |-> BackReducedCol(s, lead, d, k - 1)]],
         s.rows[row], Right)

LEMMA BackToLead ==
  ASSUME NEW n \in Nat, NEW s, PivotsOf(s, n), NEW row \in 1..n, NEW lead \in RightCols,
         BeginsIn(s.rows[row], lead)
  PROVE  \E e \in RowsOn(RightCols) :
           /\ e = BackReduced(s, row, lead)
           /\ BeginsIn(e, lead)
           /\ \A c \in RightCols : c > lead /\ s.pivots[c] # 0 => e[c] = 0
           /\ \A V : Subspace(V, RightCols) /\ HoldsPivots(V, s, lead) =>
                (e \in V <=> s.rows[row] \in V)
<1> DEFINE step == [k \in 1..Right |->
                      [d \in RowsOn(RightCols) |-> BackReducedCol(s, lead, d, k - 1)]]
<1>1. BackReduced(s, row, lead) = Folded(step, s.rows[row], Right)
  BY DEF BackReduced, RowsOn
<1>2. Right \in Nat /\ RightCols = 0..Right - 1 /\ s.rows[row] \in RowsOn(RightCols)
  BY RightRows DEF PivotsOf
<1>3. \A k \in 1..Right : \A d \in RowsOn(RightCols) :
        step[k][d] = BackReducedCol(s, lead, d, k - 1)
  OBVIOUS
<1> HIDE DEF step
<1>4. PICK after :
        /\ after[0] = s.rows[row]
        /\ \A k \in 1..Right : after[k] = step[k][after[k - 1]]
        /\ Folded(step, s.rows[row], Right) = after[Right]
  <2>1. Right \in Nat
    BY <1>2
  <2> QED
    BY <2>1, LoopTurns
<1> DEFINE Same(e) == \A V : Subspace(V, RightCols) /\ HoldsPivots(V, s, lead) =>
                        (e \in V <=> s.rows[row] \in V)
           T == {k \in 0..Right : /\ after[k] \in RowsOn(RightCols)
                                  /\ BeginsIn(after[k], lead)
                                  /\ \A c \in RightCols : c < k /\ c > lead /\ s.pivots[c] # 0
                                       => after[k][c] = 0
                                  /\ Same(after[k])}
<1>5. 0 \in T
  BY <1>2, <1>4
<1>6. ASSUME NEW k \in 1..Right, k - 1 \in T
      PROVE  k \in T
  <2>1. PICK d \in RowsOn(RightCols) :
          /\ d = after[k - 1]
          /\ BeginsIn(d, lead)
          /\ \A c \in RightCols : c < k - 1 /\ c > lead /\ s.pivots[c] # 0 => d[c] = 0
          /\ Same(d)
    BY <1>6
  <2>2. PICK col \in RightCols : col = k - 1 /\ \A c \in RightCols : c < k <=> c < col \/ c = col
    <3>1. k - 1 \in RightCols
      BY <1>2
    <3>2. \A c \in RightCols : c < k <=> c < k - 1 \/ c = k - 1
      BY <1>2
    <3> QED
      BY <3>1, <3>2
  <2>3. after[k] = BackReducedCol(s, lead, d, col)
    BY <1>3, <1>4, <2>1, <2>2
  <2> HIDE DEF Same
  <2>4. CASE col <= lead \/ s.pivots[col] = 0
    <3>1. after[k] = d
      BY <2>3, <2>4 DEF BackReducedCol
    <3>2. ASSUME NEW c \in RightCols, c < k, c > lead, s.pivots[c] # 0
          PROVE  d[c] = 0
      <4>1. ~(c <= lead) /\ c # col
        BY <2>4, <3>2, RightRows
      <4> QED
        BY <2>1, <2>2, <3>2, <4>1
    <3> QED
      BY <2>1, <3>1, <3>2
  <2>5. CASE ~(col <= lead) /\ s.pivots[col] # 0
    <3>1. col > lead
      BY <2>5, RightRows
    <3>2. PICK pivot \in RowsOn(RightCols) : pivot = s.rows[s.pivots[col]] /\ BeginsIn(pivot, col)
      BY <2>5, PivotOf
    <3>3. PICK e \in RowsOn(RightCols) :
            /\ e = ReducedBy(d, Negative(d[col]), pivot)
            /\ e[col] = 0
            /\ \A b \in RightCols : pivot[b] = 0 => e[b] = d[b]
            /\ \A V : Subspace(V, RightCols) /\ pivot \in V => (e \in V <=> d \in V)
      BY <3>2, ColumnReduced
    <3>4. after[k] = e
      BY <2>3, <2>5, <3>2, <3>3 DEF BackReducedCol
    <3>5. \A b \in RightCols : b < col => e[b] = d[b]
      <4>1. \A b \in RightCols : b < col => pivot[b] = 0
        BY <3>2 DEF BeginsIn, RowsOn
      <4> QED
        BY <3>3, <4>1
    <3>6. BeginsIn(e, lead)
      <4>1. DOMAIN e = RightCols /\ DOMAIN d = RightCols
        BY DEF RowsOn
      <4>2. lead < col /\ \A c \in RightCols : c < lead => c < col
        BY <3>1, RightRows
      <4>3. d[lead] = 1 /\ \A c \in RightCols : c < lead => d[c] = 0
        BY <2>1, <4>1 DEF BeginsIn
      <4> QED
        BY <3>5, <4>1, <4>2, <4>3 DEF BeginsIn
    <3>7. ASSUME NEW c \in RightCols, c < k, c > lead, s.pivots[c] # 0
          PROVE  e[c] = 0
      <4>1. CASE c = col
        BY <3>3, <4>1
      <4>2. CASE c < col
        BY <2>1, <2>2, <3>5, <3>7, <4>2
      <4> QED
        BY <2>2, <3>7, <4>1, <4>2
    <3>8. ASSUME NEW V, Subspace(V, RightCols), HoldsPivots(V, s, lead)
          PROVE  e \in V <=> s.rows[row] \in V
      <4>1. pivot \in V
        BY <2>5, <3>1, <3>2, <3>8 DEF HoldsPivots
      <4> QED
        BY <2>1, <3>3, <3>8, <4>1 DEF Same
    <3> QED
      BY <3>4, <3>6, <3>7, <3>8 DEF Same
  <2> QED
    BY <2>4, <2>5
<1>7. Right \in T
  <2>1. 0..Right \subseteq T
    <3> HIDE DEF T
    <3> QED
      BY <1>2, <1>5, <1>6, EachTurn
  <2> QED
    BY <1>2, <2>1
<1>8. PICK e \in RowsOn(RightCols) :
        /\ e = after[Right]
        /\ BeginsIn(e, lead)
        /\ \A c \in RightCols : c < Right /\ c > lead /\ s.pivots[c] # 0 => e[c] = 0
        /\ Same(e)
  BY <1>7
<1>9. \A c \in RightCols : c < Right
  BY <1>2
<1> QED
  BY <1>1, <1>4, <1>8, <1>9

(* After the first j rows *)
FormSoFar(s, j, m, n) ==
  /\ PivotsOf(s, n)
  /\ \A r \in 1..n : Zero(s.rows[r]) \/ \E c \in RightCols : s.pivots[c] = r
  /\ \A r \in 1..j : ~Zero(s.rows[r]) =>
       \A c \in RightCols : s.pivots[c] # 0 /\ c # LeadCol(s.rows[r]) => s.rows[r][c] = 0
  /\ SameSpaces(s.rows, m, n)

LEMMA BackReduceRowIs ==
  ASSUME NEW s, NEW row
  PROVE  ShrawanBackReduceRow(s, row) =
           IF Zero(s.rows[row]) THEN s
           ELSE [s EXCEPT !.rows[row] = BackReduced(s, row, LeadCol(s.rows[row]))]
  BY DEF ShrawanBackReduceRow, BackReduced, BackReducedCol

LEMMA RowBackReduced ==
  ASSUME NEW n \in Nat, NEW m, NEW j \in 1..n, NEW s \in States(n), FormSoFar(s, j - 1, m, n)
  PROVE  /\ ShrawanBackReduceRow(s, j) \in States(n)
         /\ FormSoFar(ShrawanBackReduceRow(s, j), j, m, n)
<1>1. PICK rows \in [1..n -> RowsOn(RightCols)], pivots \in [RightCols -> 0..n] :
        s = [rows |-> rows, pivots |-> pivots]
  BY DEF States
<1>2. /\ PivotsOf(s, n) /\ SameSpaces(rows, m, n)
      /\ \A r \in 1..n : Zero(rows[r]) \/ \E c \in RightCols : pivots[c] = r
      /\ \A r \in 1..j - 1 : ~Zero(rows[r]) =>
           \A c \in RightCols : pivots[c] # 0 /\ c # LeadCol(rows[r]) => rows[r][c] = 0
  BY <1>1 DEF FormSoFar
<1>3. \A r \in 1..j : r # j => r \in 1..j - 1 /\ r \in 1..n
  OBVIOUS
<1>4. CASE Zero(rows[j])
  <2>1. ShrawanBackReduceRow(s, j) = s
    BY <1>1, <1>4, BackReduceRowIs
  <2>2. \A r \in 1..j : ~Zero(rows[r]) =>
          \A c \in RightCols : pivots[c] # 0 /\ c # LeadCol(rows[r]) => rows[r][c] = 0
    BY <1>2, <1>3, <1>4
  <2>3. FormSoFar(s, j, m, n)
    BY <1>1, <1>2, <2>2 DEF FormSoFar
  <2> QED
    BY <2>1, <2>3
<1>5. CASE ~Zero(rows[j])
  <2>1. PICK lead \in RightCols : pivots[lead] = j
    BY <1>2, <1>5
  <2>2. \A c \in RightCols : pivots[c] # 0 =>
          /\ pivots[c] \in 1..n /\ BeginsIn(rows[pivots[c]], c) /\ LeadCol(rows[pivots[c]]) = c
    BY <1>1, <1>2, PivotOf
  <2>3. j # 0 /\ BeginsIn(rows[j], lead) /\ LeadCol(rows[j]) = lead
    BY <2>1, <2>2
  <2>4. \A c \in RightCols : pivots[c] = j => c = lead
    BY <2>2, <2>3
  <2>5. PICK e \in RowsOn(RightCols) :
          /\ e = BackReduced(s, j, lead)
          /\ BeginsIn(e, lead)
          /\ \A c \in RightCols : c > lead /\ pivots[c] # 0 => e[c] = 0
          /\ \A V : Subspace(V, RightCols) /\ HoldsPivots(V, s, lead) =>
               (e \in V <=> rows[j] \in V)
    <3>1. s.rows[j] = rows[j] /\ s.pivots = pivots
      BY <1>1
    <3>2. BeginsIn(s.rows[j], lead)
      BY <2>3, <3>1
    <3>3. PivotsOf(s, n)
      BY <1>2
    <3> QED
      BY <3>1, <3>2, <3>3, BackToLead
  <2>6. PICK new \in [1..n -> RowsOn(RightCols)] :
          new = [rows EXCEPT ![j] = e] /\ new[j] = e /\ \A r \in 1..n : r # j => new[r] = rows[r]
    <3>1. PICK new \in [1..n -> RowsOn(RightCols)] : new = [rows EXCEPT ![j] = e]
      OBVIOUS
    <3>2. new[j] = e /\ \A r \in 1..n : r # j => new[r] = rows[r]
      BY <3>1
    <3> QED
      BY <3>1, <3>2
  <2>7. ShrawanBackReduceRow(s, j) = [rows |-> new, pivots |-> pivots]
    <3>1. s.rows[j] = rows[j]
      BY <1>1
    <3>2. ShrawanBackReduceRow(s, j) = [s EXCEPT !.rows[j] = e]
      BY <1>5, <2>3, <2>5, <3>1, BackReduceRowIs
    <3> QED
      BY <1>1, <2>6, <3>2
  <2>8. PICK s1 \in States(n) : s1 = [rows |-> new, pivots |-> pivots]
    BY DEF States
  <2>9. PivotsOf(s1, n)
    <3>1. \A c \in RightCols : pivots[c] # 0 => BeginsIn(new[pivots[c]], c)
      BY <2>2, <2>4, <2>5, <2>6
    <3> QED
      BY <2>8, <3>1 DEF PivotsOf
  <2>10. \A r \in 1..n : Zero(new[r]) \/ \E c \in RightCols : pivots[c] = r
    BY <1>2, <2>1, <2>6
  <2>11. ASSUME NEW r \in 1..j, ~Zero(new[r]),
                NEW c \in RightCols, pivots[c] # 0, c # LeadCol(new[r])
         PROVE  new[r][c] = 0
    <3>1. CASE r = j
      <4>1. DOMAIN e = RightCols /\ RightCols \subseteq Nat
        BY RightRows DEF RowsOn
      <4>2. LeadCol(e) = lead
        BY <2>5, <4>1, LeadIs
      <4>3. c < lead \/ c > lead
        BY <2>6, <2>11, <3>1, <4>1, <4>2
      <4> QED
        BY <2>5, <2>6, <2>11, <3>1, <4>1, <4>3 DEF BeginsIn
    <3>2. CASE r # j
      BY <1>2, <1>3, <2>6, <2>11, <3>2
    <3> QED
      BY <3>1, <3>2
  <2>12. SameSpaces(new, m, n)
    <3>1. ASSUME NEW V, \A r \in 1..n : r # j => rows[r] \in V
          PROVE  HoldsPivots(V, s, lead)
      <4>1. \A c \in RightCols : c > lead /\ pivots[c] # 0 => pivots[c] \in 1..n /\ pivots[c] # j
        BY <2>2, <2>4, RightRows
      <4>2. \A c \in RightCols : c > lead /\ pivots[c] # 0 => rows[pivots[c]] \in V
        BY <3>1, <4>1
      <4> QED
        BY <1>1, <4>2 DEF HoldsPivots
    <3>2. \A V : Subspace(V, RightCols) /\ (\A r \in 1..n : r # j => rows[r] \in V) =>
            (new[j] \in V <=> rows[j] \in V)
      BY <2>5, <2>6, <3>1
    <3> QED
      BY <1>2, <2>6, <3>2, OneRowChanged
  <2>13. FormSoFar(s1, j, m, n)
    BY <2>8, <2>9, <2>10, <2>11, <2>12 DEF FormSoFar
  <2> QED
    BY <2>7, <2>8, <2>13
<1> QED
  BY <1>4, <1>5

-----------------------------------------------------------------------------
(* Shrawan's algorithm: the whole matrix *)

(* A loop over the rows of a matrix: P(j) is kept by each turn. *)
LEMMA RowsReducedInTurn ==
  ASSUME NEW n \in Nat, NEW m \in [1..n -> RowsOn(RightCols)], NEW start \in States(n),
         EchelonSoFar(start, 0, m, n)
  PROVE  \E end \in States(n) :
           /\ end = Folded([row \in 1..n |-> [s \in States(n) |-> ShrawanReduceRow(s, row)]],
                           start, n)
           /\ EchelonSoFar(end, n, m, n)
<1> DEFINE step == [row \in 1..n |-> [s \in States(n) |-> ShrawanReduceRow(s, row)]]
<1>1. \A k \in 1..n : \A s \in States(n) : step[k][s] = ShrawanReduceRow(s, k)
  OBVIOUS
<1> HIDE DEF step
<1>2. PICK after :
        /\ after[0] = start
        /\ \A k \in 1..n : after[k] = step[k][after[k - 1]]
        /\ Folded(step, start, n) = after[n]
  BY LoopTurns
<1> DEFINE T == {k \in 0..n : after[k] \in States(n) /\ EchelonSoFar(after[k], k, m, n)}
<1>3. 0 \in T
  BY <1>2
<1>4. ASSUME NEW k \in 1..n, k - 1 \in T
      PROVE  k \in T
  <2>1. PICK s \in States(n) : s = after[k - 1] /\ EchelonSoFar(s, k - 1, m, n)
    BY <1>4
  <2>2. after[k] = ShrawanReduceRow(s, k)
    BY <1>1, <1>2, <2>1
  <2>3. /\ ShrawanReduceRow(s, k) \in States(n)
        /\ EchelonSoFar(ShrawanReduceRow(s, k), k, m, n)
    BY <2>1, RowReducedByPivots
  <2> QED
    BY <2>2, <2>3
<1>5. n \in T
  <2>1. 0..n \subseteq T
    <3> HIDE DEF T
    <3> QED
      BY <1>3, <1>4, EachTurn
  <2> QED
    BY <2>1
<1>6. after[n] \in States(n) /\ EchelonSoFar(after[n], n, m, n)
  BY <1>5
<1> QED
  BY <1>2, <1>6 DEF step

LEMMA RowsBackReducedInTurn ==
  ASSUME NEW n \in Nat, NEW m \in [1..n -> RowsOn(RightCols)], NEW start \in States(n),
         FormSoFar(start, 0, m, n)
  PROVE  \E end \in States(n) :
           /\ end = Folded([row \in 1..n |-> [s \in States(n) |-> ShrawanBackReduceRow(s, row)]],
                           start, n)
           /\ FormSoFar(end, n, m, n)
<1> DEFINE step == [row \in 1..n |-> [s \in States(n) |-> ShrawanBackReduceRow(s, row)]]
<1>1. \A k \in 1..n : \A s \in States(n) : step[k][s] = ShrawanBackReduceRow(s, k)
  OBVIOUS
<1> HIDE DEF step
<1>2. PICK after :
        /\ after[0] = start
        /\ \A k \in 1..n : after[k] = step[k][after[k - 1]]
        /\ Folded(step, start, n) = after[n]
  BY LoopTurns
<1> DEFINE T == {k \in 0..n : after[k] \in States(n) /\ FormSoFar(after[k], k, m, n)}
<1>3. 0 \in T
  BY <1>2
<1>4. ASSUME NEW k \in 1..n, k - 1 \in T
      PROVE  k \in T
  <2>1. PICK s \in States(n) : s = after[k - 1] /\ FormSoFar(s, k - 1, m, n)
    BY <1>4
  <2>2. after[k] = ShrawanBackReduceRow(s, k)
    BY <1>1, <1>2, <2>1
  <2>3. /\ ShrawanBackReduceRow(s, k) \in States(n)
        /\ FormSoFar(ShrawanBackReduceRow(s, k), k, m, n)
    BY <2>1, RowBackReduced
  <2> QED
    BY <2>2, <2>3
<1>5. n \in T
  <2>1. 0..n \subseteq T
    <3> HIDE DEF T
    <3> QED
      BY <1>3, <1>4, EachTurn
  <2> QED
    BY <2>1
<1>6. after[n] \in States(n) /\ FormSoFar(after[n], n, m, n)
  BY <1>5
<1> QED
  BY <1>2, <1>6 DEF step

(* It computes a reduced row echelon form that spans what its matrix spans. *)
LEMMA ShrawanReduces ==
  ASSUME NEW n \in Nat, NEW m, m \in [1..n -> RowsOn(RightCols)], Len(m) = n
  PROVE  \E rows \in [1..n -> RowsOn(RightCols)] :
           /\ RowReducedEchelonMatrix(m) = {rows[i] : i \in {k \in 1..n : ~Zero(rows[k])}}
           /\ ReducedForm(rows, n)
           /\ SameSpaces(rows, m, n)
<1> DEFINE start == [rows |-> m, pivots |-> [c \in RightCols |-> 0]]
           echelon == Folded([row \in 1..n |-> [s \in States(n) |-> ShrawanReduceRow(s, row)]],
                             start, n)
           end == Folded([row \in 1..n |-> [s \in States(n) |-> ShrawanBackReduceRow(s, row)]],
                         echelon, n)
<1>1. DOMAIN m = 1..n
  OBVIOUS
<1>2. RowReducedEchelonMatrix(m) = {end.rows[row] : row \in {i \in 1..n : ~Zero(end.rows[i])}}
  BY <1>1 DEF RowReducedEchelonMatrix, States, RowsOn
<1>3. start \in States(n)
  BY DEF States
<1>4. EchelonSoFar(start, 0, m, n)
  <2>1. start.rows = m /\ \A c \in RightCols : start.pivots[c] = 0
    OBVIOUS
  <2>2. start.pivots \in [RightCols -> 0..n]
    OBVIOUS
  <2> HIDE DEF start
  <2>3. PivotsOf(start, n)
    BY <2>1, <2>2 DEF PivotsOf
  <2> QED
    BY <2>1, <2>3 DEF EchelonSoFar, SameSpaces
<1> HIDE DEF start
<1>5. echelon \in States(n) /\ EchelonSoFar(echelon, n, m, n)
  BY <1>3, <1>4, RowsReducedInTurn
<1> HIDE DEF echelon
<1>6. FormSoFar(echelon, 0, m, n)
  BY <1>5 DEF EchelonSoFar, FormSoFar
<1>7. end \in States(n) /\ FormSoFar(end, n, m, n)
  BY <1>5, <1>6, RowsBackReducedInTurn
<1> HIDE DEF end
<1>8. PICK rows \in [1..n -> RowsOn(RightCols)] : rows = end.rows
  BY <1>7 DEF States
<1>9. ReducedForm(rows, n)
  <2>1. ASSUME NEW i \in 1..n, ~Zero(rows[i]), NEW j \in 1..n
        PROVE  rows[j][LeadCol(rows[i])] = IF i = j THEN 1 ELSE 0
    <3>1. PivotsOf(end, n)
      BY <1>7 DEF FormSoFar
    <3>2. \A r \in 1..n : Zero(rows[r]) \/ \E c \in RightCols : end.pivots[c] = r
      BY <1>7, <1>8 DEF FormSoFar
    <3>3. PICK c \in RightCols : end.pivots[c] = i
      BY <2>1, <3>2
    <3>4. BeginsIn(rows[i], c) /\ LeadCol(rows[i]) = c
      BY <1>8, <3>1, <3>3, PivotOf
    <3>5. CASE i = j
      BY <3>4, <3>5 DEF BeginsIn
    <3>6. CASE i # j /\ Zero(rows[j])
      BY <3>4, <3>6 DEF Zero, RowsOn
    <3>7. CASE i # j /\ ~Zero(rows[j])
      <4>1. PICK b \in RightCols : end.pivots[b] = j
        BY <3>2, <3>7
      <4>2. LeadCol(rows[j]) = b
        BY <1>8, <3>1, <3>7, <4>1, PivotOf
      <4>3. c # b
        BY <3>3, <3>7, <4>1
      <4>4. end.pivots[c] # 0
        BY <3>3
      <4>5. rows[j][c] = 0
        BY <1>7, <1>8, <3>7, <4>2, <4>3, <4>4 DEF FormSoFar
      <4> QED
        BY <3>4, <3>7, <4>5
    <3> QED
      BY <3>5, <3>6, <3>7
  <2> QED
    BY <2>1 DEF ReducedForm
<1>10. SameSpaces(rows, m, n)
  BY <1>7, <1>8 DEF FormSoFar
<1> QED
  BY <1>2, <1>8, <1>9, <1>10

(* What two sequences of rows span is the same if the same spaces hold them. *)
SameHolders(rows, n, others, m) ==
  \A V : Subspace(V, RightCols) =>
    ((\A k \in 1..n : rows[k] \in V) <=> (\A k \in 1..m : others[k] \in V))

LEMMA FormsOfOneSpace ==
  ASSUME NEW n \in Nat, NEW rows, ReducedForm(rows, n),
         NEW m \in Nat, NEW others, ReducedForm(others, m),
         SameHolders(rows, n, others, m)
  PROVE  \E W : FormOf(W, rows, n) /\ FormOf(W, others, m)
<1>0. /\ \A k \in 1..n : rows[k] \in RowsOn(RightCols)
      /\ \A k \in 1..m : others[k] \in RowsOn(RightCols)
  BY DEF ReducedForm
<1> DEFINE A == {rows[k] : k \in 1..n}
           B == {others[k] : k \in 1..m}
<1>1. IsFiniteSet(A)
  <2>1. IsFiniteSet(1..n)
    BY FS_Interval
  <2> QED
    BY <2>1, EntriesAreFinite
<1>2. A \subseteq SumsOn(RightCols)
  BY <1>0, ScalarsAreNumbers
<1>3. \A x \in RowsOn(RightCols) : TakeModulus(x) = x
  BY TakeModulusIs, ScalarsAreNumbers
<1>4. \A V : /\ Holds(V, A) <=> \A k \in 1..n : rows[k] \in V
             /\ Holds(V, B) <=> \A k \in 1..m : others[k] \in V
  BY <1>0, <1>3 DEF Holds
<1> HIDE DEF A, B
<1>5. \A V : Subspace(V, RightCols) => (Holds(V, A) <=> Holds(V, B))
  BY <1>4 DEF SameHolders
<1>6. LeastSpace(Span(A), A, RightCols)
  BY <1>1, <1>2, SpanIsLeast
<1>7. LeastSpace(Span(A), B, RightCols)
  BY <1>5, <1>6 DEF LeastSpace
<1> QED
  BY <1>6, <1>7 DEF A, B, FormOf

LEMMA InvAgrees ==
  ASSUME Inv, EchelonInv
  PROVE  ShrawanAgrees
<1> SUFFICES ASSUME phase = "done"
             PROVE  Range(reduced) = RowReducedEchelonMatrix(lower)
  BY DEF ShrawanAgrees
<1>1. TypeOK /\ InEchelonForm
  BY DEF Inv
<1>2. PICK n \in Nat : n = Len(lower)
  BY <1>1, LowerRows
<1>3. lower \in [1..n -> RowsOn(RightCols)] /\ Len(lower) = n /\ DOMAIN lower = 1..n
  <2>1. lower \in Seq(RowsOn(RightCols))
    BY <1>1 DEF TypeOK, RowsOn
  <2> QED
    BY <1>2, <2>1
<1>4. PICK rows \in [1..n -> RowsOn(RightCols)] :
        /\ RowReducedEchelonMatrix(lower) = {rows[i] : i \in {k \in 1..n : ~Zero(rows[k])}}
        /\ ReducedForm(rows, n)
        /\ SameSpaces(rows, lower, n)
  BY <1>3, ShrawanReduces
<1>5. PICK m \in Nat : m = Len(reduced) /\ DOMAIN reduced = 1..m
                       /\ \A k \in 1..m : reduced[k] \in RowsOn(RightCols)
  <2>1. reduced \in Seq(RowsOn(RightCols))
    BY <1>1 DEF TypeOK, RowsOn
  <2> QED
    BY <2>1
<1>6. ReducedForm(reduced, m) /\ \A k \in 1..m : ~Zero(reduced[k])
  BY <1>1, <1>5 DEF InEchelonForm, ReducedForm
<1>7. SameHolders(reduced, m, rows, n)
  <2>1. \A x \in RowsOn(RightCols) : TakeModulus(x) = x
    BY TakeModulusIs, ScalarsAreNumbers
  <2>2. Range(reduced) = {reduced[k] : k \in 1..m} /\ Range(lower) = {lower[k] : k \in 1..n}
    BY <1>3, <1>5 DEF Range
  <2>3. ASSUME NEW V, Subspace(V, RightCols)
        PROVE  (\A k \in 1..m : reduced[k] \in V) <=> (\A k \in 1..n : rows[k] \in V)
    <3>1. Holds(V, Range(reduced)) <=> Holds(V, Range(lower))
      BY <2>3 DEF EchelonInv, LowerInPlay, RowsInPlay
    <3>2. Holds(V, Range(reduced)) <=> \A k \in 1..m : reduced[k] \in V
      BY <1>5, <2>1, <2>2 DEF Holds
    <3>3. Holds(V, Range(lower)) <=> \A k \in 1..n : lower[k] \in V
      BY <1>3, <2>1, <2>2 DEF Holds
    <3>4. (\A k \in 1..n : rows[k] \in V) <=> (\A k \in 1..n : lower[k] \in V)
      BY <1>4, <2>3 DEF SameSpaces
    <3> QED
      BY <3>1, <3>2, <3>3, <3>4
  <2> QED
    BY <2>3 DEF SameHolders
<1>8. PICK W : FormOf(W, reduced, m) /\ FormOf(W, rows, n)
  BY <1>4, <1>6, <1>7, FormsOfOneSpace
<1>9. RowsAmong(reduced, m, rows, n) /\ RowsAmong(rows, n, reduced, m)
  BY <1>8, FormIsUnique
<1>10. Range(reduced) = {reduced[k] : k \in 1..m}
  BY <1>5 DEF Range
<1>11. ASSUME NEW x
       PROVE  x \in {reduced[k] : k \in 1..m} <=> x \in {rows[i] : i \in {k \in 1..n : ~Zero(rows[k])}}
  <2>1. ASSUME NEW k \in 1..m, x = reduced[k]
        PROVE  \E i \in {j \in 1..n : ~Zero(rows[j])} : x = rows[i]
    BY <1>6, <1>9, <2>1 DEF RowsAmong
  <2>2. ASSUME NEW i \in 1..n, ~Zero(rows[i]), x = rows[i]
        PROVE  \E k \in 1..m : x = reduced[k]
    BY <1>9, <2>2 DEF RowsAmong
  <2> QED
    BY <2>1, <2>2
<1> QED
  BY <1>4, <1>10, <1>11

(* Either algorithm ends with the one reduced row echelon form of the matrix,
   whatever order the threads come in and whichever rows become pivots: the
   rows that the third algorithm, which is turned off, computes from it. *)
THEOREM EchelonIsReduced == Spec => []EchelonReduced
<1>1. Inv /\ ReduceInv /\ EchelonInv => EchelonReduced
  BY InvAgrees DEF EchelonReduced, Inv
<1> QED
  BY <1>1, SpansAlways, PTL
=============================================================================
