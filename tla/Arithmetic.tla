----------------------------- MODULE Arithmetic -----------------------------
(* Induction and recursion over the natural numbers, stated for sets and        *)
(* functions instead of operators: the form in which the provers can use them.  *)
(* They rest on < being well-founded. With them: powers of two, division by     *)
(* them, and the groups of bits that a number is made of.                       *)
EXTENDS Integers, Bits, WellFoundedInduction, TLAPS

\* A set of natural numbers that is not empty has a least element.
LEMMA LeastNatural ==
  ASSUME NEW T \in SUBSET Nat, T # {}
  PROVE  \E x \in T : \A y \in T : x <= y
<1> DEFINE R == {p \in Nat \X Nat : p[1] < p[2]}
<1>1. IsWellFoundedOn(R, Nat)
  BY NatLessThanWellFounded, Zenon DEF OpToRel
<1>2. PICK x \in T : \A y \in T : ~(<<y, x>> \in R)
  <2> HIDE DEF R
  <2> QED BY <1>1, WFMin
<1>3. ASSUME NEW y \in T PROVE x <= y
  <2>1. <<y, x>> \in Nat \X Nat /\ <<y, x>>[1] = y /\ <<y, x>>[2] = x
    OBVIOUS
  <2>2. ~(y < x)
    BY <1>2, <2>1
  <2> QED BY <2>2
<1> QED BY <1>3

\* Induction.
LEMMA NatSetInduction ==
  ASSUME NEW T \in SUBSET Nat, 0 \in T, \A n \in T : n + 1 \in T
  PROVE  T = Nat
<1> SUFFICES ASSUME Nat \ T # {} PROVE FALSE
  OBVIOUS
<1>1. PICK x \in Nat \ T : \A y \in Nat \ T : x <= y
  BY LeastNatural
<1>2. x - 1 \in Nat /\ x - 1 \in T
  BY <1>1
<1> QED BY <1>2

Steppers(m, S) == [(1..m) \X S -> S]
IsOrbit(g, S, s0, m, F) ==
  /\ g \in [0..m -> S] /\ g[0] = s0
  /\ \A k \in 1..m : g[k] = F[<<k, g[k - 1]>>]

\* Recursion: m steps of a function on S can be taken one after another.
LEMMA Orbit ==
  ASSUME NEW S, NEW s0 \in S, NEW m \in Nat, NEW F \in Steppers(m, S)
  PROVE  \E g : IsOrbit(g, S, s0, m, F)
<1> DEFINE P(n, g) == g[0] = s0 /\ \A k \in 1..n : g[k] = F[<<k, g[k - 1]>>]
           T == {n \in Nat : n <= m => \E g \in [0..n -> S] : P(n, g)}
<1>1. 0 \in T
  <2>1. [i \in 0..0 |-> s0] \in [0..0 -> S] /\ P(0, [i \in 0..0 |-> s0])
    OBVIOUS
  <2> QED BY <2>1
<1>2. ASSUME NEW n \in T PROVE n + 1 \in T
  <2> SUFFICES ASSUME n + 1 <= m PROVE \E g \in [0..(n + 1) -> S] : P(n + 1, g)
    OBVIOUS
  <2>1. PICK g \in [0..n -> S] : P(n, g)
    OBVIOUS
  <2> DEFINE h == [i \in 0..(n + 1) |-> IF i = n + 1 THEN F[<<n + 1, g[n]>>] ELSE g[i]]
  <2>2. h \in [0..(n + 1) -> S]
    BY DEF Steppers
  <2>3. \A i \in 0..n : h[i] = g[i]
    OBVIOUS
  <2>4. h[n + 1] = F[<<n + 1, g[n]>>]
    OBVIOUS
  <2> HIDE DEF h
  <2>5. P(n + 1, h)
    <3>1. h[0] = s0
      BY <2>1, <2>3
    <3>2. ASSUME NEW k \in 1..(n + 1) PROVE h[k] = F[<<k, h[k - 1]>>]
      <4>1. CASE k = n + 1
        BY <2>3, <2>4, <4>1
      <4>2. CASE k # n + 1
        <5>1. k \in 1..n /\ k - 1 \in 0..n /\ k \in 0..n
          BY <4>2
        <5> QED BY <2>1, <2>3, <5>1
      <4> QED BY <4>1, <4>2
    <3> QED BY <3>1, <3>2
  <2> QED BY <2>2, <2>5
<1>3. T = Nat
  <2>1. T \in SUBSET Nat
    OBVIOUS
  <2> HIDE DEF T
  <2> QED BY <1>1, <1>2, <2>1, NatSetInduction
<1>4. PICK g \in [0..m -> S] : P(m, g)
  <2>1. m \in T
    BY <1>3
  <2> QED BY <2>1
<1> QED BY <1>4 DEF IsOrbit

-----------------------------------------------------------------------------
(* Powers of two *)

Powers(g, m) == g \in [0..m -> Nat] /\ g[0] = 1 /\ \A k \in 1..m : g[k] = 2 * g[k - 1]

(* 1 doubled m times: there is one way to do it, of any length. *)
LEMMA PowersExist == \A m \in Nat : \E g : Powers(g, m)
<1> SUFFICES ASSUME NEW m \in Nat PROVE \E g : Powers(g, m)
  OBVIOUS
<1> DEFINE F == [a \in (1..m) \X Nat |-> 2 * a[2]]
<1>1. F \in Steppers(m, Nat)
  BY DEF Steppers
<1>2. \A k \in 1..m, s \in Nat : F[<<k, s>>] = 2 * s
  OBVIOUS
<1> HIDE DEF F
<1>3. PICK g : IsOrbit(g, Nat, 1, m, F)
  BY <1>1, Orbit
<1>4. \A k \in 1..m : k - 1 \in 0..m /\ g[k - 1] \in Nat
  BY <1>3 DEF IsOrbit
<1>5. Powers(g, m)
  BY <1>2, <1>3, <1>4 DEF IsOrbit, Powers
<1> QED
  BY <1>5

\* Tables of the powers of two agree where both are defined.
LEMMA PowersAgree ==
  ASSUME NEW m \in Nat, NEW n \in Nat, NEW g, NEW h, Powers(g, m), Powers(h, n), NEW k \in Nat, k <= m, k <= n
  PROVE  g[k] = h[k]
<1> DEFINE T == {i \in Nat : i <= m /\ i <= n => g[i] = h[i]}
<1>1. 0 \in T
  BY DEF Powers
<1>2. ASSUME NEW i \in T PROVE i + 1 \in T
  BY <1>2 DEF Powers
<1>3. T = Nat
  <2>1. T \in SUBSET Nat
    OBVIOUS
  <2> HIDE DEF T
  <2> QED
    BY <1>1, <1>2, <2>1, NatSetInduction
<1> QED
  BY <1>3

(* The recursion that defines Shift has a solution. *)
LEMMA ShiftRecursion == Shift[0] = 1 /\ \A n \in Nat : Shift[n + 1] = 2 * Shift[n]
<1> DEFINE row(n) == CHOOSE g : Powers(g, n)
           f == [n \in Nat |-> row(n)[n]]
           P(s) == s = [n \in Nat |-> IF n = 0 THEN 1 ELSE 2 * s[n - 1]]
<1>1. \A n \in Nat : Powers(row(n), n)
  BY PowersExist
<1> HIDE DEF row
<1>2. f = [n \in Nat |-> IF n = 0 THEN 1 ELSE 2 * f[n - 1]]
  <2>1. ASSUME NEW n \in Nat PROVE f[n] = IF n = 0 THEN 1 ELSE 2 * f[n - 1]
    <3>1. CASE n = 0
      BY <1>1, <3>1 DEF Powers
    <3>2. CASE n # 0
      <4>1. n - 1 \in Nat /\ Powers(row(n), n) /\ Powers(row(n - 1), n - 1)
        BY <1>1, <3>2
      <4>2. row(n)[n] = 2 * row(n)[n - 1]
        BY <3>2, <4>1 DEF Powers
      <4>3. row(n)[n - 1] = row(n - 1)[n - 1]
        BY <4>1, PowersAgree
      <4> QED
        BY <3>2, <4>1, <4>2, <4>3
    <3> QED
      BY <3>1, <3>2
  <2> QED
    BY <2>1
<1> HIDE DEF f
<1>3. P(f)
  BY <1>2
<1>4. Shift = CHOOSE s : P(s)
  BY DEF Shift
<1>5. P(Shift)
  <2> HIDE DEF P
  <2> QED
    BY <1>3, <1>4
<1>6. Shift[0] = 1 /\ \A n \in Nat : n # 0 => Shift[n] = 2 * Shift[n - 1]
  BY <1>5
<1> QED
  BY <1>6

(* A shift that does not overflow is positive, and larger than its amount. *)
LEMMA ShiftValues == \A n \in Nat : Shift[n] \in Nat /\ Shift[n] >= 1 /\ n < Shift[n]
<1> DEFINE T == {n \in Nat : Shift[n] \in Nat /\ Shift[n] >= 1 /\ n < Shift[n]}
<1>1. 0 \in T
  BY ShiftRecursion
<1>2. ASSUME NEW n \in T PROVE n + 1 \in T
  <2>1. Shift[n + 1] = 2 * Shift[n]
    BY ShiftRecursion
  <2> QED
    BY <2>1
<1>3. T = Nat
  <2>1. T \in SUBSET Nat
    OBVIOUS
  <2> HIDE DEF T
  <2> QED
    BY <1>1, <1>2, <2>1, NatSetInduction
<1> QED
  BY <1>3

(* A shift by a sum. *)
LEMMA ShiftSum == ASSUME NEW m \in Nat, NEW n \in Nat PROVE Shift[m + n] = Shift[m] * Shift[n]
<1> DEFINE T == {k \in Nat : Shift[m + k] = Shift[m] * Shift[k]}
<1>1. 0 \in T
  BY ShiftRecursion, ShiftValues
<1>2. ASSUME NEW k \in T PROVE k + 1 \in T
  <2>1. Shift[m + (k + 1)] = 2 * Shift[m + k] /\ Shift[k + 1] = 2 * Shift[k]
    <3>1. m + (k + 1) = (m + k) + 1
      OBVIOUS
    <3> QED
      BY <3>1, ShiftRecursion
  <2>2. Shift[m] \in Nat /\ Shift[k] \in Nat
    BY ShiftValues
  <2>3. 2 * (Shift[m] * Shift[k]) = Shift[m] * (2 * Shift[k])
    <3> DEFINE a == Shift[m]
               b == Shift[k]
    <3> HIDE DEF a, b
    <3>1. a \in Nat /\ b \in Nat
      BY <2>2 DEF a, b
    <3>2. 2 * (a * b) = a * (2 * b)
      BY <3>1
    <3> QED
      BY <3>2 DEF a, b
  <2> QED
    BY <2>1, <2>3
<1>3. T = Nat
  <2>1. T \in SUBSET Nat
    OBVIOUS
  <2> HIDE DEF T
  <2> QED
    BY <1>1, <1>2, <2>1, NatSetInduction
<1> QED
  BY <1>3

(* The product with a positive number is not smaller. *)
LEMMA ProductGrows == ASSUME NEW a \in Nat, NEW b \in Nat, b >= 1 PROVE a * b \in Nat /\ a <= a * b
<1>1. a * b = a * (b - 1) + a /\ a * (b - 1) >= 0
  OBVIOUS
<1> QED
  BY <1>1

(* A longer shift is not smaller. *)
LEMMA ShiftGrows == ASSUME NEW m \in Nat, NEW n \in Nat, m <= n PROVE Shift[m] <= Shift[n]
<1> DEFINE k == n - m
<1>1. k \in Nat /\ m + k = n
  OBVIOUS
<1>2. Shift[n] = Shift[m] * Shift[k]
  BY <1>1, ShiftSum
<1>3. Shift[m] \in Nat /\ Shift[k] \in Nat /\ Shift[k] >= 1
  BY <1>1, ShiftValues
<1> QED
  BY <1>2, <1>3, ProductGrows

-----------------------------------------------------------------------------
(* Division *)

(* Multiplication is monotone. *)
LEMMA ProductMonotone == ASSUME NEW a \in Int, NEW b \in Int, NEW m \in Nat, a <= b PROVE a * m <= b * m
<1>1. (b - a) * m >= 0
  OBVIOUS
<1> QED
  BY <1>1

(* Quotient and remainder. *)
LEMMA Division ==
  ASSUME NEW v \in Nat, NEW m \in Nat, m >= 1
  PROVE  v \div m \in Nat /\ v % m \in Nat /\ v % m < m /\ v = (v \div m) * m + (v % m)
OBVIOUS

(* There is only one of each. *)
LEMMA DivisionUnique ==
  ASSUME NEW v \in Nat, NEW m \in Nat, m >= 1, NEW q \in Nat, NEW r \in Nat, r < m, v = q * m + r
  PROVE  v \div m = q /\ v % m = r
<1> DEFINE p == v \div m
           s == v % m
<1>1. p \in Nat /\ s \in Nat /\ s < m /\ v = p * m + s
  BY Division
<1> HIDE DEF p, s
<1>2. ~(p >= q + 1)
  <2> SUFFICES ASSUME p >= q + 1 PROVE FALSE
    OBVIOUS
  <2>1. (q + 1) * m <= p * m
    BY <1>1, ProductMonotone
  <2>2. (q + 1) * m = q * m + m
    OBVIOUS
  <2> QED
    BY <1>1, <2>1, <2>2
<1>3. ~(q >= p + 1)
  <2> SUFFICES ASSUME q >= p + 1 PROVE FALSE
    OBVIOUS
  <2>1. (p + 1) * m <= q * m
    BY <1>1, ProductMonotone
  <2>2. (p + 1) * m = p * m + m
    BY <1>1
  <2> QED
    BY <1>1, <2>1, <2>2
<1>4. p = q
  BY <1>1, <1>2, <1>3
<1> QED
  BY <1>1, <1>4 DEF p, s

(* Dividing twice. *)
LEMMA DivisionTwice ==
  ASSUME NEW v \in Nat, NEW m \in Nat, m >= 1, NEW n \in Nat, n >= 1
  PROVE  (v \div m) \div n = v \div (m * n)
<1> DEFINE q == v \div m
           r == v % m
           a == q \div n
           b == q % n
<1>1. q \in Nat /\ r \in Nat /\ r < m /\ v = q * m + r
  BY Division
<1> HIDE DEF q, r
<1>2. a \in Nat /\ b \in Nat /\ b < n /\ q = a * n + b
  BY <1>1, Division
<1> HIDE DEF a, b
<1>3. (a * n + b) * m = a * (m * n) + b * m
  BY <1>1, <1>2
<1>4. b * m \in Nat /\ b * m + m <= m * n
  <2>1. (b + 1) * m <= n * m
    BY <1>2, ProductMonotone
  <2>2. (b + 1) * m = b * m + m /\ n * m = m * n /\ b * m \in Nat
    BY <1>2
  <2> QED
    BY <2>1, <2>2
<1>5. b * m + r \in Nat /\ b * m + r < m * n /\ m * n \in Nat /\ m * n >= 1
  <2>1. m * n \in Nat
    OBVIOUS
  <2> QED
    BY <1>1, <1>4, <2>1
<1>6. v = a * (m * n) + (b * m + r)
  BY <1>1, <1>2, <1>3, <1>4
<1>7. v \div (m * n) = a
  <2> DEFINE k == m * n
             s == b * m + r
  <2>1. k \in Nat /\ k >= 1 /\ s \in Nat /\ s < k /\ v = a * k + s
    BY <1>5, <1>6
  <2> HIDE DEF k, s
  <2>2. v \div k = a
    BY <1>2, <2>1, DivisionUnique
  <2> QED
    BY <2>2 DEF k
<1> QED
  BY <1>7 DEF a, q

(* A quotient is below what the dividend is below, divided. *)
LEMMA QuotientBelow ==
  ASSUME NEW v \in Nat, NEW m \in Nat, m >= 1, NEW n \in Nat, v < m * n PROVE v \div m < n
<1> DEFINE q == v \div m
           r == v % m
<1>1. q \in Nat /\ r \in Nat /\ v = q * m + r
  BY Division
<1> HIDE DEF q, r
<1>2. ~(n <= q)
  <2> SUFFICES ASSUME n <= q PROVE FALSE
    OBVIOUS
  <2>1. n * m <= q * m
    BY <1>1, ProductMonotone
  <2> QED
    BY <1>1, <2>1
<1> QED
  BY <1>1, <1>2 DEF q

(* Without its lowest group, the groups of a number move down. *)
LEMMA GroupOfQuotient ==
  ASSUME NEW d \in Nat, NEW v \in Nat, NEW i \in Nat
  PROVE  Group(v \div Shift[d], d, i) = Group(v, d, i + 1) /\ v \div Shift[d] \in Nat
<1> DEFINE b == Shift[d]
           y == Shift[d * i]
<1>1. d * (i + 1) = d + d * i /\ d * i \in Nat
  OBVIOUS
<1>2. Shift[d * (i + 1)] = b * y /\ b \in Nat /\ b >= 1 /\ y \in Nat /\ y >= 1
  BY <1>1, ShiftSum, ShiftValues
<1> HIDE DEF b, y
<1>3. (v \div b) \div y = v \div (b * y)
  BY <1>2, DivisionTwice
<1>4. v \div b \in Nat
  BY <1>2, Division
<1> QED
  BY <1>2, <1>3, <1>4 DEF Group, y, b

(* Numbers of n groups of bits are the same if all their groups are. *)
LEMMA GroupsDetermine ==
  ASSUME NEW d \in Nat, NEW n \in Nat
  PROVE  \A v, w \in Nat :
           v < Shift[d * n] /\ w < Shift[d * n] /\ (\A i \in 0 .. n - 1 : Group(v, d, i) = Group(w, d, i)) => v = w
<1> DEFINE Same(k, v, w) == \A i \in 0 .. k - 1 : Group(v, d, i) = Group(w, d, i)
           P(k) == \A v, w \in Nat : v < Shift[d * k] /\ w < Shift[d * k] /\ Same(k, v, w) => v = w
           T == {k \in Nat : P(k)}
<1>1. 0 \in T
  BY ShiftRecursion
<1>2. ASSUME NEW k \in T PROVE k + 1 \in T
  <2> DEFINE b == Shift[d]
             z == Shift[d * k]
  <2>1. d * (k + 1) = d + d * k /\ d * k \in Nat /\ k \in Nat
    OBVIOUS
  <2>2. Shift[d * (k + 1)] = b * z /\ b \in Nat /\ b >= 1 /\ z \in Nat /\ z >= 1
    BY <2>1, ShiftSum, ShiftValues
  <2>3. ASSUME NEW v \in Nat, NEW i \in Nat PROVE Group(v \div b, d, i) = Group(v, d, i + 1) /\ v \div b \in Nat
    BY GroupOfQuotient
  <2>4. ASSUME NEW v \in Nat PROVE Group(v, d, 0) = v % b
    <3>1. d * 0 = 0 /\ Shift[0] = 1 /\ v \div 1 = v
      BY ShiftRecursion
    <3> QED
      BY <3>1 DEF Group
  <2>5. ASSUME NEW v \in Nat, NEW w \in Nat, v < b * z, w < b * z, Same(k + 1, v, w) PROVE v = w
    <3>1. v \div b \in Nat /\ w \div b \in Nat /\ v \div b < z /\ w \div b < z
      <4> HIDE DEF b, z
      <4> QED
        BY <2>2, <2>5, QuotientBelow, Division
    <3>2. ASSUME NEW i \in 0 .. k - 1 PROVE Group(v \div b, d, i) = Group(w \div b, d, i)
      <4>1. i \in Nat /\ i + 1 \in 0 .. (k + 1) - 1
        BY <2>1
      <4>2. Group(v, d, i + 1) = Group(w, d, i + 1)
        BY <2>5, <4>1
      <4> HIDE DEF b
      <4> QED
        BY <2>3, <4>1, <4>2
    <3>3. v \div b = w \div b
      <4> HIDE DEF b
      <4>1. Same(k, v \div b, w \div b)
        BY <3>2
      <4> HIDE DEF Same
      <4> QED
        BY <3>1, <4>1
    <3>4. v % b = w % b
      <4>1. 0 \in 0 .. (k + 1) - 1
        BY <2>1
      <4>2. Group(v, d, 0) = Group(w, d, 0)
        BY <2>5, <4>1
      <4> QED
        BY <2>4, <4>2
    <3> HIDE DEF b, z
    <3>5. v = (v \div b) * b + (v % b) /\ w = (w \div b) * b + (w % b)
      BY <2>2, Division
    <3> QED
      BY <3>3, <3>4, <3>5
  <2>6. P(k + 1)
    <3> HIDE DEF Same, b, z
    <3> QED
      BY <2>2, <2>5
  <2> QED
    BY <2>1, <2>6
<1>3. T = Nat
  <2>1. T \in SUBSET Nat
    OBVIOUS
  <2> HIDE DEF T
  <2> QED
    BY <1>1, <1>2, <2>1, NatSetInduction
<1>4. P(n)
  <2> HIDE DEF P
  <2> QED
    BY <1>3
<1> QED
  BY <1>4
=============================================================================
