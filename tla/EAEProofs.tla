----------------------------- MODULE EAEProofs -----------------------------
(***************************************************************************)
(* The EAE multiplies and divides, for words of every width, every use of  *)
(* start and operands that change while it works.                          *)
(*                                                                         *)
(* First arithmetic: what one iteration does to a register in which an     *)
(* upper part and a lower part move against each other by one bit.  Then   *)
(* the two loop invariants, which need the types and the phases to be      *)
(* inductive, and what they say when the count has reached the width.      *)
(***************************************************************************)
EXTENDS EAEResults, TLAPS

Positive == Nat \ {0}

-----------------------------------------------------------------------------
\* Quotients and remainders.

\* They are determined by their equation.
LEMMA DivideUniquely ==
  ASSUME NEW a \in Nat, NEW n \in Positive, NEW u \in Nat, NEW v \in Nat,
         a = u * n + v, v < n
  PROVE  a \div n = u /\ a % n = v
  BY SMT DEF Positive

LEMMA DivideEquation ==
  ASSUME NEW a \in Nat, NEW n \in Positive
  PROVE  /\ a \div n \in Nat /\ a % n \in Nat /\ (a % n) < n
         /\ a = (a \div n) * n + (a % n)
  BY SMT DEF Positive

\* A quotient below a bound on the dividend.
LEMMA QuotientBound ==
  ASSUME NEW a \in Nat, NEW n \in Positive, NEW b \in Nat, a < b * n
  PROVE  a \div n < b
<1> DEFINE u == a \div n
           v == a % n
<1>1. u \in Nat /\ v \in Nat /\ v < n /\ a = u * n + v
  BY DivideEquation
<1> HIDE DEF u, v
<1>2. ASSUME b <= u PROVE FALSE
  <2>1. b * n <= u * n
    BY SMT, <1>1, <1>2 DEF Positive
  <2>2. b * n \in Nat /\ u * n \in Nat
    BY SMT, <1>1 DEF Positive
  <2> QED
    BY SMT, <1>1, <2>1, <2>2
<1>3. u < b
  BY SMT, <1>1, <1>2
<1> QED
  BY <1>3 DEF u

\* Halving and doubling one after the other: the quotient and the remainder
\* by 2n from those by n.
LEMMA NextBit ==
  ASSUME NEW a \in Nat, NEW n \in Positive
  PROVE  /\ a \div (2 * n) = (a \div n) \div 2
         /\ a % (2 * n) = (a % n) + ((a \div n) % 2) * n
<1> DEFINE h == a \div n
           x == a % n
<1>1. h \in Nat /\ x \in Nat /\ x < n /\ a = h * n + x
  BY DivideEquation
<1> HIDE DEF h, x
<1> DEFINE g == h \div 2
           b == h % 2
<1>2. g \in Nat /\ b \in {0, 1} /\ h = 2 * g + b
  BY SMT, <1>1
<1> HIDE DEF g, b
<1>3. a = g * (2 * n) + (x + b * n)
  BY SMT, <1>1, <1>2 DEF Positive
<1>4. x + b * n \in Nat /\ x + b * n < 2 * n /\ 2 * n \in Positive
  BY SMT, <1>1, <1>2 DEF Positive
<1>5. a \div (2 * n) = g /\ a % (2 * n) = x + b * n
  BY <1>2, <1>3, <1>4, DivideUniquely
<1> QED
  BY <1>5 DEF h, x, g, b

-----------------------------------------------------------------------------
\* The weights of the bits.

LEMMA Widths ==
  /\ W \in Positive /\ Half \in Positive /\ Base \in Positive
  /\ Base = 2 * Half /\ Weight[0] = 1 /\ Weight[W] = Base
  /\ \A k \in 0 .. W : Weight[k] \in Positive
  /\ \A k \in 0 .. W - 1 : /\ Weight[k + 1] = 2 * Weight[k]
                           /\ Weight[W - k] = 2 * Weight[W - (k + 1)]
<1>1. W \in Positive
  BY WidthAssumption DEF Positive
<1>2. \A k \in 0 .. W : Weight[k] \in Positive
  BY WeightAssumption DEF Positive
<1>3. \A k \in 0 .. W - 1 : Weight[k + 1] = 2 * Weight[k]
  <2> TAKE k \in 0 .. W - 1
  <2>1. k + 1 \in 1 .. W /\ (k + 1) - 1 = k
    BY SMT, <1>1 DEF Positive
  <2> QED
    BY <2>1, WeightAssumption
<1>4. \A k \in 0 .. W - 1 : Weight[W - k] = 2 * Weight[W - (k + 1)]
  <2> TAKE k \in 0 .. W - 1
  <2>1. W - k \in 1 .. W /\ (W - k) - 1 = W - (k + 1)
    BY SMT, <1>1 DEF Positive
  <2> QED
    BY <2>1, WeightAssumption
<1>5. Half \in Positive /\ Weight[W] = 2 * Half
  <2>1. W - 1 \in 0 .. W /\ W \in 1 .. W
    BY SMT, <1>1 DEF Positive
  <2> QED
    BY <1>2, <2>1, WeightAssumption
<1>6. Base = 2 * Half /\ Base \in Positive
  BY SMT, <1>5 DEF Base, Positive
<1> QED
  BY <1>1, <1>2, <1>3, <1>4, <1>5, <1>6, WeightAssumption

-----------------------------------------------------------------------------
\* One iteration of the multiplier.

\* It adds the multiplicand into the upper half if the lowest bit is set and
\* shifts the sum, its carry included, down by one bit.
LEMMA AddAndShift ==
  ASSUME NEW p \in Nat, NEW m \in Nat
  PROVE  MultiplyStep(p, m) = p \div 2 + (p % 2) * (m * Half)
<1> DEFINE u == p \div Base
           v == p % Base
<1>1. u \in Nat /\ v \in Nat /\ v < Base /\ p = u * Base + v
  BY DivideEquation, Widths
<1>2. MultiplyStep(p, m) = IF p % 2 = 1 THEN (u + m) * Half + v \div 2 ELSE p \div 2
  BY DEF MultiplyStep
<1> HIDE DEF u, v
<1> DEFINE g == v \div 2
           b == v % 2
<1>3. g \in Nat /\ b \in {0, 1} /\ v = 2 * g + b
  BY SMT, <1>1
<1> HIDE DEF g, b
<1>4. p = (u * Half + g) * 2 + b /\ u * Half \in Nat /\ m * Half \in Nat
  BY SMT, <1>1, <1>3, Widths DEF Positive
<1>5. p \div 2 = u * Half + g /\ p % 2 = b
  <2>1. u * Half + g \in Nat /\ b < 2 /\ b \in Nat /\ 2 \in Positive
    BY SMT, <1>3, <1>4 DEF Positive
  <2> QED
    BY <1>4, <2>1, DivideUniquely
<1>6. (u + m) * Half = u * Half + m * Half
  BY SMT, <1>1, Widths DEF Positive
<1>7. v \div 2 = g
  BY SMT, <1>3
<1> QED
  BY SMT, <1>2, <1>3, <1>4, <1>5, <1>6, <1>7

\* It takes the loop invariant from one bit to the next.  P is the weight of
\* the bit looked at, 2 * R what is left to shift by.
LEMMA ProductSoFar ==
  ASSUME NEW m \in Nat, NEW y \in Nat, NEW P \in Positive, NEW R \in Positive,
         P * (2 * R) = Base
  PROVE  MultiplyStep(m * (y % P) * (2 * R) + y \div P, m)
           = m * (y % (2 * P)) * R + y \div (2 * P)
<1> DEFINE x == y % P
           h == y \div P
<1>1. /\ x \in Nat /\ h \in Nat
      /\ y \div (2 * P) = h \div 2 /\ y % (2 * P) = x + (h % 2) * P
  BY DivideEquation, NextBit
<1> HIDE DEF x, h
<1> DEFINE g == h \div 2
           b == h % 2
           a == m * x
           p == a * (2 * R) + h
<1>2. g \in Nat /\ b \in {0, 1} /\ h = 2 * g + b
  BY SMT, <1>1
<1>3. a \in Nat /\ a * R \in Nat
  BY SMT, <1>1 DEF Positive
<1>4. P * R = Half
  <2>1. 2 * (P * R) = 2 * Half /\ P * R \in Nat
    BY SMT, Widths DEF Positive
  <2> QED
    BY SMT, <2>1, Widths DEF Positive
<1> HIDE DEF g, b, a
<1>5. p = (a * R + g) * 2 + b /\ p \in Nat
  BY SMT, <1>2, <1>3 DEF Positive
<1>6. p \div 2 = a * R + g /\ p % 2 = b
  <2>1. a * R + g \in Nat /\ b < 2 /\ b \in Nat /\ 2 \in Positive
    BY SMT, <1>2, <1>3 DEF Positive
  <2> HIDE DEF p
  <2> QED
    BY <1>5, <2>1, DivideUniquely
<1>7. MultiplyStep(p, m) = a * R + g + b * (m * Half)
  <2> HIDE DEF p
  <2> QED
    BY <1>5, <1>6, AddAndShift
<1>8. m * (x + b * P) * R = a * R + b * (m * Half)
  <2>1. m * (x + b * P) * R = (m * x) * R + b * (m * (P * R))
    <3>1. CASE b = 0
      BY SMT, <1>1, <3>1 DEF Positive
    <3>2. CASE b = 1
      <4>1. m * (x + P) * R = (m * x) * R + m * (P * R)
        BY SMT, <1>1 DEF Positive
      <4> QED
        BY SMT, <3>2, <4>1 DEF Positive
    <3> QED
      BY <1>2, <3>1, <3>2
  <2> QED
    BY <1>4, <2>1 DEF a
<1>9. m * Half \in Nat
  BY SMT, Widths DEF Positive
<1>10. a * R + g + b * (m * Half) = a * R + b * (m * Half) + g
  BY SMT, <1>2, <1>3, <1>9
<1> QED
  BY <1>1, <1>7, <1>8, <1>10 DEF a, g, b, x, h

-----------------------------------------------------------------------------
\* One iteration of the divider.

\* The borrow tells whether the divisor goes into the top of the register,
\* as long as the top is below twice the divisor: the difference then fits.
LEMMA SubtractAndShift ==
  ASSUME NEW p \in Nat, NEW d \in Nat, NEW t \in Nat,
         t = p \div Half, d < Base, t < 2 * d
  PROVE  /\ Subtracts(p, d) <=> d <= t
         /\ DivideStep(p, d) = IF d <= t THEN (t - d) * Base + (p % Half) * 2 + 1
                                         ELSE (p * 2) % (Base * Base)
<1>1. CASE d <= t
  <2>1. t + 2 * Base - d = 1 * (2 * Base) + (t - d)
    BY SMT, <1>1, Widths DEF Positive
  <2>2. t - d \in Nat /\ t - d < Base /\ t - d < 2 * Base /\ 1 \in Nat
        /\ 2 * Base \in Positive /\ t + 2 * Base - d \in Nat
    BY SMT, <1>1, Widths DEF Positive
  <2>3. Difference(p, d) = t - d
    BY <2>1, <2>2, DivideUniquely DEF Difference
  <2> QED
    BY <1>1, <2>2, <2>3 DEF DivideStep, Subtracts
<1>2. CASE ~(d <= t)
  <2>1. t + 2 * Base - d = 0 * (2 * Base) + (t + 2 * Base - d)
    BY SMT, <1>2, Widths DEF Positive
  <2>2. t + 2 * Base - d \in Nat /\ t + 2 * Base - d < 2 * Base /\ 0 \in Nat
        /\ 2 * Base \in Positive /\ ~(t + 2 * Base - d < Base)
    BY SMT, <1>2, Widths DEF Positive
  <2>3. Difference(p, d) = t + 2 * Base - d
    BY <2>1, <2>2, DivideUniquely DEF Difference
  <2> QED
    BY <1>2, <2>2, <2>3 DEF DivideStep, Subtracts
<1> QED
  BY <1>1, <1>2

\* It takes the loop invariant from one bit of the quotient to the next:
\* the remainder stays below the divisor in its new place, and so what is
\* not subtracted from has no bit to push out.
LEMMA QuotientSoFar ==
  ASSUME NEW d \in Nat, NEW left \in Nat, NEW q \in Nat,
         NEW P \in Positive, NEW R \in Positive,
         P * (2 * R) = Base, d < Base, q < P, left < d * (2 * R)
  PROVE  \E l, r \in Nat :
           /\ DivideStep(left * P + q, d) = l * (2 * P) + r
           /\ r < 2 * P /\ l < d * R
           /\ l + d * r * R = left + d * q * (2 * R)
           /\ IF Subtracts(left * P + q, d) THEN r = 2 * q + 1
              ELSE (left * P + q) \div (Base * Half) = 0
<1> DEFINE p == left * P + q
           t == left \div R
           s == left % R
<1>1. t \in Nat /\ s \in Nat /\ s < R /\ left = t * R + s
  BY DivideEquation
<1>2. t < 2 * d
  <2>1. d * (2 * R) = (2 * d) * R /\ 2 * d \in Nat
    BY SMT DEF Positive
  <2> QED
    BY <2>1, QuotientBound
<1> HIDE DEF t, s
<1>3. P * R = Half
  <2>1. 2 * (P * R) = 2 * Half /\ P * R \in Nat
    BY SMT, Widths DEF Positive
  <2> QED
    BY SMT, <2>1, Widths DEF Positive
<1>4. p \in Nat
  BY SMT DEF Positive
<1>5. p = t * Half + (s * P + q)
  <2>1. (t * R + s) * P = t * (P * R) + s * P
    BY SMT, <1>1 DEF Positive
  <2>2. t * Half \in Nat /\ s * P \in Nat
    BY SMT, <1>1, Widths DEF Positive
  <2> QED
    BY SMT, <1>1, <1>3, <2>1, <2>2
<1>6. s * P + q \in Nat /\ s * P + q < Half
  <2>1. s * P + P <= R * P /\ R * P = Half /\ s * P \in Nat
    <3>1. R * P = P * R
      BY SMT DEF Positive
    <3>2. (s + 1) * P <= R * P
      BY SMT, <1>1 DEF Positive
    <3>3. (s + 1) * P = s * P + P /\ s * P \in Nat
      BY SMT, <1>1 DEF Positive
    <3> QED
      BY <1>3, <3>1, <3>2, <3>3
  <2> QED
    BY SMT, <2>1, Widths DEF Positive
<1>7. p \div Half = t /\ p % Half = s * P + q
  <2> HIDE DEF p
  <2> QED
    BY <1>1, <1>4, <1>5, <1>6, Widths, DivideUniquely
<1>8. /\ Subtracts(p, d) <=> d <= t
      /\ DivideStep(p, d) = IF d <= t THEN (t - d) * Base + (s * P + q) * 2 + 1
                                      ELSE (p * 2) % (Base * Base)
  <2> HIDE DEF p
  <2> QED
    BY <1>1, <1>2, <1>4, <1>7, SubtractAndShift
<1>9. CASE d <= t
  <2> DEFINE l == (t - d) * R + s
             r == 2 * q + 1
  <2>1. PICK e \in Nat : e = t - d
    BY SMT, <1>1, <1>9
  <2>2. l \in Nat /\ r \in Nat /\ r < 2 * P
    BY SMT, <1>1, <2>1 DEF Positive
  <2>3. DivideStep(p, d) = l * (2 * P) + r
    <3>1. e * (P * (2 * R)) + (s * P + q) * 2 + 1 = (e * R + s) * (2 * P) + (2 * q + 1)
      BY SMT, <1>1 DEF Positive
    <3> QED
      BY <1>8, <1>9, <2>1, <3>1
  <2>4. l < d * R
    <3>1. e + 1 <= d
      BY SMT, <1>1, <1>2, <2>1
    <3>2. (e + 1) * R <= d * R
      BY SMT, <3>1 DEF Positive
    <3>3. (e + 1) * R = e * R + R /\ e * R \in Nat /\ d * R \in Nat
      BY SMT DEF Positive
    <3>4. e * R + s < d * R
      BY SMT, <1>1, <3>2, <3>3 DEF Positive
    <3> QED
      BY <2>1, <3>4
  <2>5. l + d * r * R = left + d * q * (2 * R)
    <3>1. e * R + d * R = t * R
      <4>1. (e + d) * R = e * R + d * R
        BY SMT DEF Positive
      <4>2. e + d = t
        BY SMT, <1>1, <2>1
      <4> QED
        BY <4>1, <4>2
    <3>2. d * (2 * q + 1) * R = d * q * (2 * R) + d * R
      BY SMT DEF Positive
    <3>3. e * R \in Nat /\ d * R \in Nat /\ t * R \in Nat /\ d * q * (2 * R) \in Nat
      BY SMT, <1>1 DEF Positive
    <3>4. e * R + s + d * (2 * q + 1) * R = left + d * q * (2 * R)
      BY SMT, <1>1, <3>1, <3>2, <3>3
    <3> QED
      BY <2>1, <3>4
  <2>6. Subtracts(p, d) /\ r = 2 * q + 1
    BY <1>8, <1>9
  <2> QED
    BY <2>2, <2>3, <2>4, <2>5, <2>6
<1>10. CASE ~(d <= t)
  <2> DEFINE r == 2 * q
  <2>1. left < d * R
    <3>1. t + 1 <= d
      BY SMT, <1>1, <1>10
    <3>2. (t + 1) * R <= d * R
      BY SMT, <1>1, <3>1 DEF Positive
    <3>3. (t + 1) * R = t * R + R /\ t * R \in Nat /\ d * R \in Nat
      BY SMT, <1>1 DEF Positive
    <3> QED
      BY SMT, <1>1, <3>2, <3>3 DEF Positive
  <2>2. p * 2 < Base * Base
    <3>1. p < d * Half
      <4>1. (left + 1) * P <= (d * R) * P
        BY SMT, <2>1 DEF Positive
      <4>2. (left + 1) * P = left * P + P /\ (d * R) * P = d * (P * R)
            /\ left * P \in Nat /\ d * (P * R) \in Nat
        BY SMT DEF Positive
      <4> QED
        BY SMT, <1>3, <4>1, <4>2 DEF Positive
    <3>2. (d * Half) * 2 = d * Base /\ d * Half \in Nat
      BY SMT, Widths DEF Positive
    <3>3. d * Base <= Base * Base /\ d * Base \in Nat /\ Base * Base \in Nat
      BY SMT, Widths DEF Positive
    <3> HIDE DEF p
    <3> QED
      BY SMT, <1>4, <3>1, <3>2, <3>3
  <2>3. DivideStep(p, d) = p * 2
    <3>1. p * 2 = 0 * (Base * Base) + p * 2 /\ p * 2 \in Nat /\ 0 \in Nat
          /\ Base * Base \in Positive
      <4> HIDE DEF p
      <4> QED
        BY SMT, <1>4, Widths DEF Positive
    <3>2. (p * 2) % (Base * Base) = p * 2
      <4> HIDE DEF p
      <4> QED
        BY <2>2, <3>1, DivideUniquely
    <3> QED
      BY <1>8, <1>10, <3>2
  <2>4. p * 2 = left * (2 * P) + r /\ r \in Nat /\ r < 2 * P
    BY SMT DEF Positive
  <2>5. left + d * r * R = left + d * q * (2 * R)
    BY SMT DEF Positive
  <2>6. ~Subtracts(p, d) /\ p \div (Base * Half) = 0
    <3>1. p < Base * Half /\ p = 0 * (Base * Half) + p /\ 0 \in Nat /\ Base * Half \in Positive
      <4>1. Base * Base = 2 * (Base * Half) /\ Base * Half \in Positive
        BY SMT, Widths DEF Positive
      <4> HIDE DEF p
      <4> QED
        BY SMT, <1>4, <2>2, <4>1 DEF Positive
    <3> HIDE DEF p
    <3> QED
      BY <1>4, <1>8, <1>10, <3>1, DivideUniquely
  <2> QED
    BY <2>1, <2>3, <2>4, <2>5, <2>6
<1> QED
  BY <1>9, <1>10

-----------------------------------------------------------------------------
\* The phases.

\* A machine with one of its operands loaded has counted the bits it has
\* looked at.  That the weights of the bits done and of those to come make up
\* the weight of a word is carried along: each iteration doubles one and
\* halves the other.
Counted(u) ==
  /\ u.phase \in Phases /\ u.count \in 0 .. W
  /\ u.phase = "S1" => u.count < W
  /\ u.phase = "S2" => u.count = W
  /\ Busy(u) => Weight[u.count] * Weight[W - u.count] = Base

LEMMA CountedNext ==
  ASSUME NEW u, Counted(u), NEW start,
         NEW v, v.phase = NextPhase(u, start), v.count = NextCount(u)
  PROVE  /\ Counted(v)
         /\ Loading(u, start) => v.phase = "S1" /\ v.count = 0
         /\ Busy(v) => Loading(u, start) \/ u.phase = "S1"
<1>1. W \in Nat /\ 0 < W
  BY Widths DEF Positive
<1>2. CASE u.phase = "S1"
  <2>1. u.count \in 0 .. W - 1 /\ v.count = u.count + 1 /\ v.count \in 0 .. W
        /\ v.phase = IF u.count = W - 1 THEN "S2" ELSE "S1"
    BY SMT, <1>1, <1>2 DEF Counted, NextPhase, NextCount
  <2>2. Weight[v.count] * Weight[W - v.count] = Base
    <3> DEFINE a == Weight[u.count]
               b == Weight[W - v.count]
    <3>1. a \in Positive /\ Weight[v.count] = 2 * a /\ Weight[W - u.count] = 2 * b
      BY <2>1, Widths
    <3>2. b \in Positive
      <4>1. W - v.count \in 0 .. W
        BY SMT, <1>1, <2>1
      <4> QED
        BY <4>1, Widths
    <3>3. a * (2 * b) = Base
      BY <1>2, <3>1 DEF Counted, Busy
    <3> HIDE DEF a, b
    <3>4. (2 * a) * b = a * (2 * b)
      BY SMT, <3>1, <3>2 DEF Positive
    <3> QED
      BY <3>1, <3>3, <3>4 DEF b
  <2>3. v.phase \in {"S1", "S2"} /\ (v.phase = "S1" => v.count < W)
        /\ (v.phase = "S2" => v.count = W)
    BY SMT, <1>1, <2>1
  <2> QED
    BY <1>2, <2>1, <2>2, <2>3 DEF Counted, Phases, Loading, Busy
<1>3. CASE u.phase # "S1"
  <2>1. v.count = 0 /\ 0 \in 0 .. W /\ W - 0 = W
    BY SMT, <1>1, <1>3 DEF NextCount
  <2>2. Weight[0] * Weight[W - 0] = Base
    BY SMT, <2>1, Widths DEF Positive
  <2>3. v.phase # "S2" /\ v.phase \in Phases
        /\ (v.phase = "S1" <=> u.phase = "S0" /\ start)
    BY <1>3 DEF Counted, NextPhase, Phases
  <2> QED
    BY <1>1, <1>3, <2>1, <2>2, <2>3 DEF Counted, Loading, Busy
<1> QED
  BY <1>2, <1>3

LEMMA DigitsRange == \A n : n \in Digits <=> n \in Nat /\ n < Base
<1>1. Base \in Nat /\ 0 < Base
  BY Widths DEF Positive
<1> QED
  BY SMT, <1>1 DEF Digits

-----------------------------------------------------------------------------
\* The loops.

\* Loading establishes the multiplier's invariant.
LEMMA MultiplyLoads ==
  ASSUME NEW start, NEW q \in Digits, NEW b \in Digits, Loading(mul, start),
         Counted(mul), Multiply(start, q, b)
  PROVE  Multiplies(q, b)'
<1>1. mul'.regm = q /\ mul'.regp = b /\ mul'.count = 0
  BY DEF Multiply, Loading, NextCount
<1>2. q \in Nat /\ b \in Nat
  BY DigitsRange
<1>3. b % 1 = 0 /\ b \div 1 = b
  BY SMT, <1>2
<1>4. W - 0 = W /\ q * 0 * Base + b = b
  BY SMT, <1>2, Widths DEF Positive
<1> QED
  BY <1>1, <1>3, <1>4, Widths DEF Multiplies

\* An iteration keeps it.
LEMMA MultiplyIterates ==
  ASSUME NEW start, NEW q \in Digits, NEW b \in Digits, mul.phase = "S1",
         Counted(mul), Multiplies(q, b), NEW x, NEW y, Multiply(start, x, y)
  PROVE  Multiplies(q, b)'
<1> DEFINE k == mul.count
           P == Weight[k]
           R == Weight[W - (k + 1)]
<1>1. k \in 0 .. W - 1 /\ W - (k + 1) \in 0 .. W
  BY SMT, Widths DEF Counted, Positive
<1>2. /\ P \in Positive /\ R \in Positive
      /\ Weight[k + 1] = 2 * P /\ Weight[W - k] = 2 * R
  BY SMT, <1>1, Widths
<1>3. P * (2 * R) = Base
  BY <1>2 DEF Counted, Busy
<1>4. /\ mul'.count = k + 1 /\ mul'.regm = q
      /\ mul'.regp = MultiplyStep(q * (b % P) * (2 * R) + b \div P, q)
  BY <1>2 DEF Multiply, Loading, Stepping, NextCount, Multiplies
<1>5. q \in Nat /\ b \in Nat
  BY DigitsRange
<1>6. mul'.regp = q * (b % (2 * P)) * R + b \div (2 * P)
  <2> HIDE DEF P, R
  <2> QED
    BY <1>2, <1>3, <1>4, <1>5, ProductSoFar
<1> QED
  BY <1>2, <1>4, <1>6 DEF Multiplies

\* With the last bit done the register is the product.
LEMMA MultiplyEnds ==
  ASSUME NEW q \in Digits, NEW b \in Digits, mul.count = W, Multiplies(q, b)
  PROVE  mul.regp = q * b
<1>1. q \in Nat /\ b \in Nat /\ b < Base
  BY DigitsRange
<1>2. b % Base = b /\ b \div Base = 0
  <2>1. b = 0 * Base + b /\ 0 \in Nat
    BY SMT, <1>1, Widths DEF Positive
  <2> QED
    BY <1>1, <2>1, Widths, DivideUniquely
<1>3. W - W = 0 /\ q * b * 1 + 0 = q * b
  BY SMT, <1>1, Widths DEF Positive
<1> QED
  BY <1>2, <1>3, Widths DEF Multiplies

\* The same for the divider, when the quotient fits in a word.
LEMMA DivideLoads ==
  ASSUME NEW start, NEW a \in Digits, NEW q \in Digits, NEW b \in Digits, a < b,
         Loading(div, start), Counted(div), Divide(start, a * Base + q, b)
  PROVE  Divides(a * Base + q, b)'
<1> DEFINE D == a * Base + q
<1>1. div'.regm = b /\ div'.regp = D /\ div'.count = 0
  BY DEF Divide, Loading, NextCount
<1>2. a \in Nat /\ q \in Nat /\ b \in Nat /\ q < Base
  BY DigitsRange
<1>3. D \in Nat /\ D < b * Base
  <2>1. (a + 1) * Base <= b * Base
    BY SMT, <1>2, Widths DEF Positive
  <2>2. (a + 1) * Base = a * Base + Base /\ a * Base \in Nat /\ b * Base \in Nat
    BY SMT, <1>2, Widths DEF Positive
  <2> QED
    BY SMT, <1>2, <2>1, <2>2, Widths DEF Positive
<1> HIDE DEF D
<1>4. D % 1 = 0 /\ D \div 1 = D
  BY SMT, <1>3
<1>5. W - 0 = W /\ D + b * 0 * Base = D
  BY SMT, <1>2, <1>3, Widths DEF Positive
<1>6. Divides(D, b)'
  BY <1>1, <1>3, <1>4, <1>5, Widths DEF Divides
<1> QED
  BY <1>6 DEF D

LEMMA DivideIterates ==
  ASSUME NEW start, NEW D \in Nat, NEW b \in Digits, div.phase = "S1", div.regp \in Nat,
         Counted(div), Divides(D, b), NEW x, NEW y, Divide(start, x, y)
  PROVE  Divides(D, b)'
<1> DEFINE k == div.count
           P == Weight[k]
           R == Weight[W - (k + 1)]
           left == div.regp \div P
           q == div.regp % P
<1>1. k \in 0 .. W - 1 /\ W - (k + 1) \in 0 .. W
  BY SMT, Widths DEF Counted, Positive
<1>2. /\ P \in Positive /\ R \in Positive
      /\ Weight[k + 1] = 2 * P /\ Weight[W - k] = 2 * R
  BY SMT, <1>1, Widths
<1>3. P * (2 * R) = Base
  BY <1>2 DEF Counted, Busy
<1>4. /\ div'.count = k + 1 /\ div'.regm = b
      /\ div'.regp = DivideStep(div.regp, b)
  BY DEF Divide, Loading, Stepping, NextCount, Divides
<1>5. b \in Nat /\ b < Base
  BY DigitsRange
<1>6. left \in Nat /\ q \in Nat /\ q < P /\ div.regp = left * P + q
  <2> HIDE DEF P
  <2> QED
    BY <1>2, DivideEquation
<1>7. left < b * (2 * R) /\ left + b * q * (2 * R) = D
  BY <1>2 DEF Divides
<1>8. PICK l, r \in Nat : /\ div'.regp = l * (2 * P) + r
                          /\ r < 2 * P /\ l < b * R
                          /\ l + b * r * R = D
                          /\ IF Subtracts(div.regp, b) THEN r = 2 * q + 1
                             ELSE div.regp \div (Base * Half) = 0
  <2> HIDE DEF P, R, left, q
  <2> QED
    BY <1>2, <1>3, <1>4, <1>5, <1>6, <1>7, QuotientSoFar
<1>9. div'.regp \div (2 * P) = l /\ div'.regp % (2 * P) = r
  <2>1. 2 * P \in Positive /\ l * (2 * P) + r \in Nat
    <3> HIDE DEF P
    <3> QED
      BY SMT, <1>2 DEF Positive
  <2> HIDE DEF P
  <2> QED
    BY <1>8, <2>1, DivideUniquely
<1>10. div'.link = 0 \/ r = 2 * P - 1
  <2>1. div'.link = IF Subtracts(div.regp, b) THEN div.link ELSE div.regp \div (Base * Half)
    BY DEF Divide, Stepping, Divides
  <2>2. div.link = 0 \/ q = P - 1
    BY DEF Divides
  <2>3. 2 * (P - 1) + 1 = 2 * P - 1
    BY SMT, <1>2 DEF Positive
  <2> HIDE DEF P, q
  <2> QED
    BY <1>8, <2>1, <2>2, <2>3
<1> QED
  BY <1>2, <1>4, <1>8, <1>9, <1>10 DEF Divides

\* With the last bit done the quotient is below, the remainder above.
LEMMA DivideEnds ==
  ASSUME NEW D \in Nat, NEW b \in Digits, div.count = W, div.regp \in Nat, Divides(D, b)
  PROVE  /\ div.regp \div Base = D % b /\ div.regp % Base = D \div b
         /\ div.regp \div Base < b
         /\ div.regp % Base # Base - 1 => div.link = 0
<1> DEFINE left == div.regp \div Base
           q == div.regp % Base
<1>1. left \in Nat /\ q \in Nat
  BY DivideEquation, Widths
<1>2. left + b * q * 1 = D /\ left < b * 1 /\ (div.link = 0 \/ q = Base - 1)
  <2>1. W - W = 0
    BY SMT, Widths DEF Positive
  <2> QED
    BY <2>1, Widths DEF Divides
<1> HIDE DEF left, q
<1>3. b \in Nat
  BY DigitsRange
<1>4. D = q * b + left /\ left < b /\ b \in Positive
  <2>1. b * q * 1 = q * b /\ q * b \in Nat /\ b * 1 = b
    BY SMT, <1>1, <1>3
  <2> QED
    BY SMT, <1>1, <1>2, <1>3, <2>1 DEF Positive
<1>5. D \div b = q /\ D % b = left
  BY <1>1, <1>4, DivideUniquely
<1> QED
  BY <1>2, <1>4, <1>5 DEF left, q

-----------------------------------------------------------------------------
\* The types.

Registered == 0 .. Base * Base - 1

LEMMA RegisteredRange ==
  /\ \A n : n \in Registered <=> n \in Nat /\ n < Base * Base
  /\ Base * Base = Base * Half * 2 /\ Base * Half \in Positive
<1>1. Base * Base \in Nat /\ 0 < Base * Base
      /\ Base * Base = Base * Half * 2 /\ Base * Half \in Positive
  BY SMT, Widths DEF Positive
<1> QED
  BY SMT, <1>1 DEF Registered

\* A register of two words keeps to two words.
LEMMA StepsRegister ==
  ASSUME NEW p \in Registered, NEW d \in Digits
  PROVE  /\ MultiplyStep(p, d) \in Registered
         /\ DivideStep(p, d) \in Registered
         /\ p \div (Base * Half) \in 0 .. 1
         /\ p \div Base \in Digits /\ p % Base \in Digits
<1>1. /\ p \in Nat /\ p < Base * Base /\ d \in Nat /\ d < Base
      /\ Base * Base = Base * Half * 2 /\ Base * Half \in Positive
  BY RegisteredRange, DigitsRange
<1>2. MultiplyStep(p, d) \in Registered
  <2> DEFINE h == p \div 2
             b == p % 2
             n == d * Half
  <2>1. h \in Nat /\ b \in {0, 1} /\ p = 2 * h + b
    BY SMT, <1>1
  <2>2. n \in Nat /\ n <= Base * Half
    BY SMT, <1>1, Widths DEF Positive
  <2> HIDE DEF h, b, n
  <2>3. h < Base * Half
    BY SMT, <1>1, <2>1 DEF Positive
  <2>4. h + b * n \in Nat /\ h + b * n < Base * Base
    <3>1. CASE b = 0
      BY SMT, <1>1, <2>1, <2>2, <3>1 DEF Positive
    <3>2. CASE b = 1
      BY SMT, <1>1, <2>1, <2>2, <2>3, <3>2 DEF Positive
    <3> QED
      BY <2>1, <3>1, <3>2
  <2>5. MultiplyStep(p, d) = h + b * n
    BY <1>1, AddAndShift DEF h, b, n
  <2> QED
    BY <2>4, <2>5, RegisteredRange
<1>3. DivideStep(p, d) \in Registered
  <2> DEFINE e == Difference(p, d)
             v == p % Half
  <2>1. v \in Nat /\ v < Half
    BY <1>1, Widths, DivideEquation
  <2>2. e \in Nat
    <3> DEFINE t == p \div Half
    <3>1. t \in Nat
      BY <1>1, Widths, DivideEquation
    <3> HIDE DEF t
    <3>2. t + 2 * Base - d \in Nat /\ 2 * Base \in Positive
      BY SMT, <1>1, <3>1, Widths DEF Positive
    <3>3. (t + 2 * Base - d) % (2 * Base) \in Nat
      BY <3>2, DivideEquation
    <3> QED
      BY <3>3 DEF Difference, t
  <2>3. DivideStep(p, d) = IF e < Base THEN e * Base + v * 2 + 1 ELSE (p * 2) % (Base * Base)
    BY DEF DivideStep, Subtracts
  <2> HIDE DEF e, v
  <2>4. ASSUME e < Base
        PROVE  e * Base + v * 2 + 1 \in Nat /\ e * Base + v * 2 + 1 < Base * Base
    <3>1. (e + 1) * Base <= Base * Base
      BY SMT, <2>2, <2>4, Widths DEF Positive
    <3>2. (e + 1) * Base = e * Base + Base /\ e * Base \in Nat /\ Base * Base \in Nat
      BY SMT, <2>2, Widths DEF Positive
    <3>3. v * 2 + 1 < Base
      BY SMT, <2>1, Widths DEF Positive
    <3> QED
      BY SMT, <2>1, <3>1, <3>2, <3>3, Widths DEF Positive
  <2>5. (p * 2) % (Base * Base) \in Nat /\ (p * 2) % (Base * Base) < Base * Base
    <3>1. p * 2 \in Nat /\ Base * Base \in Positive
      BY SMT, <1>1, Widths DEF Positive
    <3> QED
      BY <3>1, DivideEquation
  <2> QED
    BY <2>3, <2>4, <2>5, RegisteredRange
<1>4. p \div (Base * Half) \in 0 .. 1
  <2>1. p < 2 * (Base * Half) /\ 2 \in Nat
    BY SMT, <1>1 DEF Positive
  <2>2. p \div (Base * Half) \in Nat /\ p \div (Base * Half) < 2
    BY <1>1, <2>1, QuotientBound, DivideEquation
  <2> QED
    BY SMT, <2>2
<1>5. p \div Base \in Digits /\ p % Base \in Digits
  <2>1. p \div Base \in Nat /\ p % Base \in Nat /\ p % Base < Base
    BY <1>1, Widths, DivideEquation
  <2>2. p \div Base < Base
    BY <1>1, Widths, QuotientBound DEF Positive
  <2> QED
    BY <2>1, <2>2, DigitsRange
<1> QED
  BY <1>2, <1>3, <1>4, <1>5

\* Two digits make a dividend.
LEMMA TwoDigits ==
  ASSUME NEW a \in Digits, NEW q \in Digits
  PROVE  a * Base + q \in Registered /\ a \in Registered
<1>1. a \in Nat /\ a < Base /\ q \in Nat /\ q < Base
  BY DigitsRange
<1>2. (a + 1) * Base <= Base * Base
  BY SMT, <1>1, Widths DEF Positive
<1>3. (a + 1) * Base = a * Base + Base /\ a * Base \in Nat /\ Base * Base \in Nat
  BY SMT, <1>1, Widths DEF Positive
<1>4. a <= a * Base
  BY SMT, <1>1, Widths DEF Positive
<1>5. /\ a * Base + q \in Nat /\ a * Base + q < Base * Base
      /\ a < Base * Base
  BY SMT, <1>1, <1>2, <1>3, <1>4, Widths DEF Positive
<1> QED
  BY <1>1, <1>5, RegisteredRange

LEMMA EaeTyped ==
  EaeTypeOK <=>
    /\ mul \in [phase : Phases, count : 0 .. W, regm : Digits, regp : Registered]
    /\ div \in [phase : Phases, count : 0 .. W, regm : Digits, regp : Registered, link : 0 .. 1]
    /\ mul.phase = "S1" => mul.count < W
    /\ div.phase = "S1" => div.count < W
    /\ eaeOut \in [acMul : Digits, mqMul : Digits, acDvi : Digits, mqDvi : Digits]
  BY DEF EaeTypeOK, Digits, Registered

\* An edge of the clock keeps the types, given the counts.
LEMMA ClockTypes ==
  ASSUME EaeTypeOK, Counted(mul), Counted(div), NEW start \in BOOLEAN,
         NEW ac \in Digits, NEW mq \in Digits, NEW mb \in Digits, EaeClock(start, ac, mq, mb)
  PROVE  /\ EaeTypeOK' /\ Counted(mul)' /\ Counted(div)'
<1>1. /\ mul \in [phase : Phases, count : 0 .. W, regm : Digits, regp : Registered]
      /\ div \in [phase : Phases, count : 0 .. W, regm : Digits, regp : Registered, link : 0 .. 1]
      /\ eaeOut \in [acMul : Digits, mqMul : Digits, acDvi : Digits, mqDvi : Digits]
  BY EaeTyped
<1>2. /\ mul'.phase = NextPhase(mul, start) /\ mul'.count = NextCount(mul)
      /\ div'.phase = NextPhase(div, start) /\ div'.count = NextCount(div)
  BY DEF EaeClock, Multiply, Divide
<1>3. Counted(mul') /\ Counted(div')
  BY <1>2, CountedNext
<1>4. mul' \in [phase : Phases, count : 0 .. W, regm : Digits, regp : Registered]
  <2>1. MultiplyStep(mul.regp, mul.regm) \in Registered
    BY <1>1, StepsRegister
  <2>2. mb \in Registered
    BY TwoDigits
  <2> QED
    BY <1>1, <1>2, <1>3, <2>1, <2>2 DEF EaeClock, Multiply, Counted
<1>5. div' \in [phase : Phases, count : 0 .. W, regm : Digits, regp : Registered, link : 0 .. 1]
  <2>1. /\ DivideStep(div.regp, div.regm) \in Registered
        /\ div.regp \div (Base * Half) \in 0 .. 1
    BY <1>1, StepsRegister
  <2>2. ac * Base + mq \in Registered
    BY TwoDigits
  <2> QED
    BY <1>1, <1>2, <1>3, <2>1, <2>2 DEF EaeClock, Divide, Counted
<1>6. eaeOut' \in [acMul : Digits, mqMul : Digits, acDvi : Digits, mqDvi : Digits]
  <2>1. /\ mul.regp \div Base \in Digits /\ mul.regp % Base \in Digits
        /\ div.regp \div Base \in Digits /\ div.regp % Base \in Digits
    BY <1>1, StepsRegister
  <2> QED
    BY <1>1, <2>1 DEF EaeClock, Results
<1>7. (mul'.phase = "S1" => mul'.count < W) /\ (div'.phase = "S1" => div'.count < W)
  BY <1>3 DEF Counted
<1> QED
  BY <1>3, <1>4, <1>5, <1>6, <1>7, EaeTyped DEF EaeTypeOK, Digits, Registered

-----------------------------------------------------------------------------
\* The specification.

\* The loop invariants with what makes them inductive.
RInv == /\ RTypeOK /\ LockStep
        /\ Counted(mul) /\ Counted(div)
        /\ MultiplyLoop /\ DivideLoop

LEMMA InitResults == RInit => RInv
<1> SUFFICES ASSUME RInit PROVE RInv
  OBVIOUS
<1>1. 0 \in Digits /\ 0 \in Registered /\ 0 \in 0 .. W
  <2>1. 0 \in Nat /\ 0 < Base /\ 0 < Base * Base /\ 0 \in 0 .. W
    BY SMT, Widths DEF Positive
  <2> QED
    BY <2>1, DigitsRange, RegisteredRange
<1>2. EaeTypeOK
  BY <1>1, EaeTyped DEF RInit, EaeInit, Phases
<1>3. mul.phase = "S0" /\ div.phase = "S0" /\ mul.count = 0 /\ div.count = 0
  BY DEF RInit, EaeInit
<1>4. Counted(mul) /\ Counted(div)
  BY <1>1, <1>3 DEF Counted, Phases, Busy
<1> QED
  BY <1>1, <1>2, <1>3, <1>4
     DEF RInv, RInit, RTypeOK, LockStep, MultiplyLoop, DivideLoop, Busy

LEMMA ClockResults ==
  ASSUME RInv, NEW start \in BOOLEAN,
         NEW ac \in Digits, NEW mq \in Digits, NEW mb \in Digits, RClock(start, ac, mq, mb)
  PROVE  RInv'
<1>1. EaeTypeOK' /\ Counted(mul)' /\ Counted(div)'
  BY ClockTypes DEF RInv, RTypeOK, RClock
<1>2. /\ mul'.phase = NextPhase(mul, start) /\ mul'.count = NextCount(mul)
      /\ div'.phase = NextPhase(div, start) /\ div'.count = NextCount(div)
  BY DEF RClock, EaeClock, Multiply, Divide
<1>3. LockStep'
  BY <1>2 DEF RInv, LockStep, NextPhase, NextCount
<1>4. job' \in [ac : Digits, mq : Digits, mb : Digits]
  BY DEF RInv, RTypeOK, RClock
<1>5. /\ Multiply(start, mq, mb) /\ Divide(start, ac * Base + mq, mb)
      /\ job' = IF Loading(mul, start) THEN [ac |-> ac, mq |-> mq, mb |-> mb] ELSE job
  BY DEF RClock, EaeClock
<1>6. /\ Busy(mul') => Loading(mul, start) \/ mul.phase = "S1"
      /\ Busy(div') => Loading(div, start) \/ div.phase = "S1"
      /\ Loading(mul, start) <=> Loading(div, start)
      /\ mul.phase = "S1" => ~Loading(mul, start)
      /\ div.phase = "S1" => ~Loading(div, start)
  <2>1. /\ Busy(mul') => Loading(mul, start) \/ mul.phase = "S1"
        /\ Busy(div') => Loading(div, start) \/ div.phase = "S1"
    BY <1>2, CountedNext DEF RInv
  <2> QED
    BY <2>1 DEF Loading, RInv, LockStep
<1>7. MultiplyLoop'
  <2>1. CASE Loading(mul, start)
    BY <1>5, <2>1, MultiplyLoads DEF MultiplyLoop, RInv
  <2>2. CASE mul.phase = "S1"
    <3>1. job.mq \in Digits /\ job.mb \in Digits /\ job' = job
      BY <1>5, <1>6, <2>2 DEF RInv, RTypeOK
    <3>2. Multiplies(job.mq, job.mb)
      BY <2>2 DEF RInv, MultiplyLoop, Busy
    <3> DEFINE q == job.mq
               b == job.mb
    <3>3. q' = q /\ b' = b
      BY <3>1
    <3>4. \A x, y \in Digits : Multiplies(x, y) => Multiplies(x, y)'
      BY <1>5, <2>2, MultiplyIterates DEF RInv
    <3> QED
      BY <3>1, <3>2, <3>4 DEF MultiplyLoop, Multiplies
  <2> QED
    BY <1>6, <2>1, <2>2 DEF MultiplyLoop
<1>8. DivideLoop'
  <2>1. CASE Loading(div, start)
    <3>1. job' = [ac |-> ac, mq |-> mq, mb |-> mb]
      BY <1>5, <1>6, <2>1
    <3>2. ac < mb => Divides(ac * Base + mq, mb)'
      BY <1>5, <2>1, DivideLoads DEF RInv
    <3> QED
      BY <3>1, <3>2 DEF DivideLoop, Divides
  <2>2. CASE div.phase = "S1"
    <3>1. job.ac \in Digits /\ job.mq \in Digits /\ job.mb \in Digits /\ job' = job
      BY <1>5, <1>6, <2>2 DEF RInv, RTypeOK
    <3>2. job.ac < job.mb => Divides(job.ac * Base + job.mq, job.mb)
      BY <2>2 DEF RInv, DivideLoop, Busy
    <3>3. job.ac * Base + job.mq \in Nat /\ div.regp \in Nat
      BY <3>1, TwoDigits, RegisteredRange, EaeTyped DEF RInv, RTypeOK
    <3>4. \A x \in Nat : \A y \in Digits : Divides(x, y) => Divides(x, y)'
      BY <1>5, <2>2, <3>3, DivideIterates DEF RInv
    <3> QED
      BY <3>1, <3>2, <3>3, <3>4 DEF DivideLoop, Divides
  <2> QED
    BY <1>6, <2>1, <2>2 DEF DivideLoop
<1> QED
  BY <1>1, <1>3, <1>4, <1>7, <1>8 DEF RInv, RTypeOK

LEMMA StepResults == RInv /\ [RNext]_<<eaeVars, job>> => RInv'
<1> SUFFICES ASSUME RInv, [RNext]_<<eaeVars, job>> PROVE RInv'
  OBVIOUS
<1>1. CASE RNext
  BY <1>1, ClockResults DEF RNext
<1>2. CASE UNCHANGED <<eaeVars, job>>
  BY <1>2 DEF eaeVars, RInv, RTypeOK, EaeTypeOK, LockStep, Counted, Busy, MultiplyLoop,
              Multiplies, DivideLoop, Divides
<1> QED
  BY <1>1, <1>2

LEMMA ResultsInvariant == RSpec => []RInv
  BY InitResults, StepResults, PTL DEF RSpec

\* Types: no register of the multiplier or divider overflows, whatever is
\* loaded and whenever start falls.
THEOREM ResultsTyped == RSpec => []RTypeOK
<1>1. RInv => RTypeOK
  BY DEF RInv
<1> QED
  BY <1>1, ResultsInvariant, PTL

\* The multiplier's finish is the divider's.
THEOREM InLockStep == RSpec => []LockStep
<1>1. RInv => LockStep
  BY DEF RInv
<1> QED
  BY <1>1, ResultsInvariant, PTL

\* Add and shift computes the product, bit by bit.
THEOREM Multiplication == RSpec => []MultiplyLoop
<1>1. RInv => MultiplyLoop
  BY DEF RInv
<1> QED
  BY <1>1, ResultsInvariant, PTL

\* Subtract and shift computes quotient and remainder, bit by bit.
THEOREM Division == RSpec => []DivideLoop
<1>1. RInv => DivideLoop
  BY DEF RInv
<1> QED
  BY <1>1, ResultsInvariant, PTL

\* What the result registers take when finished is seen.
\* As long as start is held and the operands do not change, both machines
\* load them and then iterate on them.
Computing(a, q, b) ==
  /\ Multiplies(q, b)
  /\ a < b => Divides(a * Base + q, b)

Holding(start, a, q, b) ==
  /\ Loading(mul, start) \/ Stepping(mul)
  /\ LockStep /\ Counted(mul) /\ Counted(div)
  /\ mul.phase = "S1" => Computing(a, q, b)

LEMMA HeldStart ==
  ASSUME NEW start, NEW a \in Digits, NEW q \in Digits, NEW b \in Digits,
         EaeTypeOK, Holding(start, a, q, b), EaeClock(start, a, q, b)
  PROVE  mul'.phase # "S3" /\ Computing(a, q, b)'
<1> USE DEF Holding, Computing
<1>1. Multiply(start, q, b) /\ Divide(start, a * Base + q, b)
  BY DEF EaeClock
<1>2. mul'.phase # "S3"
  BY <1>1 DEF Multiply, NextPhase, Loading, Stepping
<1>3. CASE Loading(mul, start)
  <2>1. Loading(div, start)
    BY <1>3 DEF Loading, LockStep
  <2> QED
    BY <1>1, <1>2, <1>3, <2>1, MultiplyLoads, DivideLoads
<1>4. CASE mul.phase = "S1"
  <2>1. Multiplies(q, b)'
    BY <1>1, <1>4, MultiplyIterates
  <2>2. a < b => Divides(a * Base + q, b)'
    <3>1. a * Base + q \in Nat /\ div.regp \in Nat
      BY TwoDigits, RegisteredRange, EaeTyped
    <3> QED
      BY <1>1, <1>4, <3>1, DivideIterates DEF LockStep
  <2> QED
    BY <1>2, <2>1, <2>2
<1> QED
  BY <1>3, <1>4 DEF Stepping

LEMMA FinishedProduct ==
  ASSUME EaeTypeOK, Counted(mul), Finished(mul), Results,
         NEW q \in Digits, NEW b \in Digits, Multiplies(q, b)
  PROVE  eaeOut'.acMul * Base + eaeOut'.mqMul = q * b
<1>1. mul.regp = q * b
  BY MultiplyEnds DEF Counted, Finished
<1>2. mul.regp \in Nat
  BY EaeTyped, RegisteredRange
<1>3. mul.regp = (mul.regp \div Base) * Base + (mul.regp % Base)
  BY <1>2, DivideEquation, Widths
<1> QED
  BY <1>1, <1>3 DEF Results

LEMMA FinishedQuotient ==
  ASSUME EaeTypeOK, Counted(div), Finished(div), Results, NEW start, NEW x, NEW y, Divide(start, x, y),
         NEW D \in Nat, NEW b \in Digits, Divides(D, b)
  PROVE  /\ eaeOut'.mqDvi = D \div b /\ eaeOut'.acDvi = D % b /\ eaeOut'.acDvi < b
         /\ eaeOut'.mqDvi # Base - 1 => div'.link = 0
<1>1. div.regp \in Nat /\ div.count = W
  BY EaeTyped, RegisteredRange DEF Counted, Finished
<1>2. div'.link = div.link
  BY DEF Divide, Finished, Stepping
<1> QED
  BY <1>1, <1>2, DivideEnds DEF Results

\* When finished is seen, the results of the next clock are those of the
\* operands that were loaded, for every width of a word.
THEOREM ResultsAnswer == RSpec => ResultsAnswerJob
<1> DEFINE Answers ==
      EaeFinished =>
        /\ eaeOut'.acMul * Base + eaeOut'.mqMul = job.mq * job.mb
        /\ job.ac < job.mb => /\ eaeOut'.mqDvi = (job.ac * Base + job.mq) \div job.mb
                              /\ eaeOut'.acDvi = (job.ac * Base + job.mq) % job.mb
                              /\ eaeOut'.mqDvi # Base - 1 => div'.link = 0
<1>1. ASSUME RInv, RNext PROVE Answers
  <2> SUFFICES ASSUME EaeFinished
               PROVE  /\ eaeOut'.acMul * Base + eaeOut'.mqMul = job.mq * job.mb
                      /\ job.ac < job.mb =>
                           /\ eaeOut'.mqDvi = (job.ac * Base + job.mq) \div job.mb
                           /\ eaeOut'.acDvi = (job.ac * Base + job.mq) % job.mb
                           /\ eaeOut'.mqDvi # Base - 1 => div'.link = 0
    OBVIOUS
  <2>1. /\ EaeTypeOK /\ Counted(mul) /\ Counted(div) /\ Results
        /\ job.ac \in Digits /\ job.mq \in Digits /\ job.mb \in Digits
    BY <1>1 DEF RInv, RTypeOK, RNext, RClock, EaeClock
  <2>2. Finished(mul) /\ Finished(div) /\ Busy(mul) /\ Busy(div)
    BY <1>1 DEF EaeFinished, Finished, RInv, LockStep, Busy
  <2>3. /\ Multiplies(job.mq, job.mb)
        /\ job.ac < job.mb => Divides(job.ac * Base + job.mq, job.mb)
    BY <1>1, <2>2 DEF RInv, MultiplyLoop, DivideLoop
  <2>4. job.ac * Base + job.mq \in Nat
    BY <2>1, TwoDigits, RegisteredRange
  <2>5. PICK start, x, y : Divide(start, x, y)
    BY <1>1 DEF RNext, RClock, EaeClock
  <2> QED
    BY <2>1, <2>2, <2>3, <2>4, <2>5, FinishedProduct, FinishedQuotient
<1>2. RInv /\ [RNext]_<<eaeVars, job>> => [Answers]_<<eaeVars, job>>
  BY <1>1
<1> QED
  BY <1>2, ResultsInvariant, PTL DEF RSpec, ResultsAnswerJob

=============================================================================
