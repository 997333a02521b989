----------------------------- MODULE VenuesProofs -----------------------------
(***************************************************************************)
(* Proofs about Venues: what is stored and signed for a level, and what is *)
(* drawn of a pool, for any configuration, pools, answers and moves of     *)
(* others; and the types all of it rests on.                               *)
(***************************************************************************)
EXTENDS Venues, PoolProofs

------------------------------------------------------------------------------
(* Base units and slippage.                                                *)

LEMMA FineIs ==
  ASSUME NEW d \in 0 .. Places
  PROVE  Fine(d) \in Nat \ {0}
<1>1. Places \in Nat /\ Fine(d) > 0
  BY ConfigAssumption
<1>2. Fine(d) \in Int
  BY <1>1 DEF Fine
<1> QED
  BY <1>1, <1>2

LEMMA WholeUnits ==
  ASSUME NEW v \in Nat, NEW f \in Nat \ {0}, v % f = 0
  PROVE  (v \div f) * f = v
OBVIOUS

LEMMA Scale ==
  ASSUME NEW a \in Int, NEW b \in Int, NEW c \in Nat, a >= b
  PROVE  a * c >= b * c
OBVIOUS

\* An amount that is read as base units is their number.
LEMMA ParsedIsFormatted ==
  ASSUME NEW v \in Nat, NEW d \in 0 .. Places, parse_units_string(v, d) # None
  PROVE  format_units_string(parse_units_string(v, d), d) = v
<1> DEFINE f == Fine(d)
<1>1. f \in Nat \ {0}
  BY FineIs
<1>2. v % f = 0 /\ parse_units_string(v, d) = v \div f
  BY DEF parse_units_string
<1> HIDE DEF f
<1>3. (v \div f) * f = v
  BY <1>1, <1>2, WholeUnits
<1> QED
  BY <1>2, <1>3 DEF f, format_units_string

\* Rounding slippage down gives away less than a base unit.
LEMMA SlippageKept ==
  ASSUME NEW out \in Nat, NEW s \in Nat, s <= Bps, NEW f \in Nat, NEW least \in Int,
         least >= (out * (Bps - s)) \div Bps
  PROVE  (least * f + f) * Bps >= (out * f) * (Bps - s)
<1>1. Bps \in Nat \ {0}
  BY ConfigAssumption
<1>2. (least + 1) * Bps >= out * (Bps - s)
  BY <1>1
<1>3. ((least + 1) * Bps) * f >= (out * (Bps - s)) * f
  <2> DEFINE a == (least + 1) * Bps
             b == out * (Bps - s)
  <2>1. a \in Int /\ b \in Int
    BY <1>1
  <2> HIDE DEF a, b
  <2>2. a >= b => a * f >= b * f
    BY <2>1, Scale
  <2> QED
    BY <1>2, <2>2 DEF a, b
<1> QED
  BY <1>1, <1>3

LEMMA Products ==
  ASSUME NEW a \in Int, NEW b \in Int, NEW c \in Int
  PROVE  /\ a * b \in Int /\ a * b = b * a /\ (a * b) * c = a * (b * c)
         /\ (a - b) * c = a * c - b * c
OBVIOUS

------------------------------------------------------------------------------
(* Arithmetic in f64: each rounding is off by no more than one part in      *)
(* Precision.                                                              *)

Precision == 2 * Mantissa

\* The fraction is n / d, up to a rounding.
RoundsTo(n, d, fraction) ==
  /\ fraction[1] \in Nat /\ fraction[2] \in Nat \ {0} /\ (n # 0 => fraction[1] # 0)
  /\ (Precision - 1) * n * fraction[2] <= Precision * fraction[1] * d
  /\ Precision * fraction[1] * d <= (Precision + 1) * n * fraction[2]

LEMMA NearestIs ==
  ASSUME NEW n \in Nat, NEW d \in Nat \ {0}
  PROVE  /\ Nearest(n, d) \in Nat /\ Nearest(n, d) >= n \div d
         /\ 2 * (Nearest(n, d) * d) <= 2 * n + d /\ 2 * n <= 2 * (Nearest(n, d) * d) + d
<1> DEFINE floor == n \div d
           rest == n % d
           m == Nearest(n, d)
<1>1. floor \in Nat /\ rest \in 0 .. d - 1 /\ n = floor * d + rest
  OBVIOUS
<1>2. floor % 2 \in {0, 1} /\ (m = floor \/ m = floor + 1)
  BY <1>1 DEF Nearest
<1>3. m = floor => 2 * rest <= d
  BY <1>1, <1>2 DEF Nearest
<1>4. m = floor + 1 => 2 * rest >= d
  BY <1>1, <1>2 DEF Nearest
<1>5. (floor + 1) * d = floor * d + d /\ floor * d \in Nat
  BY <1>1
<1> HIDE DEF floor, rest, m
<1> DEFINE u == floor * d
<1>6. u \in Nat /\ n = u + rest /\ (m = floor => m * d = u) /\ (m = floor + 1 => m * d = u + d)
  BY <1>1, <1>5
<1> HIDE DEF u
<1>7. m \in Nat /\ m >= floor /\ 2 * (m * d) <= 2 * n + d /\ 2 * n <= 2 * (m * d) + d
  BY <1>1, <1>2, <1>3, <1>4, <1>6
<1> QED
  BY <1>7 DEF m, floor

\* The error of half a unit, where a mantissa is at hand.
LEMMA HalfUnit ==
  ASSUME NEW n \in Nat, NEW d \in Nat \ {0}, NEW p \in Nat \ {0}, NEW m \in Nat,
         2 * m <= 2 * n + d, 2 * n <= 2 * m + d, Mantissa * d <= n
  PROVE  /\ (Precision - 1) * n <= Precision * m
         /\ Precision * m <= (Precision + 1) * n
<1>1. Mantissa \in Nat
  BY FloatAssumption
<1>2. Mantissa * (2 * m) <= Mantissa * (2 * n) + n
  <2>1. Mantissa * (2 * m) <= Mantissa * (2 * n + d)
    BY <1>1
  <2> QED
    BY <1>1, <2>1
<1>3. Mantissa * (2 * n) <= Mantissa * (2 * m) + n
  <2>1. Mantissa * (2 * n) <= Mantissa * (2 * m + d)
    BY <1>1
  <2> QED
    BY <1>1, <2>1
<1> QED
  BY <1>1, <1>2, <1>3 DEF Precision

LEMMA RoundedIs ==
  ASSUME NEW n \in Nat, NEW d \in Nat \ {0}, Rounded(n, d) # Infinite
  PROVE  RoundsTo(n, d, Rounded(n, d))
<1>1. Mantissa \in Nat /\ Mantissa >= 4 /\ MaxExponent \in Nat
  BY FloatAssumption
<1>2. CASE n = 0
  <2>1. Rounded(n, d) = <<0, 1>>
    BY <1>2 DEF Rounded
  <2>2. Precision \in Nat
    BY <1>1 DEF Precision
  <2> QED
    BY <1>2, <2>1, <2>2 DEF RoundsTo
<1>3. CASE n # 0
  <2> DEFINE large == n >= Mantissa * d
             fits(k) == IsMantissa(IF large THEN (n \div d) \div 2 ^ k ELSE (n * 2 ^ k) \div d)
             k == CHOOSE i \in 0 .. MaxExponent : fits(i)
             p == 2 ^ k
  <2>1. /\ k \in 0 .. MaxExponent /\ fits(k)
        /\ Rounded(n, d) = RoundedAt(n, d, large, k)
    BY <1>3 DEF Rounded
  <2>2. p \in Nat \ {0}
    <3>1. k \in 0 .. MaxExponent
      BY <2>1
    <3> HIDE DEF k
    <3>2. p > 0 /\ p \in Int
      BY <3>1, FloatAssumption
    <3> HIDE DEF p
    <3> QED
      BY <3>2
  <2>3. CASE large
    <3> DEFINE q == n \div d
               m == Nearest(n, d * p)
    <3>1. Rounded(n, d) = <<m * p, 1>> /\ Mantissa <= q \div p
      BY <2>1, <2>3 DEF RoundedAt, IsMantissa
    <3> HIDE DEF k, p, large
    <3>2. q \in Nat /\ q * d <= n
      BY Quotient
    <3> HIDE DEF q
    <3>3. q \div p \in Nat /\ (q \div p) * p <= q
      BY <2>2, <3>2, Quotient
    <3> DEFINE e == q \div p
    <3>4. e \in Nat /\ e * p <= q /\ Mantissa <= e
      BY <3>1, <3>3
    <3> HIDE DEF e
    <3>5. Mantissa * p <= q
      BY <1>1, <2>2, <3>2, <3>4
    <3>6. (Mantissa * p) * d <= q * d
      BY <1>1, <2>2, <3>2, <3>5
    <3>7. d * p \in Nat \ {0} /\ Mantissa * (d * p) <= n
      BY <1>1, <2>2, <3>2, <3>6
    <3>8. /\ m \in Nat /\ m >= n \div (d * p)
          /\ 2 * (m * (d * p)) <= 2 * n + d * p /\ 2 * n <= 2 * (m * (d * p)) + d * p
      BY <3>7, NearestIs
    <3>9. m # 0
      <4>1. Mantissa <= n \div (d * p)
        BY <1>1, <3>7, Quotient
      <4>2. n \div (d * p) \in Nat
        BY <3>7, Quotient
      <4> DEFINE w == n \div (d * p)
      <4>3. w \in Nat /\ Mantissa <= w /\ m >= w
        BY <3>8, <4>1, <4>2
      <4> HIDE DEF w, m
      <4> QED
        BY <1>1, <3>8, <4>3
    <3> HIDE DEF m
    <3>10. /\ (Precision - 1) * n <= Precision * (m * (d * p))
           /\ Precision * (m * (d * p)) <= (Precision + 1) * n
      <4> DEFINE x == m * (d * p)
                 y == d * p
      <4>1. x \in Nat /\ y \in Nat \ {0} /\ 2 * x <= 2 * n + y /\ 2 * n <= 2 * x + y /\ Mantissa * y <= n
        BY <3>7, <3>8
      <4> HIDE DEF x, y
      <4>2. (Precision - 1) * n <= Precision * x /\ Precision * x <= (Precision + 1) * n
        BY <4>1, HalfUnit
      <4> QED
        BY <4>2 DEF x
    <3>11. Precision * (m * (d * p)) = Precision * (m * p) * d /\ Precision \in Nat
      BY <1>1, <2>2, <3>8 DEF Precision
    <3>12. m * p \in Nat \ {0}
      BY <2>2, <3>8, <3>9
    <3> QED
      BY <3>1, <3>10, <3>11, <3>12 DEF RoundsTo
  <2>4. CASE ~large
    <3> DEFINE v == n * p
               m == Nearest(v, d)
    <3>1. Rounded(n, d) = <<m, p>> /\ Mantissa <= v \div d
      BY <2>1, <2>4 DEF RoundedAt, IsMantissa
    <3> HIDE DEF k, p, large
    <3>2. v \in Nat
      BY <2>2
    <3> HIDE DEF v
    <3>3. v \div d \in Nat /\ (v \div d) * d <= v
      BY <3>2, Quotient
    <3> DEFINE e == v \div d
    <3>4. e \in Nat /\ e * d <= v /\ Mantissa <= e
      BY <3>1, <3>3
    <3> HIDE DEF e
    <3>5. Mantissa * d <= v
      BY <1>1, <3>2, <3>4
    <3>6. /\ m \in Nat /\ m >= e
          /\ 2 * (m * d) <= 2 * v + d /\ 2 * v <= 2 * (m * d) + d
      BY <3>2, NearestIs DEF e
    <3> HIDE DEF m
    <3>7. m # 0
      BY <1>1, <3>4, <3>6
    <3>8. (Precision - 1) * v <= Precision * (m * d) /\ Precision * (m * d) <= (Precision + 1) * v
      <4> DEFINE x == m * d
      <4>1. x \in Nat /\ 2 * x <= 2 * v + d /\ 2 * v <= 2 * x + d
        BY <3>6
      <4> HIDE DEF x
      <4>2. (Precision - 1) * v <= Precision * x /\ Precision * x <= (Precision + 1) * v
        BY <3>2, <3>5, <4>1, HalfUnit
      <4> QED
        BY <4>2 DEF x
    <3>9. /\ Precision \in Nat /\ Precision * (m * d) = Precision * m * d
          /\ (Precision - 1) * v = (Precision - 1) * n * p
          /\ (Precision + 1) * v = (Precision + 1) * n * p
      BY <1>1, <2>2, <3>6 DEF Precision, v
    <3> QED
      BY <2>2, <3>1, <3>6, <3>7, <3>8, <3>9 DEF RoundsTo
  <2> QED
    BY <2>3, <2>4
<1> QED
  BY <1>2, <1>3

LEMMA PrecisionIs == Precision \in Nat /\ Precision >= 8
BY FloatAssumption DEF Precision

\* A limit on what was rounded is one on what was there before, but for the error.
LEMMA LimitBefore ==
  ASSUME NEW x \in Nat, NEW y \in Nat \ {0}, NEW r, RoundsTo(x, y, r),
         NEW u \in Nat, NEW w \in Nat, r[1] * u <= w * r[2]
  PROVE  x * ((Precision - 1) * u) <= (Precision * w) * y
<1> DEFINE T == Precision
           a == r[1]
           b == r[2]
           t == T - 1
<1>1. T \in Nat /\ t \in Nat /\ a \in Nat /\ b \in Nat \ {0}
  BY PrecisionIs DEF RoundsTo
<1>2. t * x * b <= T * a * y /\ a * u <= w * b
  BY DEF RoundsTo
<1> HIDE DEF T, a, b, t
<1>3. (t * x * b) * u <= (T * a * y) * u
  <2> DEFINE l == t * x * b
             m == T * a * y
  <2>1. l \in Nat /\ m \in Nat /\ l <= m
    BY <1>1, <1>2
  <2> HIDE DEF l, m
  <2>2. l * u <= m * u
    BY <2>1, Grows
  <2> QED
    BY <2>2 DEF l, m
<1>4. (a * u) * (T * y) <= (w * b) * (T * y)
  <2> DEFINE l == a * u
             m == w * b
             k == T * y
  <2>1. l \in Nat /\ m \in Nat /\ k \in Nat /\ l <= m
    BY <1>1, <1>2
  <2> HIDE DEF l, m, k
  <2>2. l * k <= m * k
    BY <2>1, Grows
  <2> QED
    BY <2>2 DEF l, m, k
<1>5. (x * (t * u)) * b <= ((T * w) * y) * b
  BY <1>1, <1>3, <1>4
<1>6. x * (t * u) <= (T * w) * y
  <2> DEFINE l == x * (t * u)
             m == (T * w) * y
  <2>1. l \in Int /\ m \in Int /\ l * b <= m * b
    BY <1>1, <1>5
  <2> HIDE DEF l, m
  <2>2. l <= m
    BY <1>1, <2>1, Cancels
  <2> QED
    BY <2>2 DEF l, m
<1> QED
  BY <1>6 DEF t, T

\* What three roundings of the deviation leave of the limit on it.
LEMMA LimitOfThree ==
  ASSUME NEW T \in Nat, T >= 8, NEW B \in Nat \ {0}, NEW L \in 0 .. B,
         NEW I \in Nat, NEW O \in Nat,
         (I - O) * ((T - 1) * ((T - 1) * ((T - 1) * B))) <= (T * (T * (T * L))) * I
  PROVE  I * (B * T - L * T - 4 * B) <= O * (B * T)
<1> DEFINE C == (T - 1) * ((T - 1) * (T - 1))
           Q == T * (T * T)
           K == B * T - L * T - 4 * B
<1>1. C \in Nat \ {0} /\ Q \in Nat /\ L \in Nat /\ L <= B /\ B * T \in Int /\ L * T \in Int
  <2>1. T - 1 \in Nat \ {0}
    OBVIOUS
  <2> DEFINE t == T - 1
  <2> HIDE DEF t
  <2>2. t \in Nat \ {0} => t * (t * t) \in Nat \ {0}
    OBVIOUS
  <2> QED
    BY <2>1, <2>2 DEF t
<1>2. Q * T <= (T + 4) * C
  <2>1. (T + 4) * C - Q * T = T * (T * T) - 9 * (T * T) + 11 * T - 4
    OBVIOUS
  <2>2. T * (T * T) >= 8 * (T * T) /\ T * T >= 8 * T
    OBVIOUS
  <2>3. T = 8 \/ T >= 9
    OBVIOUS
  <2>4. T >= 9 => T * (T * T) >= 9 * (T * T)
    OBVIOUS
  <2>5. (T + 4) * C - Q * T >= 0
    <3>1. CASE T = 8
      BY <3>1
    <3>2. CASE T >= 9
      BY <2>1, <2>4, <3>2
    <3> QED
      BY <2>3, <3>1, <3>2
  <2> QED
    BY <1>1, <2>5
<1>3. (I - O) * (C * B) <= (Q * L) * I
  OBVIOUS
<1> HIDE DEF C, Q
<1>4. (I - O) * (C * B) * T <= ((T + 4) * C * L) * I
  <2>1. ((I - O) * (C * B)) * T <= ((Q * L) * I) * T
    <3> DEFINE l == (I - O) * (C * B)
               m == (Q * L) * I
    <3>1. l \in Int /\ m \in Int /\ l <= m
      BY <1>1, <1>3
    <3> HIDE DEF l, m
    <3>2. l * T <= m * T
      BY <3>1, Scale
    <3> QED
      BY <3>2 DEF l, m
  <2>2. (Q * T) * (L * I) <= ((T + 4) * C) * (L * I)
    <3> DEFINE l == Q * T
               m == (T + 4) * C
               k == L * I
    <3>1. l \in Nat /\ m \in Nat /\ k \in Nat /\ l <= m
      BY <1>1, <1>2
    <3> HIDE DEF l, m, k
    <3>2. l * k <= m * k
      BY <3>1, Grows
    <3> QED
      BY <3>2 DEF l, m, k
  <2> QED
    BY <1>1, <2>1, <2>2
<1>5. (I * (B * T - (T + 4) * L)) * C <= (O * (B * T)) * C
  BY <1>1, <1>4
<1>6. I * (B * T - (T + 4) * L) <= O * (B * T)
  <2> DEFINE l == I * (B * T - (T + 4) * L)
             m == O * (B * T)
  <2>1. l \in Int /\ m \in Int /\ l * C <= m * C
    BY <1>1, <1>5
  <2> HIDE DEF l, m
  <2>2. l <= m
    BY <1>1, <2>1, Cancels
  <2> QED
    BY <2>2 DEF l, m
<1>7. I * K <= I * (B * T - (T + 4) * L)
  <2> DEFINE k == B * T - (T + 4) * L
  <2>1. K \in Int /\ k \in Int /\ K <= k
    BY <1>1
  <2> HIDE DEF K, k
  <2>2. K * I <= k * I
    BY <2>1, Scale
  <2> QED
    BY <2>1, <2>2 DEF k
<1>8. I * K \in Int /\ I * (B * T - (T + 4) * L) \in Int /\ O * (B * T) \in Int
  BY <1>1
<1> HIDE DEF K
<1>9. I * K <= O * (B * T)
  BY <1>6, <1>7, <1>8
<1> QED
  BY <1>9 DEF K

\* What is infinite stays so.
LEMMA StaysInfinite ==
  ASSUME NEW n \in Nat \ {0}
  PROVE  Rounded(n, 0) = Infinite
BY DEF Rounded

Fraction(x) == x[1] \in Nat /\ x[2] \in Nat \ {0}

\* Dollars that pass the check are finite, and the input is no more than the output but
\* for the deviation.
LEMMA DeviationKept ==
  ASSUME NEW in, Fraction(in), in[1] # 0, NEW out, out # Infinite => Fraction(out),
         NEW L \in 0 .. Bps,
         NEW apart, apart = Apart(in, out),
         NEW share, share = Rounded(apart[1] * in[2], apart[2] * in[1]),
         NEW dev, dev = Rounded(share[1] * Bps, share[2]), dev[1] <= L * dev[2]
  PROVE  /\ Fraction(out)
         /\ (in[1] * out[2]) * (Bps * Precision - L * Precision - 4 * Bps)
              <= (out[1] * in[2]) * (Bps * Precision)
<1> DEFINE T == Precision
           t == T - 1
           B == Bps
<1>1. B \in Nat \ {0} /\ L \in Nat /\ T \in Nat /\ T >= 8 /\ t \in Nat
  BY ConfigAssumption, PrecisionIs
<1>2. in[1] \in Nat \ {0} /\ in[2] \in Nat \ {0}
  BY DEF Fraction
<1>3. dev # Infinite
  BY <1>1 DEF Infinite
<1>4. share # Infinite
  <2>1. share = Infinite => dev = Rounded(1 * B, 0)
    BY DEF Infinite
  <2> QED
    BY <1>1, <1>3, <2>1, StaysInfinite
<1>5. apart # Infinite
  <2>1. apart = Infinite => share = Rounded(in[2], 0)
    <3>1. 1 * in[2] = in[2] /\ 0 * in[1] = 0
      BY <1>2
    <3>2. apart = Infinite => share = Rounded(1 * in[2], 0 * in[1])
      BY DEF Infinite
    <3> QED
      BY <3>1, <3>2
  <2> QED
    BY <1>2, <1>4, <2>1, StaysInfinite
<1>6. out # Infinite
  <2>1. out = Infinite => apart = Rounded(in[2], 0)
    <3>1. abs(in[1] * 0 - 1 * in[2]) = in[2] /\ in[2] * 0 = 0
      <4> DEFINE x == in[1]
                 y == in[2]
      <4>1. x \in Nat /\ y \in Nat \ {0}
        BY <1>2
      <4> HIDE DEF x, y
      <4>2. x * 0 - 1 * y = -y /\ y * 0 = 0 /\ abs(-y) = y
        BY <4>1 DEF abs
      <4> QED
        BY <4>2 DEF x, y
    <3>2. out = Infinite => apart = Rounded(abs(in[1] * 0 - 1 * in[2]), in[2] * 0)
      <4>1. apart = Rounded(abs(in[1] * out[2] - out[1] * in[2]), in[2] * out[2])
        BY Zenon DEF Apart
      <4>2. out = Infinite => out[1] = 1 /\ out[2] = 0
        BY DEF Infinite
      <4> QED
        BY ONLY <4>1, <4>2, Zenon
    <3> QED
      BY <3>1, <3>2
  <2> QED
    BY <1>2, <1>5, <2>1, StaysInfinite
<1>7. out[1] \in Nat /\ out[2] \in Nat \ {0}
  BY <1>6 DEF Fraction
<1> DEFINE I == in[1] * out[2]
           O == out[1] * in[2]
           D == abs(I - O)
           W == in[2] * out[2]
<1>8. I \in Nat /\ O \in Nat /\ D \in Nat /\ I - O <= D /\ W \in Nat \ {0}
  <2>1. I \in Nat /\ O \in Nat /\ W \in Nat \ {0}
    BY <1>2, <1>7
  <2> HIDE DEF I, O
  <2> QED
    BY <2>1 DEF abs
<1>9. apart = Rounded(D, W)
  BY DEF Apart
<1> HIDE DEF I, O, D, W
<1>10. RoundsTo(D, W, apart) /\ apart[1] \in Nat /\ apart[2] \in Nat \ {0}
  BY <1>5, <1>8, <1>9, RoundedIs DEF RoundsTo
<1> DEFINE x == apart[1] * in[2]
           y == apart[2] * in[1]
<1>11. x \in Nat /\ y \in Nat \ {0} /\ share = Rounded(x, y)
  BY <1>2, <1>10
<1>12. RoundsTo(x, y, share) /\ share[1] \in Nat /\ share[2] \in Nat \ {0}
  <2> HIDE DEF x, y
  <2> QED
    BY <1>4, <1>11, RoundedIs DEF RoundsTo
<1>13. share[1] * B \in Nat /\ RoundsTo(share[1] * B, share[2], dev)
  <2> DEFINE z == share[1] * B
  <2>1. z \in Nat
    BY <1>1, <1>12
  <2> HIDE DEF z
  <2>2. RoundsTo(z, share[2], Rounded(z, share[2]))
    <3>1. dev = Rounded(z, share[2])
      BY DEF z
    <3> QED
      BY <1>3, <1>12, <2>1, <3>1, RoundedIs
  <2> QED
    BY <2>1, <2>2 DEF z
\* Of dev, of share, of apart.
<1>14. (share[1] * B) * (t * 1) <= (T * L) * share[2]
  <2> DEFINE z == share[1] * B
  <2>1. dev[1] * 1 <= L * dev[2]
    BY <1>13 DEF RoundsTo
  <2> HIDE DEF z
  <2>2. z * (t * 1) <= (T * L) * share[2]
    <3> HIDE DEF z
    <3>1. z \in Nat /\ RoundsTo(z, share[2], dev)
      BY <1>13 DEF z
    <3> QED
      BY <1>1, <1>12, <2>1, <3>1, LimitBefore
  <2> QED
    BY <2>2 DEF z
<1>15. x * (t * (t * B)) <= (T * (T * L)) * y
  <2> HIDE DEF x, y, t, T, B
  <2>1. share[1] * (t * B) <= (T * L) * share[2]
    BY <1>1, <1>12, <1>14
  <2>2. t * B \in Nat /\ T * L \in Nat
    BY <1>1
  <2> DEFINE u == t * B
             w == T * L
  <2>3. u \in Nat /\ w \in Nat /\ share[1] * u <= w * share[2]
    BY <2>1, <2>2
  <2> HIDE DEF u, w
  <2>4. x * (t * u) <= (T * w) * y
    BY <1>11, <1>12, <2>3, LimitBefore DEF t, T
  <2> QED
    BY <2>4 DEF u, w
<1>16. D * (t * (in[2] * (t * (t * B)))) <= (T * ((T * (T * L)) * in[1])) * W
  <2> DEFINE u == in[2] * (t * (t * B))
             w == (T * (T * L)) * in[1]
  <2>1. u \in Nat /\ w \in Nat /\ apart[1] * u <= w * apart[2]
    <3> HIDE DEF t, T, B
    <3> QED
      BY <1>1, <1>2, <1>10, <1>15
  <2> HIDE DEF u, w
  <2>2. D * (t * u) <= (T * w) * W
    <3> HIDE DEF B
    <3> QED
      BY <1>8, <1>10, <2>1, LimitBefore
  <2> QED
    BY <2>2 DEF u, w
<1>17. D * (t * (t * (t * B))) <= (T * (T * (T * L))) * I
  <2> DEFINE l == D * (t * (t * (t * B)))
             m == (T * (T * (T * L))) * I
  <2> HIDE DEF t, T, B
  <2>1. l * in[2] = D * (t * (in[2] * (t * (t * B)))) /\ l \in Int
    BY <1>1, <1>2, <1>8
  <2>2. m * in[2] = (T * ((T * (T * L)) * in[1])) * W /\ m \in Int
    BY <1>1, <1>2, <1>7 DEF I, W
  <2>3. l * in[2] <= m * in[2]
    BY <1>16, <2>1, <2>2
  <2> HIDE DEF l, m
  <2>4. l <= m
    BY <1>2, <2>1, <2>2, <2>3, Cancels
  <2> QED
    BY <2>4 DEF l, m
<1>18. (I - O) * (t * (t * (t * B))) <= (T * (T * (T * L))) * I
  <2> DEFINE k == t * (t * (t * B))
             m == (T * (T * (T * L))) * I
  <2>1. k \in Nat /\ m \in Int
    <3> HIDE DEF t, T, B
    <3> QED
      BY <1>1, <1>8
  <2> HIDE DEF k, m
  <2>2. (I - O) * k <= D * k /\ D * k <= m
    BY <1>8, <1>17, <2>1, Scale DEF k, m
  <2>3. (I - O) * k <= m
    BY <1>8, <2>1, <2>2
  <2> QED
    BY <2>3 DEF k, m
<1>19. I * (B * T - L * T - 4 * B) <= O * (B * T)
  <2> HIDE DEF B, T
  <2> QED
    BY <1>1, <1>8, <1>18, LimitOfThree DEF t
<1> QED
  BY <1>6, <1>19 DEF I, O

LEMMA Larger ==
  ASSUME NEW a \in Int, NEW b \in Int, NEW c \in Int, NEW k \in Nat, a <= b, b * k <= c
  PROVE  a * k <= c
OBVIOUS

LEMMA LessTheRest ==
  ASSUME NEW S \in Nat, NEW W \in Nat, NEW K \in Int, NEW least \in Int, NEW k \in Nat, NEW m \in Nat \ {0},
         (K * k) * S <= W * m, least * m <= K * k
  PROVE  S * least <= W
<1> DEFINE l == least * m
           r == K * k
<1>1. l \in Int /\ r \in Int /\ W * m \in Int /\ l * S <= W * m
  <2>1. l \in Int /\ r \in Int /\ l <= r /\ r * S <= W * m /\ W * m \in Int
    OBVIOUS
  <2> HIDE DEF l, r
  <2> QED
    BY <2>1, Larger
<1>2. (S * least) * m <= W * m
  BY <1>1
<1>3. S * least \in Int
  OBVIOUS
<1> QED
  BY <1>2, <1>3, Cancels

LEMMA Across ==
  ASSUME NEW K \in Nat, NEW G \in Nat, NEW X \in Nat, NEW Y \in Nat, NEW V \in Nat, NEW Z \in Nat,
         NEW i1 \in Nat, NEW i2 \in Nat \ {0}, NEW o1 \in Nat, NEW o2 \in Nat \ {0},
         X * i2 <= Y * i1, V * o1 <= Z * o2, (i1 * o2) * K <= (o1 * i2) * G
  PROVE  (X * V) * K <= (Z * Y) * G
<1>1. (X * i2) * (V * K * o2) <= (Y * i1) * (V * K * o2)
  <2> DEFINE l == X * i2
             m == Y * i1
             k == V * K * o2
  <2>1. l \in Nat /\ m \in Nat /\ k \in Nat /\ l <= m
    OBVIOUS
  <2> HIDE DEF l, m, k
  <2>2. l * k <= m * k
    BY <2>1, Grows
  <2> QED
    BY <2>2 DEF l, m, k
<1>2. ((i1 * o2) * K) * (Y * V) <= ((o1 * i2) * G) * (Y * V)
  <2> DEFINE l == (i1 * o2) * K
             m == (o1 * i2) * G
             k == Y * V
  <2>1. l \in Nat /\ m \in Nat /\ k \in Nat /\ l <= m
    OBVIOUS
  <2> HIDE DEF l, m, k
  <2>2. l * k <= m * k
    BY <2>1, Grows
  <2> QED
    BY <2>2 DEF l, m, k
<1>3. (V * o1) * (Y * i2 * G) <= (Z * o2) * (Y * i2 * G)
  <2> DEFINE l == V * o1
             m == Z * o2
             k == Y * i2 * G
  <2>1. l \in Nat /\ m \in Nat /\ k \in Nat /\ l <= m
    OBVIOUS
  <2> HIDE DEF l, m, k
  <2>2. l * k <= m * k
    BY <2>1, Grows
  <2> QED
    BY <2>2 DEF l, m, k
<1> DEFINE l == (X * V) * K
           m == (Z * Y) * G
           k == i2 * o2
<1>4. l \in Int /\ m \in Int /\ k \in Nat \ {0} /\ l * k <= m * k
  BY <1>1, <1>2, <1>3
<1> HIDE DEF l, m, k
<1>5. l <= m
  BY <1>4, Cancels
<1> QED
  BY <1>5 DEF l, m

\* Two bounds, one after the other.
LEMMA Through ==
  ASSUME NEW a \in Nat, NEW b \in Nat, NEW c \in Nat, NEW d \in Nat, NEW e1 \in Nat, NEW e2 \in Nat \ {0},
         NEW r1 \in Nat, NEW r2 \in Nat
  PROVE  /\ c * e1 <= d * e2 /\ (a * e2) * r1 <= (b * e1) * r2 => (a * c) * r1 <= (b * d) * r2
         /\ d * e2 <= c * e1 /\ (b * e1) * r2 <= (a * e2) * r1 => (b * d) * r2 <= (a * c) * r1
<1> DEFINE x == c * e1
           y == d * e2
           k == b * r2
           u == (a * e2) * r1
           v == (b * e1) * r2
           l == (a * c) * r1
           m == (b * d) * r2
<1>1. x \in Nat /\ y \in Nat /\ k \in Nat /\ u \in Nat /\ v \in Nat /\ l \in Int /\ m \in Int
  OBVIOUS
<1>2. x * k = v * c /\ y * k = m * e2 /\ u * c = l * e2
  OBVIOUS
<1> HIDE DEF x, y, k, u, v, l, m
<1>3. (x <= y => x * k <= y * k) /\ (y <= x => y * k <= x * k)
  BY <1>1, Grows
<1>4. (u <= v => u * c <= v * c) /\ (v <= u => v * c <= u * c)
  BY <1>1, Grows
<1>5. l * e2 \in Int /\ m * e2 \in Int /\ v * c \in Int
  BY <1>1
<1>6. /\ x <= y /\ u <= v => l * e2 <= m * e2
      /\ y <= x /\ v <= u => m * e2 <= l * e2
  BY <1>2, <1>3, <1>4, <1>5
<1>7. (x <= y /\ u <= v => l <= m) /\ (y <= x /\ v <= u => m <= l)
  BY <1>1, <1>6, Cancels
<1> QED
  BY <1>7 DEF x, y, u, v, l, m

\* What is left of a limit after three more roundings, m for k of them.
LEMMA WorthFrom ==
  ASSUME NEW T \in Nat, NEW B \in Nat \ {0}, NEW L \in Nat, NEW S \in Nat, NEW W \in Nat,
         NEW K \in Int, K = B * T - L * T - 4 * B, NEW k \in Nat, NEW m \in Nat \ {0},
         K > 3 * B => (K * k) * S <= (W * (B * T)) * m /\ (K - 3 * B) * m <= K * k
  PROVE  S * ((B - L) * T - 7 * B) <= W * (B * T)
<1> DEFINE d == K - 3 * B
           w == W * (B * T)
<1>1. (B - L) * T - 7 * B = d /\ d \in Int /\ w \in Nat
  OBVIOUS
<1>2. d <= 0 => S * d <= w
  <2> HIDE DEF d, w
  <2>1. d <= 0 => S * d <= 0
    BY <1>1
  <2> QED
    BY <1>1, <2>1
<1>3. d > 0 => S * d <= w
  <2>1. d > 0 => (K * k) * S <= w * m /\ d * m <= K * k
    BY <1>1
  <2> HIDE DEF d, w
  <2> QED
    BY <1>1, <2>1, LessTheRest
<1>4. S * d <= w
  <2> HIDE DEF d, w
  <2> QED
    BY <1>1, <1>2, <1>3
<1> QED
  BY <1>1, <1>4

\* What the limit says of the amounts that a buy was computed from.
LEMMA BuyIsWorth ==
  ASSUME NEW T \in Nat, T >= 8, NEW B \in Nat \ {0}, NEW L \in Nat,
         NEW A \in Nat, NEW E \in Nat, NEW P \in Nat, NEW F \in Nat \ {0}, NEW U \in Nat \ {0},
         NEW i1 \in Nat, NEW i2 \in Nat \ {0}, NEW o1 \in Nat, NEW o2 \in Nat \ {0},
         NEW e1 \in Nat, NEW e2 \in Nat \ {0},
         (T - 1) * A * i2 <= T * i1 * F,
         T * e1 * F <= (T + 1) * E * e2,
         T * o1 * (e2 * U) <= (T + 1) * (e1 * P) * o2,
         (i1 * o2) * (B * T - L * T - 4 * B) <= (o1 * i2) * (B * T)
  PROVE  (A * U) * ((B - L) * T - 7 * B) <= (E * P) * (B * T)
<1> DEFINE K == B * T - L * T - 4 * B
           t == T - 1
           s == T + 1
<1>1. t \in Nat /\ s \in Nat \ {0} /\ K \in Int /\ K <= B * T
  OBVIOUS
<1>2. ((T * U) * (T * F)) * o1 <= ((s * P) * (s * E)) * o2
  <2>1. (T * F) * e1 <= (s * E) * e2
    BY <1>1
  <2>2. ((T * U) * e2) * o1 <= ((s * P) * e1) * o2
    BY <1>1
  <2> DEFINE a == T * U
             b == s * P
             c == T * F
             d == s * E
  <2>3. a \in Nat /\ b \in Nat /\ c \in Nat /\ d \in Nat
    BY <1>1
  <2> HIDE DEF a, b, c, d
  <2>4. (a * c) * o1 <= (b * d) * o2
    BY <2>1, <2>2, <2>3, Through DEF a, b, c, d
  <2> QED
    BY <2>4 DEF a, b, c, d
<1>3. (t * A) * i2 <= (T * F) * i1
  BY <1>1
<1>4. ASSUME K > 3 * B
      PROVE  /\ (K * (t * T)) * (A * U) <= ((E * P) * (B * T)) * (s * s)
             /\ (K - 3 * B) * (s * s) <= K * (t * T)
  <2>1. K \in Nat
    BY <1>1, <1>4
  <2> DEFINE X == t * A
             Y == T * F
             V == (T * U) * (T * F)
             Z == (s * P) * (s * E)
             G == B * T
  <2>2. X \in Nat /\ Y \in Nat /\ V \in Nat /\ Z \in Nat /\ G \in Nat
    BY <1>1
  <2>3. X * i2 <= Y * i1 /\ V * o1 <= Z * o2 /\ (i1 * o2) * K <= (o1 * i2) * G
    BY <1>2, <1>3
  <2> HIDE DEF K, X, Y, V, Z, G
  <2>4. (X * V) * K <= (Z * Y) * G
    BY <2>1, <2>2, <2>3, Across
  <2> HIDE DEF t, s
  <2> DEFINE l == (K * (t * T)) * (A * U)
             m == ((E * P) * (B * T)) * (s * s)
             c == T * F
  <2>5. (X * V) * K = l * c /\ (Z * Y) * G = m * c /\ l \in Int /\ m \in Int /\ c \in Nat \ {0}
    BY <1>1, <2>1 DEF X, Y, V, Z, G
  <2>6. l <= m
    <3> HIDE DEF l, m, c
    <3> QED
      BY <2>4, <2>5, Cancels
  <2>7. (K - 3 * B) * (s * s) <= K * (t * T)
    <3> DEFINE x == K * (3 * T + 1)
               y == (B * T) * (3 * T + 1)
               z == B * (5 * T + 3)
    <3>1. K * (t * T) - (K - 3 * B) * (s * s) = 3 * B * (T * T + 2 * T + 1) - x
      BY <1>1 DEF t, s
    <3>2. x <= y
      BY <1>1, <2>1
    <3>3. 3 * B * (T * T + 2 * T + 1) - y = z /\ z >= 0
      OBVIOUS
    <3> QED
      BY <1>1, <2>1, <3>1, <3>2, <3>3
  <2> QED
    BY <2>6, <2>7
<1> DEFINE S == A * U
           W == E * P
           k == t * T
           m == s * s
<1>5. S \in Nat /\ W \in Nat /\ k \in Nat /\ m \in Nat \ {0}
  BY <1>1
<1>6. K > 3 * B => (K * k) * S <= (W * (B * T)) * m /\ (K - 3 * B) * m <= K * k
  BY <1>4
<1>7. K = B * T - L * T - 4 * B
  OBVIOUS
<1> HIDE DEF K, t, s, S, W, k, m
<1>8. S * ((B - L) * T - 7 * B) <= W * (B * T)
  BY <1>1, <1>5, <1>6, <1>7, WorthFrom
<1> QED
  BY <1>8 DEF S, W

\* And a sell.
LEMMA SellIsWorth ==
  ASSUME NEW T \in Nat, T >= 8, NEW B \in Nat \ {0}, NEW L \in Nat,
         NEW A \in Nat, NEW E \in Nat, NEW P \in Nat, NEW F \in Nat \ {0}, NEW U \in Nat \ {0},
         NEW i1 \in Nat, NEW i2 \in Nat \ {0}, NEW o1 \in Nat, NEW o2 \in Nat \ {0},
         NEW a1 \in Nat, NEW a2 \in Nat \ {0},
         (T - 1) * A * a2 <= T * a1 * F,
         (T - 1) * (a1 * P) * i2 <= T * i1 * (a2 * U),
         T * o1 * F <= (T + 1) * E * o2,
         (i1 * o2) * (B * T - L * T - 4 * B) <= (o1 * i2) * (B * T)
  PROVE  (A * P) * ((B - L) * T - 7 * B) <= (E * U) * (B * T)
<1> DEFINE K == B * T - L * T - 4 * B
           t == T - 1
           s == T + 1
<1>1. t \in Nat /\ s \in Nat \ {0} /\ K \in Int /\ K <= B * T
  OBVIOUS
<1>2. ((t * P) * (t * A)) * i2 <= ((T * U) * (T * F)) * i1
  <2>1. (t * A) * a2 <= (T * F) * a1
    BY <1>1
  <2>2. ((t * P) * a1) * i2 <= ((T * U) * a2) * i1
    BY <1>1
  <2> DEFINE a == T * U
             b == t * P
             c == T * F
             d == t * A
  <2>3. a \in Nat /\ b \in Nat /\ c \in Nat /\ d \in Nat
    BY <1>1
  <2> HIDE DEF a, b, c, d
  <2>4. (b * d) * i2 <= (a * c) * i1
    BY <2>1, <2>2, <2>3, Through DEF a, b, c, d
  <2> QED
    BY <2>4 DEF a, b, c, d
<1>3. (T * F) * o1 <= (s * E) * o2
  BY <1>1
<1>4. ASSUME K > 3 * B
      PROVE  /\ (K * (t * t)) * (A * P) <= ((E * U) * (B * T)) * (T * s)
             /\ (K - 3 * B) * (T * s) <= K * (t * t)
  <2>1. K \in Nat
    BY <1>1, <1>4
  <2> DEFINE X == (t * P) * (t * A)
             Y == (T * U) * (T * F)
             V == T * F
             Z == s * E
             G == B * T
  <2>2. X \in Nat /\ Y \in Nat /\ V \in Nat /\ Z \in Nat /\ G \in Nat
    BY <1>1
  <2>3. X * i2 <= Y * i1 /\ V * o1 <= Z * o2 /\ (i1 * o2) * K <= (o1 * i2) * G
    BY <1>2, <1>3
  <2> HIDE DEF K, X, Y, V, Z, G
  <2>4. (X * V) * K <= (Z * Y) * G
    BY <2>1, <2>2, <2>3, Across
  <2> HIDE DEF t, s
  <2> DEFINE l == (K * (t * t)) * (A * P)
             m == ((E * U) * (B * T)) * (T * s)
             c == T * F
  <2>5. (X * V) * K = l * c /\ (Z * Y) * G = m * c /\ l \in Int /\ m \in Int /\ c \in Nat \ {0}
    BY <1>1, <2>1 DEF X, Y, V, Z, G
  <2>6. l <= m
    <3> HIDE DEF l, m, c
    <3> QED
      BY <2>4, <2>5, Cancels
  <2>7. (K - 3 * B) * (T * s) <= K * (t * t)
    <3> DEFINE x == K * (3 * T - 1)
               y == (B * T) * (3 * T - 1)
               z == 4 * (B * T)
    <3>1. K * (t * t) - (K - 3 * B) * (T * s) = 3 * B * (T * T + T) - x
      BY <1>1 DEF t, s
    <3>2. x <= y
      BY <1>1, <2>1
    <3>3. 3 * B * (T * T + T) - y = z /\ z >= 0
      OBVIOUS
    <3> QED
      BY <1>1, <2>1, <3>1, <3>2, <3>3
  <2> QED
    BY <2>6, <2>7
<1> DEFINE S == A * P
           W == E * U
           k == t * t
           m == T * s
<1>5. S \in Nat /\ W \in Nat /\ k \in Nat /\ m \in Nat \ {0}
  BY <1>1
<1>6. K > 3 * B => (K * k) * S <= (W * (B * T)) * m /\ (K - 3 * B) * m <= K * k
  BY <1>4
<1>7. K = B * T - L * T - 4 * B
  OBVIOUS
<1> HIDE DEF K, t, s, S, W, k, m
<1>8. S * ((B - L) * T - 7 * B) <= W * (B * T)
  BY <1>1, <1>5, <1>6, <1>7, WorthFrom
<1> QED
  BY <1>8 DEF S, W

------------------------------------------------------------------------------
(* Steps that leave the level and what is stored for it alone.             *)

LEMMA InitHolds == Init => IInv
<1> SUFFICES ASSUME Init PROVE IInv
  OBVIOUS
<1>1. pc = "off" /\ plan = None
  BY DEF Init, VenueInit
<1>2. CasesOK
  BY DEF Init, CasesOK
<1> QED
  BY <1>1, <1>2 DEF IInv, LevelOK, RequestOK, WalkOK, DraftOK, BuildOK, Drafting

\* What is read is read of a level and a configuration that stay.
Kept == <<config, level, price, request, draft, plan>>

LEMMA CheckStays ==
  ASSUME UNCHANGED <<config, level, price, draft>>
  PROVE  check_quote' = check_quote
<1>1. config' = config /\ level' = level /\ price' = price /\ draft' = draft
  OBVIOUS
<1>2. Pegged' = Pegged
  BY <1>1 DEF Pegged, QuoteLeg, TradeDirection
<1>3. dollars_in' = dollars_in /\ dollars_out' = dollars_out
  BY <1>1 DEF dollars_in, dollars_out, Priced, Parsed
<1>4. deviation_bps' = deviation_bps
  BY <1>3 DEF deviation_bps, Apart
<1> QED
  BY <1>1, <1>2, <1>3, <1>4 DEF check_quote, Parsed

LEMMA KeptHolds ==
  ASSUME Kept' = Kept
  PROVE  /\ quote_request' = quote_request
         /\ validate(config)' = validate(config)
         /\ validate_stored_level' = validate_stored_level
         /\ check_quote' = check_quote
         /\ FromRequest(draft)' = FromRequest(draft)
         /\ candidate' = candidate => FromRequest(candidate)' = FromRequest(candidate)
<1>1. config' = config /\ level' = level /\ price' = price /\ request' = request /\ draft' = draft
  BY DEF Kept
<1>2. TradeDirection' = TradeDirection
  BY <1>1 DEF TradeDirection
<1>3. quote_request' = quote_request
  BY <1>1, <1>2 DEF quote_request
<1>4. validate(config)' = validate(config)
  BY <1>1
<1>5. validate_stored_level' = validate_stored_level
  BY <1>1, <1>2 DEF validate_stored_level
<1>6. check_quote' = check_quote
  BY <1>1, CheckStays
<1> QED
  BY <1>1, <1>3, <1>4, <1>5, <1>6 DEF FromRequest, OfChain, chain_requested

LEMMA LevelStays ==
  ASSUME IInv, Kept' = Kept, pc \notin {"off", "stopped", "serving"}
  PROVE  LevelOK'
BY KeptHolds DEF IInv, LevelOK, Kept

\* Nothing that the invariant reads changes.
LEMMA Quiet ==
  ASSUME IInv, UNCHANGED <<venue_vars, at, candidate, step, walk, unsigned, truthful>>,
         late' = TRUE \/ UNCHANGED <<allowances, late>>
  PROVE  IInv'
<1>1. Kept' = Kept /\ pc' = pc /\ at' = at /\ candidate' = candidate /\ step' = step /\ walk' = walk
      /\ plan' = plan /\ unsigned' = unsigned /\ truthful' = truthful
  BY DEF venue_vars, Kept
<1>2. LevelOK' /\ CasesOK' /\ RequestOK'
  BY <1>1, KeptHolds DEF IInv, LevelOK, CasesOK, RequestOK, Kept
<1>3. WalkOK' /\ DraftOK'
  BY <1>1, KeptHolds DEF IInv, WalkOK, DraftOK, Kept
<1>4. BuildOK'
  <2>1. late' = TRUE \/ (Needs' = Needs /\ late' = late)
    BY <1>1 DEF Needs
  <2>2. /\ validate_transaction(unsigned, step)' = validate_transaction(unsigned, step)
        /\ validate_approval_calldata(unsigned)' = validate_approval_calldata(unsigned)
    BY <1>1 DEF validate_transaction, validate_approval_calldata, Expected
  <2> QED
    BY <1>1, <2>1, <2>2 DEF IInv, BuildOK
<1> QED
  BY <1>2, <1>3, <1>4 DEF IInv

\* The order ends, or the venue goes on, where nothing is asked of what it holds.
LEMMA StaysOrdered ==
  ASSUME IInv, Kept' = Kept, pc \notin {"off", "stopped", "serving", "fired"},
         \/ pc' \in {"rejected", "failed", "done", "sent", "steps"}
         \/ pc \in Drafting /\ pc' \in {"discover", "state", "ticks", "decimals"}
  PROVE  IInv'
<1>1. LevelOK'
  BY LevelStays
<1>2. CasesOK' /\ RequestOK' /\ WalkOK' /\ BuildOK'
  BY KeptHolds DEF IInv, CasesOK, RequestOK, WalkOK, BuildOK, Kept
<1>3. DraftOK'
  BY KeptHolds DEF IInv, DraftOK, Drafting, Kept
<1> QED
  BY <1>1, <1>2, <1>3 DEF IInv

LEMMA LoadKeeps ==
  ASSUME IInv, NEW stored, Load(stored)
  PROVE  IInv'
<1>1. /\ pc = "off" /\ Kept' = Kept
      /\ pc' \in {"stopped", "fired", "serving"}
      /\ pc' = "fired" => validate(config) /\ preflight(stored) /\ level # None
  BY DEF Load, Kept
<1>2. LevelOK'
  <2>1. ASSUME pc' = "fired"
        PROVE  /\ price \in Nat /\ level.amount \in Nat /\ level.amount_decimals \in 0 .. Places
               /\ level.slippage_bps \in Nat
               /\ Len(config.chains) \in Nat /\ DOMAIN config.chains = 1 .. Len(config.chains)
               /\ \A i \in DOMAIN config.chains : \A t \in config.chains[i].tokens : t.decimals \in Nat
    BY <1>1, <2>1, VenuesAssumption DEF IInv, CasesOK
  <2>2. pc' = "fired" => validate_stored_level
    BY <1>1 DEF preflight
  <2> QED
    BY <1>1, <2>1, <2>2, KeptHolds DEF LevelOK, Kept
<1>3. plan = None /\ plan' = None
  BY <1>1 DEF IInv, DraftOK, Drafting, Kept
<1> QED
  BY <1>1, <1>2, <1>3 DEF IInv, CasesOK, RequestOK, WalkOK, DraftOK, BuildOK, Drafting

LEMMA PlaceOrderKeeps ==
  ASSUME IInv, PlaceOrder
  PROVE  IInv'
<1>1. /\ pc = "fired" /\ pc' \in {"rejected", "registry", "chains"}
      /\ config' = config /\ level' = level /\ price' = price /\ plan' = plan /\ draft' = draft
      /\ request' = quote_request
      /\ pc' = "chains" => request'.venue # "cetus"
  BY DEF PlaceOrder
<1>2. quote_request' = quote_request
  BY <1>1 DEF quote_request, TradeDirection
<1>3. LevelOK'
  <2>1. validate_stored_level' = validate_stored_level
    BY <1>1 DEF validate_stored_level, TradeDirection
  <2>2. validate(config)' = validate(config)
    BY <1>1
  <2> QED
    BY <1>1, <2>1, <2>2 DEF IInv, LevelOK
<1>4. plan' = None
  BY <1>1 DEF IInv, DraftOK, Drafting
<1> QED
  BY <1>1, <1>2, <1>3, <1>4 DEF IInv, CasesOK, RequestOK, WalkOK, DraftOK, BuildOK, Drafting

LEMMA StoreOrderKeeps ==
  ASSUME IInv, StoreOrder
  PROVE  IInv'
<1>1. /\ pc = "drafted" /\ pc' \in {"steps", "rejected"}
      /\ config' = config /\ level' = level /\ price' = price /\ request' = request
      /\ draft' = draft
  BY DEF StoreOrder
<1>2. CASE pc' = "rejected"
  BY <1>1, <1>2, StaysOrdered DEF StoreOrder, Kept
<1>3. CASE pc' = "steps"
  <2>1. plan' = draft.plan /\ check_quote
    BY <1>3 DEF StoreOrder
  <2>2. check_quote' = check_quote
    BY <1>1, CheckStays
  <2>3. FromRequest(draft)' = FromRequest(draft)
    BY <1>1 DEF FromRequest, OfChain, chain_requested
  <2>4. FromRequest(draft)
    BY <1>1 DEF IInv, DraftOK
  <2>5. LevelOK' /\ RequestOK'
    <3>1. TradeDirection' = TradeDirection
      BY <1>1 DEF TradeDirection
    <3>2. validate_stored_level' = validate_stored_level /\ validate(config)' = validate(config)
      BY <1>1, <3>1 DEF validate_stored_level
    <3>3. quote_request' = quote_request
      BY <1>1, <3>1 DEF quote_request
    <3> QED
      BY <1>1, <1>3, <3>2, <3>3 DEF IInv, LevelOK, RequestOK
  <2> QED
    BY <1>1, <1>3, <2>1, <2>2, <2>3, <2>4, <2>5
    DEF IInv, CasesOK, WalkOK, DraftOK, BuildOK, Drafting
<1> QED
  BY <1>1, <1>2, <1>3

------------------------------------------------------------------------------
(* The Cetus venue.                                                        *)

CetusIdle ==
  \/ ListRegistry \/ (\E id \in candidates : Consider(id)) \/ Discovered
  \/ FetchState \/ FetchTicks \/ CetusQuoteFails \/ CetusBuild

LEMMA CetusReadsKeep ==
  ASSUME IInv, CetusIdle, UNCHANGED uniswap_vars
  PROVE  IInv'
<1>1. CASE ListRegistry
  BY <1>1, StaysOrdered DEF ListRegistry, Reject, Kept, Drafting
<1>2. CASE \E id \in candidates : Consider(id)
  BY <1>2, Quiet DEF Consider, cetus_chain, uniswap_vars, uniswap_chain
<1>3. CASE Discovered
  BY <1>3, StaysOrdered DEF Discovered, Reject, Kept, Drafting
<1>4. CASE FetchState
  BY <1>4, StaysOrdered DEF FetchState, Reject, Kept, Drafting
<1>5. CASE CetusBuild
  <2>1. pc = "steps" /\ plan.kind = "cetus" /\ pc' \in {"failed", "fund"} /\ Kept' = Kept
    BY <1>5 DEF CetusBuild, Kept
  <2>2. LevelOK'
    BY <2>1, LevelStays
  <2>3. CasesOK' /\ RequestOK' /\ WalkOK' /\ BuildOK'
    BY <2>1, KeptHolds DEF IInv, CasesOK, RequestOK, WalkOK, BuildOK, Kept
  <2>4. DraftOK'
    BY <2>1, KeptHolds DEF IInv, DraftOK, Drafting, Kept
  <2> QED
    BY <2>2, <2>3, <2>4 DEF IInv
<1>6. CASE FetchTicks
  <2>1. pc = "ticks" /\ Kept' = Kept /\ pc' \in {"rejected", "ticks", "decimals"}
    BY <1>6 DEF FetchTicks, Reject, Kept
  <2> QED
    BY <2>1, StaysOrdered DEF Drafting
<1>7. CASE CetusQuoteFails
  BY <1>7, StaysOrdered DEF CetusQuoteFails, Reject, Kept
<1> QED
  BY <1>1, <1>2, <1>3, <1>4, <1>5, <1>6, <1>7 DEF CetusIdle

\* What is walked with is kept, and so is the draft.
LEMMA OnWalk ==
  ASSUME IInv, Kept' = Kept, pc \in {"decimals", "walk"}, pc' = "walk", WalkOK'
  PROVE  IInv'
<1>1. LevelOK'
  BY LevelStays
<1>2. CasesOK' /\ RequestOK' /\ BuildOK'
  BY KeptHolds DEF IInv, CasesOK, RequestOK, BuildOK, Kept
<1>3. DraftOK'
  BY KeptHolds DEF IInv, DraftOK, Drafting, Kept
<1> QED
  BY <1>1, <1>2, <1>3 DEF IInv

LEMMA FetchDecimalsKeeps ==
  ASSUME IInv, FetchDecimals
  PROVE  IInv'
<1>1. pc = "decimals" /\ Kept' = Kept /\ pc' \in {"rejected", "walk"}
  BY DEF FetchDecimals, Reject, Kept
<1>2. CASE pc' = "rejected"
  BY <1>1, <1>2, StaysOrdered
<1>3. CASE pc' = "walk"
  <2>1. InputAmount # None /\ walk'.amount_out = 0
    BY <1>3 DEF FetchDecimals, Reject
  <2>2. request.token_out \in DOMAIN CoinDecimals
    BY <2>1 DEF InputAmount
  <2>3. WalkOK'
    BY <1>1, <2>1, <2>2, CetusAssumption DEF WalkOK, Kept
  <2> QED
    BY <1>1, <1>3, <2>3, OnWalk
<1> QED
  BY <1>1, <1>2, <1>3

LEMMA WalkTickKeeps ==
  ASSUME IInv, WalkTick
  PROVE  IInv'
<1> DEFINE taken == compute_swap_step(walk.sqrt_price, TargetOf(NextTick), walk.liquidity,
                                      walk.remaining, seen.fee)
<1>1. pc = "walk" /\ Kept' = Kept /\ pc' \in {"rejected", "walk"}
  BY DEF WalkTick, Reject, Kept
<1>2. CASE pc' = "rejected"
  BY <1>1, <1>2, StaysOrdered
<1>3. CASE pc' = "walk"
  <2>1. InBounds(taken) /\ walk'.amount_out = walk.amount_out + taken.amount_out
    BY <1>3 DEF WalkTick, Reject
  <2>2. taken.amount_out \in Nat
    <3> HIDE DEF taken
    <3> QED
      BY <2>1 DEF InBounds
  <2>3. WalkOK'
    <3> HIDE DEF taken
    <3> QED
      BY <1>1, <2>1, <2>2 DEF IInv, WalkOK, Kept
  <2> QED
    BY <1>1, <1>3, <2>3, OnWalk
<1> QED
  BY <1>1, <1>2, <1>3

\* A draft is made where none was stored.
LEMMA OnDraft ==
  ASSUME IInv, UNCHANGED <<config, level, price, request, plan>>,
         pc \in Drafting \ {"off", "stopped", "serving", "fired"}, pc' = "drafted",
         FromRequest(draft)'
  PROVE  IInv'
<1>1. TradeDirection' = TradeDirection
  BY DEF TradeDirection
<1>2. quote_request' = quote_request
  BY <1>1 DEF quote_request
<1>3. validate_stored_level' = validate_stored_level /\ validate(config)' = validate(config)
  BY <1>1 DEF validate_stored_level
<1>4. LevelOK' /\ CasesOK' /\ RequestOK'
  BY <1>2, <1>3 DEF IInv, LevelOK, CasesOK, RequestOK, Drafting
<1>5. plan' = None
  BY DEF IInv, DraftOK
<1>6. WalkOK' /\ DraftOK' /\ BuildOK'
  BY <1>5 DEF WalkOK, DraftOK, BuildOK, Drafting
<1> QED
  BY <1>4, <1>6 DEF IInv

\* What was asked for is the level's.
LEMMA RequestIs ==
  ASSUME IInv, pc \notin {"off", "stopped", "serving", "fired"}
  PROVE  /\ request.slippage_bps \in Nat /\ request.slippage_bps = level.slippage_bps
         /\ request.amount \in Nat
         /\ request.amount = level.amount * Fine(level.amount_decimals)
         /\ request.chains = {level.chain}
         /\ request.token_in = TradeDirection.token_in /\ request.token_out = TradeDirection.token_out
         /\ request.venue = level.venue
<1>1. request = quote_request
  BY DEF IInv, RequestOK
<1>2. level.slippage_bps \in Nat /\ level.amount \in Nat /\ level.amount_decimals \in 0 .. Places
  BY DEF IInv, LevelOK
<1>3. Fine(level.amount_decimals) \in Nat
  BY <1>2, FineIs
<1> QED
  BY <1>1, <1>2, <1>3 DEF quote_request, format_units_string

LEMMA WalkEndKeeps ==
  ASSUME IInv, WalkEnd
  PROVE  IInv'
<1> DEFINE out == walk.amount_out
           s == request.slippage_bps
           minimum == apply_slippage(out, s)
           decimals == CoinDecimals[request.token_out]
<1>1. pc = "walk" /\ UNCHANGED <<config, level, price, request, plan>>
  BY DEF WalkEnd, Reject
<1>2. CASE pc' = "rejected"
  BY <1>1, <1>2, StaysOrdered DEF WalkEnd, Reject, Kept
<1>3. CASE pc' # "rejected"
  <2>1. /\ pc' = "drafted" /\ minimum # None
        /\ draft'.amount_in = request.amount
        /\ draft'.expected_amount_out = format_units_string(out, decimals)
        /\ draft'.minimum_amount_out = format_units_string(minimum, decimals)
        /\ draft'.output_decimals = decimals
        /\ draft'.plan.kind = "cetus"
    BY <1>3 DEF WalkEnd, Reject
  <2>2. out \in Nat /\ decimals \in 0 .. Places
    BY <1>1 DEF IInv, WalkOK
  <2>3. s \in Nat
    BY <1>1, RequestIs
  <2>4. Bps \in Nat \ {0} /\ Fine(decimals) \in Nat
    BY <2>2, FineIs, ConfigAssumption
  <2>5. s <= Bps /\ minimum = (out * (Bps - s)) \div Bps
    BY <2>1, <2>3, <2>4 DEF apply_slippage
  <2>6. minimum \in Int
    BY <2>2, <2>3, <2>4, <2>5
  <2>7. (minimum * Fine(decimals) + Fine(decimals)) * Bps >= (out * Fine(decimals)) * (Bps - s)
    <3> HIDE DEF out, s, minimum, decimals
    <3> QED
      BY <2>2, <2>3, <2>4, <2>5, <2>6, SlippageKept
  <2>8. FromRequest(draft)'
    <3>1. /\ draft'.expected_amount_out = out * Fine(decimals)
          /\ draft'.minimum_amount_out = minimum * Fine(decimals)
      BY <2>1 DEF format_units_string
    <3>2. out * Fine(decimals) \in Nat /\ minimum * Fine(decimals) \in Int
      <4> HIDE DEF out, s, minimum, decimals
      <4> QED
        BY <2>2, <2>4, <2>6
    <3> HIDE DEF out, minimum, decimals
    <3> QED
      BY <1>1, <2>1, <2>2, <2>5, <2>7, <3>1, <3>2 DEF FromRequest
  <2> QED
    BY <1>1, <2>1, <2>8, OnDraft DEF Drafting
<1> QED
  BY <1>2, <1>3

LEMMA CetusKeeps ==
  ASSUME IInv, CetusNext, UNCHANGED uniswap_vars
  PROVE  IInv'
<1>1. CASE CetusFund
  BY <1>1, StaysOrdered DEF CetusFund, Kept
<1> QED
  BY <1>1, CetusReadsKeep, FetchDecimalsKeeps, WalkTickKeeps, WalkEndKeeps DEF CetusNext, CetusIdle

------------------------------------------------------------------------------
(* The Uniswap venue.                                                      *)

\* On the chains it asks, a token has the decimals of a valid configuration.
LEMMA TokenOnChain ==
  ASSUME IInv, pc = "chain", NEW i \in DOMAIN config.chains, NEW symbol,
         find_token(config.chains[i], symbol) # None
  PROVE  find_token(config.chains[i], symbol).decimals \in 0 .. Places
<1> DEFINE chain == config.chains[i]
           t == find_token(chain, symbol)
<1>1. t \in chain.tokens
  BY DEF find_token
<1>2. t.decimals \in Nat /\ validate(config)
  BY <1>1 DEF IInv, LevelOK
<1>3. t.decimals <= MaxDecimals
  <2>1. ValidChain(chain)
    BY <1>2 DEF validate
  <2> QED
    BY <1>1, <2>1 DEF ValidChain
<1> HIDE DEF t
<1>4. t.decimals \in 0 .. Places
  BY <1>2, <1>3, ConfigAssumption
<1> QED
  BY <1>4 DEF t

LEMMA CandidateIs ==
  ASSUME IInv, pc = "chain", NEW i \in DOMAIN config.chains, UNCHANGED <<config, request>>,
         chain_requested(config.chains[i]), Candidate(config.chains[i])
  PROVE  candidate' = candidate \/ FromRequest(candidate)'
<1> DEFINE chain == config.chains[i]
           input == find_token(chain, request.token_in)
           output == find_token(chain, request.token_out)
           amount == parse_units_string(request.amount, input.decimals)
           s == request.slippage_bps
<1>1. PICK quote \in Answers(chain, input, output, amount), out \in ApiOuts, minimum \in ApiOuts :
        /\ Acceptable(quote, chain, input, output, amount, out, minimum)
        /\ \/ candidate' = candidate
           \/ candidate' =
                [amount_in |-> request.amount,
                 expected_amount_out |-> format_units_string(out, output.decimals),
                 minimum_amount_out |-> format_units_string(minimum, output.decimals),
                 output_decimals |-> output.decimals,
                 plan |-> [kind |-> "uniswap", chain_id |-> chain.chain_id,
                           input_token |-> input.address, input_amount |-> amount,
                           quote |-> quote]]
  BY DEF Candidate
<1>2. input # None /\ output # None /\ amount # None
  BY DEF Candidate
<1>3. input.decimals \in 0 .. Places /\ output.decimals \in 0 .. Places
  BY <1>2, TokenOnChain
<1>4. s \in Nat /\ request.amount \in Nat
  BY RequestIs
<1>5. out \in Nat /\ minimum \in Nat /\ Bps \in Nat \ {0} /\ Fine(output.decimals) \in Nat
  BY <1>3, FineIs, ConfigAssumption, VenuesAssumption
<1>6. format_units_string(amount, input.decimals) = request.amount
  BY <1>2, <1>3, <1>4, ParsedIsFormatted
<1>7. s <= Bps /\ minimum >= (out * (Bps - s)) \div Bps
  BY <1>1, <1>4, <1>5 DEF Acceptable, apply_slippage_string
<1>8. /\ quote.output = output.address /\ quote.amount = amount
  BY <1>1 DEF Acceptable, validate_quote
<1>9. (minimum * Fine(output.decimals) + Fine(output.decimals)) * Bps
        >= (out * Fine(output.decimals)) * (Bps - s)
  BY <1>4, <1>5, <1>7, SlippageKept
<1>10. request.venue # "cetus"
  BY DEF IInv, RequestOK
<1>11. ASSUME candidate' # candidate
       PROVE  FromRequest(candidate)'
  <2>1. /\ candidate'.amount_in = request.amount
        /\ candidate'.expected_amount_out = out * Fine(output.decimals)
        /\ candidate'.minimum_amount_out = minimum * Fine(output.decimals)
        /\ candidate'.output_decimals = output.decimals
        /\ candidate'.plan.kind = "uniswap" /\ candidate'.plan.chain_id = chain.chain_id
        /\ candidate'.plan.input_token = input.address /\ candidate'.plan.input_amount = amount
        /\ candidate'.plan.quote = quote
    BY <1>1, <1>11 DEF format_units_string
  <2>2. out * Fine(output.decimals) \in Nat /\ minimum * Fine(output.decimals) \in Int
    BY <1>5
  <2>3. OfChain(candidate, i)'
    <3> HIDE DEF amount
    <3> QED
      BY <1>2, <1>6, <1>8, <1>10, <2>1 DEF OfChain, chain_requested
  <2> HIDE DEF chain, input, output, amount
  <2> QED
    BY <1>3, <1>7, <1>9, <2>1, <2>2, <2>3 DEF FromRequest
<1> QED
  BY <1>11

LEMMA AskChainsKeeps ==
  ASSUME IInv, AskChains
  PROVE  IInv'
<1>1. pc = "chains" /\ Kept' = Kept /\ pc' \in {"rejected", "chain"} /\ candidate' = None
  BY DEF AskChains, Reject, Kept
<1>2. CASE pc' = "rejected"
  BY <1>1, <1>2, StaysOrdered
<1>3. CASE pc' = "chain"
  <2>1. LevelOK'
    BY <1>1, LevelStays
  <2>2. at' = 1
    BY <1>3 DEF AskChains, Reject
  <2>3. CasesOK' /\ RequestOK' /\ WalkOK' /\ BuildOK'
    BY <1>1, <1>3, <2>2, KeptHolds DEF IInv, CasesOK, RequestOK, WalkOK, BuildOK, Kept
  <2>4. DraftOK'
    BY <1>1, <1>3, KeptHolds DEF IInv, DraftOK, Drafting, Kept
  <2> QED
    BY <2>1, <2>3, <2>4 DEF IInv
<1> QED
  BY <1>1, <1>2, <1>3

LEMMA AskChainKeeps ==
  ASSUME IInv, AskChain
  PROVE  IInv'
<1>1. /\ pc = "chain" /\ pc' = "chain" /\ Kept' = Kept /\ config' = config /\ request' = request
      /\ at' = at + 1 /\ at <= Len(config.chains)
      /\ \/ chain_requested(config.chains[at]) /\ Candidate(config.chains[at])
         \/ candidate' = candidate
  BY DEF AskChain, NoCandidate, Kept, venue_vars
<1>2. at \in DOMAIN config.chains /\ at \in Nat \ {0}
  BY <1>1 DEF IInv, LevelOK, RequestOK
<1>3. candidate' = candidate \/ FromRequest(candidate)'
  BY <1>1, <1>2, CandidateIs
<1>4. LevelOK'
  BY <1>1, LevelStays
<1>5. CasesOK' /\ RequestOK' /\ WalkOK' /\ BuildOK'
  BY <1>1, <1>2, KeptHolds DEF IInv, CasesOK, RequestOK, WalkOK, BuildOK, Kept
<1>6. DraftOK'
  BY <1>1, <1>3, KeptHolds DEF IInv, DraftOK, Drafting, Kept
<1> QED
  BY <1>4, <1>5, <1>6 DEF IInv

LEMMA ChooseBestKeeps ==
  ASSUME IInv, ChooseBest
  PROVE  IInv'
<1>1. /\ pc = "chain" /\ UNCHANGED <<config, level, price, request, plan, candidate>>
      /\ \/ pc' = "rejected" /\ draft' = draft
         \/ pc' = "drafted" /\ draft' = candidate /\ candidate # None
  BY DEF ChooseBest, Reject, uniswap_vars
<1>2. CASE pc' = "rejected"
  BY <1>1, <1>2, StaysOrdered DEF Kept
<1>3. CASE pc' = "drafted"
  <2>1. FromRequest(candidate)
    BY <1>1, <1>3 DEF IInv, DraftOK
  <2>2. FromRequest(draft)'
    BY <1>1, <1>3, <2>1 DEF FromRequest, OfChain, chain_requested
  <2> QED
    BY <1>1, <1>3, <2>2, OnDraft DEF Drafting
<1> QED
  BY <1>1, <1>2, <1>3

LEMMA StepsKeeps ==
  ASSUME IInv, Steps
  PROVE  IInv'
<1>1. /\ pc = "steps" /\ pc' = "build" /\ Kept' = Kept /\ plan' = plan
      /\ plan.kind = "uniswap"
  BY DEF Steps, Kept
<1>2. step' \in {"cancel", "approval", "swap"} /\ (plan.input_token = Native => step' = "swap")
  BY DEF Steps, steps_from_check_approval
<1>3. LevelOK'
  BY <1>1, LevelStays
<1>4. CasesOK' /\ RequestOK' /\ WalkOK' /\ BuildOK'
  BY <1>1, <1>2, KeptHolds DEF IInv, CasesOK, RequestOK, WalkOK, BuildOK, Kept
<1>5. DraftOK'
  BY <1>1, KeptHolds DEF IInv, DraftOK, Drafting, Kept
<1> QED
  BY <1>3, <1>4, <1>5 DEF IInv

\* What is asked for is of the plan, and what it needs where the API is truthful.
LEMMA BuildKeeps ==
  ASSUME IInv, Build
  PROVE  IInv'
<1>1. /\ pc = "build" /\ pc' \in {"failed", "sign"} /\ Kept' = Kept /\ plan' = plan /\ step' = step
      /\ allowances' = allowances /\ truthful' = truthful /\ late' = FALSE
  BY DEF Build, Kept
<1>2. CASE pc' = "failed"
  BY <1>1, <1>2, StaysOrdered
<1>3. CASE pc' = "sign"
  <2>1. /\ step # "swap" => \E approval \in check_approval : step \in approval
        /\ step # "swap" => validate_approval_calldata(unsigned')
        /\ validate_transaction(unsigned', step)
    BY <1>3 DEF Build
  <2>2. step # "swap" /\ truthful => step \in Needs
    BY <2>1 DEF check_approval
  <2>3. /\ validate_transaction(unsigned, step)' = validate_transaction(unsigned', step)
        /\ validate_approval_calldata(unsigned)' = validate_approval_calldata(unsigned')
        /\ Needs' = Needs
    BY <1>1 DEF validate_transaction, validate_approval_calldata, Expected, Needs
  <2>4. BuildOK'
    BY <1>1, <1>3, <2>1, <2>2, <2>3 DEF IInv, BuildOK
  <2>5. LevelOK'
    BY <1>1, LevelStays
  <2>6. CasesOK' /\ RequestOK' /\ WalkOK'
    BY <1>1, <1>3, KeptHolds DEF IInv, CasesOK, RequestOK, WalkOK, Kept
  <2>7. DraftOK'
    BY <1>1, <1>3, KeptHolds DEF IInv, DraftOK, Drafting, Kept
  <2> QED
    BY <2>4, <2>5, <2>6, <2>7 DEF IInv
<1> QED
  BY <1>1, <1>2, <1>3

LEMMA UniswapKeeps ==
  ASSUME IInv, UniswapNext
  PROVE  IInv'
<1>1. CASE Sign
  BY <1>1, StaysOrdered DEF Sign, Kept
<1>2. CASE Land
  BY <1>2, StaysOrdered DEF Land, Kept
<1> QED
  BY <1>1, <1>2, AskChainsKeeps, AskChainKeeps, ChooseBestKeeps, StepsKeeps, BuildKeeps
  DEF UniswapNext

------------------------------------------------------------------------------
(* The invariant and what follows.                                         *)

LEMMA NextKeeps == IInv /\ [Next]_vars => IInv'
<1> SUFFICES ASSUME IInv, [Next]_vars PROVE IInv'
  OBVIOUS
<1>1. CASE Load({strategy} \ {None})
  BY <1>1, LoadKeeps
<1>2. CASE VenueNext
  BY <1>2, PlaceOrderKeeps, StoreOrderKeeps DEF VenueNext
<1>3. CASE CetusNext /\ UNCHANGED uniswap_vars
  BY <1>3, CetusKeeps
<1>4. CASE CetusMoves /\ UNCHANGED <<venue_vars, uniswap_vars>>
  BY <1>4, Quiet DEF CetusMoves, MovePool, SpendCoin, uniswap_vars, uniswap_chain
<1>5. CASE UniswapNext
  BY <1>5, UniswapKeeps
<1>6. CASE UniswapMoves /\ UNCHANGED <<venue_vars, cetus_vars>>
  BY <1>6, Quiet DEF UniswapMoves, OtherOrder, cetus_vars
<1>7. CASE UNCHANGED <<venue_vars, cetus_vars, uniswap_vars>>
  BY <1>7, Quiet DEF cetus_vars, uniswap_vars, uniswap_chain
<1> QED
  BY <1>1, <1>2, <1>3, <1>4, <1>5, <1>6, <1>7 DEF Next, vars

\* What is held for an order is of its level, at every moment and for every
\* configuration, pool and answer.
THEOREM Invariance == Spec => []IInv
<1> QED
  BY InitHolds, NextKeeps, PTL DEF Spec

LEMMA OrderStored ==
  ASSUME IInv, plan # None
  PROVE  /\ pc \notin Drafting /\ FromRequest(draft) /\ plan = draft.plan /\ check_quote
         /\ validate_stored_level /\ validate(config)
BY DEF IInv, DraftOK, LevelOK, Drafting

\* What the check lets pass is worth its input at the price, in exact numbers, but for
\* the deviation and seven roundings.
LEMMA QuoteIsWorth ==
  ASSUME check_quote, Checked, price \in Nat, draft.amount_in \in Nat, draft.expected_amount_out \in Nat,
         config.max_quote_deviation_bps \in 0 .. Bps
  PROVE  Spent * ((Bps - config.max_quote_deviation_bps) * Precision - 7 * Bps)
           <= Worth(draft.expected_amount_out) * (Bps * Precision)
<1> DEFINE A == draft.amount_in
           E == draft.expected_amount_out
           L == config.max_quote_deviation_bps
           F == Fine(0)
           U == PriceUnit
           a == Parsed(A)
           e == Parsed(E)
           in == dollars_in
           out == dollars_out
           T == Precision
<1>1. /\ F \in Nat \ {0} /\ U \in Nat \ {0} /\ Bps \in Nat \ {0} /\ T \in Nat /\ T >= 8
      /\ A \in Nat /\ E \in Nat /\ L \in Nat /\ L \in 0 .. Bps
  BY FineIs, ConfigAssumption, FloatAssumption, PrecisionIs
<1>2. /\ a # Infinite /\ e # Infinite /\ price \in Nat \ {0} /\ in # Infinite /\ in[1] > 0
      /\ deviation_bps[1] <= L * deviation_bps[2]
  BY DEF Checked, check_quote
<1> HIDE DEF L, F, U, T, A, E
<1>3. /\ RoundsTo(A, F, a) /\ a[1] \in Nat /\ a[2] \in Nat \ {0}
      /\ RoundsTo(E, F, e) /\ e[1] \in Nat /\ e[2] \in Nat \ {0}
  <2>1. a = Rounded(A, F) /\ e = Rounded(E, F)
    BY DEF Parsed, F
  <2> HIDE DEF a, e
  <2> QED
    BY <1>1, <1>2, <2>1, RoundedIs DEF RoundsTo
<1>4. /\ a[1] * price \in Nat /\ a[2] * U \in Nat \ {0}
      /\ e[1] * price \in Nat /\ e[2] * U \in Nat \ {0}
  <2> HIDE DEF a, e
  <2> QED
    BY <1>1, <1>2, <1>3
<1>5. /\ Priced(a) = Rounded(a[1] * price, a[2] * U)
      /\ Priced(e) = Rounded(e[1] * price, e[2] * U)
  BY DEF Priced, U
<1> HIDE DEF a, e
<1>6. /\ Priced(a) # Infinite => RoundsTo(a[1] * price, a[2] * U, Priced(a))
      /\ Priced(e) # Infinite => RoundsTo(e[1] * price, e[2] * U, Priced(e))
  <2> DEFINE a1 == a[1] * price
             a2 == a[2] * U
             e1 == e[1] * price
             e2 == e[2] * U
  <2>1. a1 \in Nat /\ a2 \in Nat \ {0} /\ e1 \in Nat /\ e2 \in Nat \ {0}
    BY <1>4
  <2>2. Priced(a) = Rounded(a1, a2) /\ Priced(e) = Rounded(e1, e2)
    BY <1>5
  <2> HIDE DEF a1, a2, e1, e2
  <2>3. /\ Priced(a) # Infinite => RoundsTo(a1, a2, Priced(a))
        /\ Priced(e) # Infinite => RoundsTo(e1, e2, Priced(e))
    BY <2>1, <2>2, RoundedIs
  <2> QED
    BY <2>3 DEF a1, a2, e1, e2
<1>7. /\ level.side = "buy" => in = a /\ out = Priced(e)
      /\ level.side # "buy" => in = Priced(a) /\ out = e
  BY DEF dollars_in, dollars_out, a, e, A, E
<1> HIDE DEF in, out
<1>8. Fraction(in) /\ (out # Infinite => Fraction(out)) /\ in[1] # 0
  BY <1>2, <1>3, <1>6, <1>7 DEF Fraction, RoundsTo
<1>9. /\ Fraction(out)
      /\ (in[1] * out[2]) * (Bps * T - L * T - 4 * Bps) <= (out[1] * in[2]) * (Bps * T)
  <2> DEFINE apart == Apart(in, out)
             share == Rounded(apart[1] * in[2], apart[2] * in[1])
             dev == Rounded(share[1] * Bps, share[2])
  <2>1. dev = deviation_bps
    BY DEF deviation_bps, in, out
  <2>2. dev[1] <= L * dev[2]
    BY <1>2, <2>1
  <2> HIDE DEF apart, share, dev
  <2>3. /\ apart = Apart(in, out)
        /\ share = Rounded(apart[1] * in[2], apart[2] * in[1])
        /\ dev = Rounded(share[1] * Bps, share[2])
    BY DEF apart, share, dev
  <2> QED
    BY <1>1, <1>8, <2>2, <2>3, DeviationKept DEF T
<1>10. /\ in[1] \in Nat /\ in[2] \in Nat \ {0} /\ out[1] \in Nat /\ out[2] \in Nat \ {0}
       /\ out # Infinite
  <2>1. Infinite[2] = 0
    BY DEF Infinite
  <2> QED
    BY <1>8, <1>9, <2>1 DEF Fraction
<1>11. /\ (T - 1) * A * a[2] <= T * a[1] * F
       /\ T * e[1] * F <= (T + 1) * E * e[2]
  BY <1>3 DEF RoundsTo, T
<1> DEFINE i1 == in[1]
           i2 == in[2]
           o1 == out[1]
           o2 == out[2]
           a1 == a[1]
           a2 == a[2]
           e1 == e[1]
           e2 == e[2]
<1>12. CASE level.side = "buy"
  <2>1. in = a /\ out = Priced(e) /\ RoundsTo(e[1] * price, e[2] * U, out)
    BY <1>6, <1>7, <1>10, <1>12
  <2>2. T * o1 * (e2 * U) <= (T + 1) * (e1 * price) * o2
    BY <2>1 DEF RoundsTo, T
  <2>3. (T - 1) * A * i2 <= T * i1 * F /\ T * e1 * F <= (T + 1) * E * e2
    BY <1>11, <2>1
  <2>4. (i1 * o2) * (Bps * T - L * T - 4 * Bps) <= (o1 * i2) * (Bps * T)
    BY <1>9
  <2>5. /\ i1 \in Nat /\ i2 \in Nat \ {0} /\ o1 \in Nat /\ o2 \in Nat \ {0}
        /\ e1 \in Nat /\ e2 \in Nat \ {0} /\ price \in Nat
    BY <1>2, <1>3, <1>10
  <2> HIDE DEF i1, i2, o1, o2, e1, e2
  <2>6. (A * U) * ((Bps - L) * T - 7 * Bps) <= (E * price) * (Bps * T)
    BY <1>1, <2>2, <2>3, <2>4, <2>5, BuyIsWorth
  <2> QED
    BY <1>12, <2>6 DEF Spent, Worth, A, E, U, L, T
<1>13. CASE level.side # "buy"
  <2>1. in = Priced(a) /\ out = e /\ RoundsTo(a[1] * price, a[2] * U, in)
    BY <1>2, <1>6, <1>7, <1>13
  <2>2. (T - 1) * (a1 * price) * i2 <= T * i1 * (a2 * U)
    BY <2>1 DEF RoundsTo, T
  <2>3. (T - 1) * A * a2 <= T * a1 * F /\ T * o1 * F <= (T + 1) * E * o2
    BY <1>11, <2>1
  <2>4. (i1 * o2) * (Bps * T - L * T - 4 * Bps) <= (o1 * i2) * (Bps * T)
    BY <1>9
  <2>5. /\ i1 \in Nat /\ i2 \in Nat \ {0} /\ o1 \in Nat /\ o2 \in Nat \ {0}
        /\ a1 \in Nat /\ a2 \in Nat \ {0} /\ price \in Nat
    BY <1>2, <1>3, <1>10
  <2> HIDE DEF i1, i2, o1, o2, a1, a2
  <2>6. (A * price) * ((Bps - L) * T - 7 * Bps) <= (E * U) * (Bps * T)
    BY <1>1, <2>2, <2>3, <2>4, <2>5, SellIsWorth
  <2> QED
    BY <1>13, <2>6 DEF Spent, Worth, A, E, U, L, T
<1> QED
  BY <1>12, <1>13

LEMMA WorthOfOrder ==
  ASSUME IInv
  PROVE  GuardedOrder
<1> SUFFICES ASSUME Checked PROVE GuardedOrder
  BY DEF GuardedOrder
<1> DEFINE s == level.slippage_bps
           dev == config.max_quote_deviation_bps
           least == draft.minimum_amount_out + Fine(draft.output_decimals)
           expected == draft.expected_amount_out
           T == Precision
           k == Bps - s
           unit == IF level.side = "buy" THEN price ELSE PriceUnit
           d == (Bps - dev) * T - 7 * Bps
<1>1. /\ pc \notin Drafting /\ FromRequest(draft) /\ check_quote /\ validate(config) /\ Pegged
  BY OrderStored DEF Checked
<1>2. /\ request.slippage_bps = s /\ s \in Nat /\ request.amount \in Nat
      /\ price \in Nat
  BY <1>1, RequestIs DEF Drafting, IInv, LevelOK
<1>3. /\ Bps \in Nat \ {0} /\ s <= Bps /\ dev \in 0 .. Bps /\ k \in Nat
      /\ unit \in Nat /\ T \in Nat
  <2>1. s <= Bps /\ dev \in 1 .. Bps
    BY <1>1, <1>2 DEF FromRequest, validate
  <2>2. Bps \in Nat \ {0} /\ unit \in Nat /\ T \in Nat
    BY <1>2, ConfigAssumption, FloatAssumption, PrecisionIs
  <2> HIDE DEF dev, s, unit, T
  <2> QED
    BY <1>2, <2>1, <2>2
<1>4. /\ expected \in Nat /\ least \in Int /\ least * Bps >= expected * k
      /\ draft.amount_in \in Nat
  <2>1. Fine(draft.output_decimals) \in Nat
    BY <1>1, FineIs DEF FromRequest
  <2> QED
    BY <1>1, <1>2, <2>1 DEF FromRequest
<1>5. Worth(least) = least * unit /\ Worth(expected) = expected * unit
  BY DEF Worth
<1>6. Spent \in Nat
  BY <1>2, <1>4, FloatAssumption DEF Spent
<1>7. Spent * d <= Worth(expected) * (Bps * T)
  BY <1>1, <1>2, <1>3, <1>4, QuoteIsWorth
<1> DEFINE x == least * Bps
           y == expected * k
           z == Spent * d
           w == (expected * unit) * (Bps * T)
           c == unit * (Bps * T)
<1>8. d \in Int /\ Bps * T \in Nat
  BY <1>3
<1> HIDE DEF least, expected, unit, k, d, T
<1>9. x \in Int /\ y \in Int /\ z \in Int /\ w \in Int /\ x >= y /\ z <= w /\ c \in Nat
  BY <1>3, <1>4, <1>5, <1>6, <1>7, <1>8
<1>10. x * c >= y * c /\ w * k >= z * k
  <2> HIDE DEF x, y, z, w, c
  <2> QED
    BY <1>3, <1>9, Scale
<1>11. y * c = w * k /\ y * c \in Int /\ z * k \in Int /\ x * c \in Int
  <2>1. y * c = w * k
    BY <1>3, <1>4
  <2> HIDE DEF x, y, z, w, c
  <2> QED
    BY <1>3, <1>9, <2>1
<1>12. x * c >= z * k
  <2> HIDE DEF x, y, z, w, c
  <2> QED
    BY <1>10, <1>11
<1>13. x * c = Worth(least) * Bps * Bps * T
  BY <1>3, <1>4, <1>5
<1>14. Worth(least) * Bps * Bps * T >= z * k
  BY <1>12, <1>13
<1> QED
  BY <1>14 DEF GuardedOrder, least, d, k, T, Precision

\* An order stored for a pegged pair accepts no less than its input is worth at the
\* observed price, less deviation, slippage and the error of seven roundings.
THEOREM OrdersAreWorthIt == Spec => []GuardedOrder
<1> QED
  BY Invariance, WorthOfOrder, PTL

\* A chain that is asked is the one the names of the level mean, if names are their own.
LEMMA TokenNamed ==
  ASSUME IInv, plan # None, NEW i \in DOMAIN config.chains, OfChain(draft, i), NEW symbol,
         \A j, k \in DOMAIN config.chains :
           config.chains[j].name \in {config.chains[k].name, config.chains[k].chain_id} => j = k,
         find_token(config.chains[i], symbol) # None
  PROVE  token(config, level.chain, symbol)
           = EvmToken(config.chains[i], find_token(config.chains[i], symbol))
<1> DEFINE named == {j \in DOMAIN config.chains : config.chains[j].name = level.chain}
           last == CHOOSE j \in named : \A k \in named : k <= j
<1>1. validate_stored_level /\ request.chains = {level.chain} /\ level.venue # "cetus"
      /\ Len(config.chains) \in Nat /\ DOMAIN config.chains = 1 .. Len(config.chains)
  BY OrderStored, RequestIs DEF Drafting, OfChain, IInv, LevelOK
<1>2. config.chains[i].name = level.chain \/ config.chains[i].chain_id = level.chain
  BY <1>1 DEF OfChain, chain_requested
<1>3. ~(config.sui.enabled /\ level.chain = "sui") /\ named # {}
  <2>1. token(config, level.chain, level.base_token) # None
        /\ token(config, level.chain, level.base_token).chain # "sui"
    BY <1>1 DEF validate_stored_level, validate_strategy_model
  <2> QED
    BY <2>1 DEF token, SuiToken
<1>4. named = {i}
  BY <1>2, <1>3
<1>5. last = i
  <2>1. i <= i
    BY <1>1
  <2> QED
    BY <1>4, <2>1
<1> HIDE DEF last
<1>6. token(config, level.chain, symbol)
        = IF find_token(config.chains[last], symbol) = None THEN None
          ELSE EvmToken(config.chains[last], find_token(config.chains[last], symbol))
  BY <1>3 DEF token, last
<1> QED
  BY <1>5, <1>6

LEMMA PlanOfLevel ==
  ASSUME IInv
  PROVE  PlanIsTheLevels
<1> SUFFICES ASSUME plan # None,
                    \A i, j \in DOMAIN config.chains :
                      config.chains[i].name \in {config.chains[j].name, config.chains[j].chain_id} => i = j
             PROVE  PlanIsTheLevels
  BY DEF PlanIsTheLevels
<1> DEFINE in == token(config, level.chain, TradeDirection.token_in)
           out == token(config, level.chain, TradeDirection.token_out)
<1>1. FromRequest(draft) /\ plan = draft.plan /\ pc \notin Drafting
  BY OrderStored
<1>2. /\ request.slippage_bps = level.slippage_bps
      /\ request.amount = level.amount * Fine(level.amount_decimals)
      /\ request.token_in = TradeDirection.token_in /\ request.token_out = TradeDirection.token_out
  BY <1>1, RequestIs DEF Drafting
<1>3. /\ draft.amount_in = level.amount * Fine(level.amount_decimals)
      /\ (draft.minimum_amount_out + Fine(draft.output_decimals)) * Bps
           >= draft.expected_amount_out * (Bps - level.slippage_bps)
  BY <1>1, <1>2 DEF FromRequest
<1>4. ASSUME plan.kind = "uniswap"
      PROVE  /\ plan.chain_id = in.chain /\ plan.chain_id = out.chain
             /\ plan.input_token = in.price_ref.address
             /\ plan.quote.output = out.price_ref.address
             /\ format_units_string(plan.input_amount, in.decimals) = draft.amount_in
             /\ plan.quote.amount = plan.input_amount
  <2>1. PICK i \in DOMAIN config.chains : OfChain(draft, i)
    BY <1>1, <1>4 DEF FromRequest
  <2> DEFINE chain == config.chains[i]
             input == find_token(chain, request.token_in)
             output == find_token(chain, request.token_out)
  <2>2. /\ input # None /\ output # None
        /\ plan.chain_id = chain.chain_id
        /\ plan.input_token = input.address /\ plan.quote.output = output.address
        /\ plan.quote.amount = plan.input_amount
        /\ format_units_string(plan.input_amount, input.decimals) = request.amount
    BY <1>1, <2>1 DEF OfChain
  <2>3. in = EvmToken(chain, input) /\ out = EvmToken(chain, output)
    BY <1>2, <2>1, <2>2, TokenNamed
  <2> HIDE DEF in, out, input, output
  <2>4. draft.amount_in = request.amount
    BY <1>1 DEF FromRequest
  <2> QED
    BY <2>2, <2>3, <2>4 DEF EvmToken
<1> QED
  BY <1>3, <1>4 DEF PlanIsTheLevels

\* The plan an order is stored with spends the level's amount of the level's tokens on
\* the level's chain, within the level's slippage.
THEOREM PlansAreTheLevels == Spec => []PlanIsTheLevels
<1> QED
  BY Invariance, PlanOfLevel, PTL

LEMMA SignedStep ==
  ASSUME IInv, [Next]_vars, pc = "sign", pc' = "sent"
  PROVE  SignsThePlan
<1>1. Sign
  <2>1. ~(CetusNext \/ VenueNext \/ Load({strategy} \ {None}) \/ UNCHANGED pc)
    BY DEF CetusNext, VenueNext, Load, PlaceOrder, StoreOrder, ListRegistry, Consider,
           Discovered, FetchState, FetchTicks, FetchDecimals, CetusQuoteFails, WalkTick, WalkEnd,
           CetusBuild, CetusFund, venue_vars
  <2> QED
    BY <2>1 DEF Next, vars, venue_vars, UniswapNext, AskChains, AskChain, ChooseBest, Steps, Build, Land
<1>2. tx' = [step |-> step, sent |-> unsigned]
  BY <1>1 DEF Sign
<1>3. /\ step \in {"cancel", "approval", "swap"} /\ (plan.input_token = Native => step = "swap")
      /\ validate_transaction(unsigned, step)
      /\ step # "swap" => validate_approval_calldata(unsigned)
      /\ step # "swap" /\ truthful /\ ~late => step \in Needs
  BY DEF IInv, BuildOK
<1> QED
  BY <1>2, <1>3
  DEF SignsThePlan, validate_approval_calldata, validate_transaction, Expected, Needs

\* Whatever the API answers, a transaction signed for an order is of its plan; and where
\* the API tells the truth, and no other order changed the allowance since it was asked,
\* an approval that is signed is needed.
THEOREM SignedTransactions == Spec => SignedIsThePlan
<1>1. IInv /\ [Next]_vars =>
        [pc = "sign" /\ pc' = "sent" => SignsThePlan]_<<pc, tx>>
  BY SignedStep
<1> QED
  BY <1>1, Invariance, PTL DEF Spec, SignedIsThePlan

------------------------------------------------------------------------------
(* Types: the order's, the venues' and the chart's.                        *)

OrderTypes ==
  /\ pc \in {"off", "stopped", "serving", "fired", "rejected", "failed", "drafted", "steps",
             "registry", "discover", "state", "ticks", "decimals", "walk", "fund",
             "chains", "chain", "build", "sign", "sent", "done"}
  /\ plan # None => PlanType(plan)
  /\ CetusTypes /\ UniswapTypes /\ ReadOK /\ DraftTypes

LEMMA TypedIs == Typed /\ ChartOK <=> OrderTypes /\ ChartHolds
BY DEF Typed, TypeOK, OrderTypes, ChartHolds

LEMMA ChartBegins == Init => ChartHolds
<1> SUFFICES ASSUME Init PROVE ChartHolds
  OBVIOUS
<1>1. /\ blocks = 0 /\ level_prices = {} /\ ticks = <<>> /\ chart = None
      /\ chart_pc \in {"idle", "asked"}
      /\ chart_pc # "idle" => ValidIndex(index)
      /\ IsFiniteSet(levels) /\ \A l \in levels : l.trigger \in Int
  <2>1. CASE NoChart
    BY <2>1, FS_EmptySet DEF Init, ChartInit, NoChart
  <2>2. CASE \E c \in ChartCases : levels = c.levels /\ index = c.index /\ chart_pc = "asked"
    BY <2>2, VenuesAssumption DEF Init, ChartInit
  <2> QED
    BY <2>1, <2>2 DEF Init
<1>2. ticks \in Seq(TickRecord) /\ DOMAIN ticks = {}
  BY <1>1, EmptySeq
<1>3. ChartOK
  BY <1>1, <1>2, FS_EmptySet DEF ChartOK
<1>4. ChartTypes
  BY <1>1, <1>2, ChartAssumption DEF ChartTypes
<1> QED
  BY <1>3, <1>4 DEF ChartHolds

LEMMA TypesBegin == Init => OrderTypes
<1> SUFFICES ASSUME Init PROVE OrderTypes
  OBVIOUS
<1>1. /\ pc = "off" /\ plan = None /\ moves = 0 /\ candidates = {} /\ best = None /\ walk = None
      /\ spends = 0 /\ step = None /\ at = 0 /\ candidate = None
  BY DEF Init, VenueInit, CetusInit, UniswapInit
<1>2. /\ Len(config.chains) \in Nat
      /\ \A id \in DOMAIN pools : ValidPool(pools[id])
      /\ \A a \in DOMAIN allowances : allowances[a] \in 0 .. Unlimited
      /\ \A a \in DOMAIN balances : balances[a] \in Nat
  <2>1. DOMAIN <<>> = {}
    OBVIOUS
  <2> QED
    BY <2>1, VenuesAssumption DEF Init, NoPools, NoChains
<1>3. CetusTypes /\ ReadOK
  BY <1>1, <1>2, CetusAssumption DEF CetusTypes, ReadOK
<1>4. UniswapTypes /\ DraftTypes
  BY <1>1, <1>2, VenuesAssumption DEF UniswapTypes, DraftTypes
<1> QED
  BY <1>1, <1>3, <1>4 DEF OrderTypes

Quietly == {"stopped", "serving", "fired", "rejected", "failed", "registry", "chains", "done"}

\* The order ends, or begins, where nothing was read.
LEMMA TypesOnward ==
  ASSUME OrderTypes, UNCHANGED <<config, plan, cetus_vars, uniswap_vars>>, pc' \in Quietly
  PROVE  OrderTypes'
<1>1. CetusTypes' /\ ReadOK'
  BY DEF OrderTypes, CetusTypes, ReadOK, WalkType, cetus_vars, cetus_chain, Quietly
<1>2. UniswapTypes' /\ DraftTypes'
  BY DEF OrderTypes, UniswapTypes, DraftTypes, PlanType, uniswap_vars, uniswap_chain, Quietly
<1> QED
  BY <1>1, <1>2 DEF OrderTypes, PlanType, Quietly

\* Where only the venue changes: the rest of the types stays.
LEMMA CetusTypesKeep ==
  ASSUME OrderTypes, CetusTypes', ReadOK', UNCHANGED <<config, plan, uniswap_vars>>,
         pc' \in Quietly \cup {"discover", "state", "ticks", "decimals", "walk"}
  PROVE  OrderTypes'
<1>1. UniswapTypes' /\ DraftTypes'
  BY DEF OrderTypes, UniswapTypes, DraftTypes, PlanType, uniswap_vars, uniswap_chain, Quietly
<1> QED
  BY <1>1 DEF OrderTypes, PlanType, Quietly

LEMMA UniswapTypesKeep ==
  ASSUME OrderTypes, UniswapTypes', DraftTypes', UNCHANGED <<plan, cetus_vars>>,
         pc' \in Quietly \cup {"chain", "drafted", "steps", "build", "sign", "sent"}
  PROVE  OrderTypes'
<1>1. CetusTypes' /\ ReadOK'
  BY DEF OrderTypes, CetusTypes, ReadOK, WalkType, cetus_vars, cetus_chain, Quietly
<1> QED
  BY <1>1 DEF OrderTypes, PlanType, Quietly

LEMMA StoreOrderTypes ==
  ASSUME IInv, OrderTypes, StoreOrder, UNCHANGED <<cetus_vars, uniswap_vars>>
  PROVE  OrderTypes'
<1>1. pc = "drafted" /\ UNCHANGED <<config, draft>>
  BY DEF StoreOrder
<1>2. CASE pc' = "rejected"
  BY <1>1, <1>2, TypesOnward DEF StoreOrder, Quietly
<1>3. CASE pc' # "rejected"
  <2>1. plan' = draft.plan /\ pc' = "steps"
    BY <1>3 DEF StoreOrder
  <2>2. PlanType(draft.plan) /\ draft.plan.kind \in {"cetus", "uniswap"}
    BY <1>1 DEF OrderTypes, DraftTypes, IInv, DraftOK, FromRequest
  <2>3. PlanType(plan') /\ plan'.kind \in {"cetus", "uniswap"}
    BY <2>1, <2>2
  <2>4. CetusTypes' /\ ReadOK'
    BY <2>1 DEF OrderTypes, CetusTypes, ReadOK, WalkType, cetus_vars, cetus_chain
  <2>5. UniswapTypes' /\ DraftTypes'
    BY <1>1, <2>1, <2>3 DEF OrderTypes, UniswapTypes, DraftTypes, PlanType, uniswap_vars, uniswap_chain
  <2> QED
    BY <2>1, <2>3, <2>4, <2>5 DEF OrderTypes, PlanType
<1> QED
  BY <1>2, <1>3

LEMMA VenueTypes ==
  ASSUME IInv, OrderTypes, VenueNext \/ Load({strategy} \ {None}), UNCHANGED <<cetus_vars, uniswap_vars>>
  PROVE  OrderTypes'
<1>1. CASE PlaceOrder
  BY <1>1, TypesOnward DEF PlaceOrder, Quietly
<1>2. CASE Load({strategy} \ {None})
  BY <1>2, TypesOnward DEF Load, Quietly
<1> QED
  BY <1>1, <1>2, StoreOrderTypes DEF VenueNext

------------------------------------------------------------------------------

\* Amounts.
LEMMA ParsedIs ==
  ASSUME NEW v, NEW d, parse_units_string(v, d) # None
  PROVE  parse_units_string(v, d) \in Nat \ {0}
BY ConfigAssumption DEF parse_units_string

LEMMA InputIs ==
  ASSUME InputAmount # None
  PROVE  InputAmount \in 1 .. U64 - 1
<1> DEFINE raw == parse_units_string(request.amount, CoinDecimals[request.token_in])
<1>1. raw # None /\ raw < U64 /\ InputAmount = raw
  BY DEF InputAmount
<1>2. raw \in Nat \ {0}
  BY <1>1, ParsedIs
<1> HIDE DEF raw
<1> QED
  BY <1>1, <1>2, CetusAssumption

\* A page more was read, and nothing else changed.
LEMMA PageIs ==
  ASSUME FetchTicks, pc' # "rejected"
  PROVE  \E page \in PagesOf({t \in InitializedTicks(pools[best.pool]) : \A u \in DOMAIN seen.net : u < t}) :
           /\ page \subseteq {t \in InitializedTicks(pools[best.pool]) : \A u \in DOMAIN seen.net : u < t}
           /\ seen' = [seen EXCEPT !.net =
                         [t \in DOMAIN seen.net \cup page |->
                            IF t \in page THEN NetAt(pools[best.pool], t) ELSE seen.net[t]]]
           /\ pc' = IF page = {t \in InitializedTicks(pools[best.pool]) : \A u \in DOMAIN seen.net : u < t}
                    THEN "decimals" ELSE "ticks"
BY DEF FetchTicks, Reject, PagesOf

LEMMA FetchTicksTypes ==
  ASSUME OrderTypes, FetchTicks, UNCHANGED uniswap_vars
  PROVE  OrderTypes'
<1> DEFINE found == pools[best.pool]
           rest == {t \in InitializedTicks(found) : \A u \in DOMAIN seen.net : u < t}
<1>1. /\ UNCHANGED <<cetus_chain, candidates, best, walk, config, plan>> /\ pc = "ticks"
      /\ pc' \in {"rejected", "ticks", "decimals"}
      /\ pc' = "rejected" => seen' = seen
  BY DEF FetchTicks, Reject
<1>2. CASE pc' = "rejected"
  BY <1>1, <1>2, TypesOnward DEF Quietly, cetus_vars
<1>3. CASE pc' # "rejected"
  <2>1. PICK page \in PagesOf(rest) :
          /\ page \subseteq rest
          /\ seen' = [seen EXCEPT !.net =
                        [t \in DOMAIN seen.net \cup page |->
                           IF t \in page THEN NetAt(found, t) ELSE seen.net[t]]]
    BY <1>3, PageIs
  <2>2. best # None /\ ValidPool(found)
    BY <1>1 DEF OrderTypes, CetusTypes, ReadOK
  <2>3. page \subseteq Tick /\ \A t : NetAt(found, t) \in Int
    BY <2>1, <2>2, PoolIs
  <2>4. CetusTypes'
    BY <1>1 DEF OrderTypes, CetusTypes, WalkType, cetus_chain
  <2> HIDE DEF found, rest
  <2>5. /\ DOMAIN seen = {"sqrt_price", "tick", "liquidity", "fee", "net"}
        /\ DOMAIN seen.net \subseteq Tick /\ \A t \in DOMAIN seen.net : seen.net[t] \in Int
    BY <1>1 DEF OrderTypes, ReadOK
  <2>6. /\ DOMAIN seen' = DOMAIN seen /\ seen'.sqrt_price = seen.sqrt_price
        /\ seen'.liquidity = seen.liquidity /\ seen'.fee = seen.fee
        /\ seen'.net = [t \in DOMAIN seen.net \cup page |->
                         IF t \in page THEN NetAt(found, t) ELSE seen.net[t]]
    BY <2>1, <2>5
  <2>7. DOMAIN seen'.net \subseteq Tick /\ \A t \in DOMAIN seen'.net : seen'.net[t] \in Int
    BY <2>3, <2>5, <2>6
  <2>8. ReadOK'
    BY <1>1, <1>3, <2>6, <2>7 DEF OrderTypes, ReadOK, cetus_chain
  <2> QED
    BY <1>1, <1>3, <2>4, <2>8, CetusTypesKeep
<1> QED
  BY <1>2, <1>3

LEMMA ReadTypes ==
  ASSUME OrderTypes, CetusIdle, UNCHANGED uniswap_vars
  PROVE  OrderTypes'
<1>1. CASE ListRegistry
  <2>1. /\ candidates' \subseteq DOMAIN pools /\ best' = None /\ UNCHANGED <<cetus_chain, seen, walk, config, plan>>
        /\ pc' \in {"rejected", "discover"}
    BY <1>1 DEF ListRegistry, Reject
  <2>2. CetusTypes' /\ ReadOK'
    BY <2>1 DEF OrderTypes, CetusTypes, ReadOK, WalkType, cetus_chain
  <2> QED
    BY <2>1, <2>2, CetusTypesKeep DEF Quietly
<1>2. CASE \E id \in candidates : Consider(id)
  <2>1. PICK id \in candidates : Consider(id)
    BY <1>2
  <2>2. /\ candidates' \subseteq candidates /\ UNCHANGED <<cetus_chain, seen, walk, config, plan, pc>>
        /\ pc = "discover"
        /\ \/ best' = best
           \/ best' = [pool |-> id, liquidity |-> LiquidityAt(pools[id], pools[id].tick)]
    BY <2>1 DEF Consider, venue_vars
  <2>3. id \in DOMAIN pools /\ ValidPool(pools[id])
    BY DEF OrderTypes, CetusTypes, ReadOK
  <2>4. LiquidityAt(pools[id], pools[id].tick) \in Nat
    BY <2>3, PoolIs
  <2>5. best' # None => best'.pool \in DOMAIN pools /\ best'.liquidity \in Nat
    BY <2>2, <2>3, <2>4 DEF OrderTypes, CetusTypes
  <2>6. CetusTypes' /\ ReadOK'
    BY <2>2, <2>5 DEF OrderTypes, CetusTypes, ReadOK, WalkType, cetus_chain
  <2> QED
    BY <2>2, <2>6, CetusTypesKeep DEF Quietly
<1>3. CASE Discovered
  <2>1. /\ UNCHANGED <<cetus_vars, config, plan>> /\ pc' \in {"rejected", "state"}
        /\ pc' = "state" => best # None
    BY <1>3 DEF Discovered, Reject
  <2>2. CetusTypes' /\ ReadOK'
    BY <2>1 DEF OrderTypes, CetusTypes, ReadOK, WalkType, cetus_vars, cetus_chain
  <2> QED
    BY <2>1, <2>2, CetusTypesKeep DEF Quietly
<1>4. CASE FetchState
  <2> DEFINE found == pools[best.pool]
  <2>1. /\ UNCHANGED <<cetus_chain, candidates, best, walk, config, plan>> /\ pc = "state"
        /\ \/ pc' = "rejected" /\ seen' = seen
           \/ /\ pc' = "ticks"
              /\ seen' = [sqrt_price |-> found.sqrt_price, tick |-> found.tick,
                          liquidity |-> LiquidityAt(found, found.tick), fee |-> found.fee,
                          net |-> <<>>]
    BY <1>4 DEF FetchState, Reject
  <2>2. best # None /\ ValidPool(found)
    BY <2>1 DEF OrderTypes, CetusTypes, ReadOK
  <2>3. /\ LiquidityAt(found, found.tick) \in 0 .. U128 - 1
        /\ found.sqrt_price \in MIN_SQRT_PRICE .. MAX_SQRT_PRICE
        /\ found.fee \in 0 .. FEE_RATE_DENOMINATOR - 1
    BY <2>2, PoolIs
  <2> HIDE DEF found
  <2>4. CetusTypes'
    BY <2>1 DEF OrderTypes, CetusTypes, WalkType, cetus_chain
  <2>5. ReadOK'
    BY <2>1, <2>2, <2>3 DEF OrderTypes, ReadOK, cetus_chain
  <2> QED
    BY <2>1, <2>4, <2>5, CetusTypesKeep DEF Quietly
<1>5. CASE CetusBuild
  <2>1. /\ UNCHANGED <<cetus_vars, config, draft, plan>> /\ pc = "steps" /\ pc' \in {"failed", "fund"}
    BY <1>5 DEF CetusBuild
  <2>2. CetusTypes' /\ ReadOK'
    BY <2>1 DEF OrderTypes, CetusTypes, ReadOK, WalkType, cetus_vars, cetus_chain
  <2>3. UniswapTypes' /\ DraftTypes'
    BY <2>1 DEF OrderTypes, UniswapTypes, DraftTypes, PlanType, uniswap_vars, uniswap_chain
  <2> QED
    BY <2>1, <2>2, <2>3 DEF OrderTypes, PlanType
<1>6. CASE CetusQuoteFails
  <2>1. UNCHANGED <<cetus_vars, config, plan>> /\ pc' = "rejected"
    BY <1>6 DEF CetusQuoteFails, Reject
  <2> QED
    BY <2>1, TypesOnward DEF Quietly
<1> QED
  BY <1>1, <1>2, <1>3, <1>4, <1>5, <1>6, FetchTicksTypes DEF CetusIdle

LEMMA FetchDecimalsTypes ==
  ASSUME OrderTypes, FetchDecimals, UNCHANGED uniswap_vars
  PROVE  OrderTypes'
<1> DEFINE places == DOMAIN seen.net
<1>1. /\ UNCHANGED <<cetus_chain, candidates, best, seen, config, plan>> /\ pc = "decimals"
      /\ \/ pc' = "rejected" /\ walk' = walk
         \/ /\ pc' = "walk" /\ InputAmount # None /\ request' = request
            /\ walk' = [remaining |-> InputAmount, liquidity |-> seen.liquidity,
                        sqrt_price |-> seen.sqrt_price, ticks |-> places,
                        amount_in |-> 0, amount_out |-> 0, fee_amount |-> 0, crossed |-> 0]
  BY DEF FetchDecimals, Reject
<1>2. CASE pc' = "rejected"
  <2>1. CetusTypes' /\ ReadOK'
    BY <1>1, <1>2 DEF OrderTypes, CetusTypes, ReadOK, WalkType, cetus_chain
  <2> QED
    BY <1>1, <1>2, <2>1, CetusTypesKeep DEF Quietly
<1>3. CASE pc' # "rejected"
  <2>1. places \subseteq Tick
    BY <1>1 DEF OrderTypes, ReadOK
  <2>2. InputAmount \in 1 .. U64 - 1
    BY <1>1, <1>3, InputIs
  <2>3. InputAmount' = InputAmount
    BY <1>1, <1>3 DEF InputAmount
  <2>4. /\ Cardinality(places) \in Nat /\ Cardinality(Tick) \in Nat
        /\ Cardinality(places) <= Cardinality(Tick)
    BY <2>1, CetusAssumption, FS_Subset, FS_CardinalityType
  <2>5. U64 \in Nat /\ U128 \in Nat
    BY CetusAssumption
  <2>6. WalkType'
    <3> HIDE DEF places
    <3> QED
      BY <1>1, <1>3, <2>2, <2>4, <2>5 DEF WalkType, OrderTypes, ReadOK
  <2>7. CetusTypes'
    <3> HIDE DEF places
    <3> QED
      BY <1>1, <2>6 DEF OrderTypes, CetusTypes, cetus_chain
  <2>8. walk'.ticks = places /\ walk'.crossed = 0
    <3> HIDE DEF places
    <3> QED
      BY <1>1, <1>3
  <2>9. walk'.crossed + Cardinality(walk'.ticks) <= Cardinality(Tick)
    <3> HIDE DEF places
    <3> QED
      BY <2>4, <2>8
  <2>10. ReadOK'
    BY <1>1, <1>3, <2>2, <2>3, <2>6, <2>8, <2>9 DEF OrderTypes, ReadOK, cetus_chain
  <2> QED
    BY <1>1, <1>3, <2>7, <2>10, CetusTypesKeep
<1> QED
  BY <1>2, <1>3

LEMMA StepTypes ==
  ASSUME NEW s, NEW target, NEW liquidity, NEW fee \in 0 .. FEE_RATE_DENOMINATOR - 1,
         NEW taken, taken = compute_swap_step(s, target, liquidity, walk.remaining, fee),
         walk.remaining \in Nat, InBounds(taken)
  PROVE  taken.fee_amount \in Nat
<1> DEFINE most == get_delta_up_from_input(s, target, liquidity, s >= target)
           remain == AfterFee(walk.remaining, fee)
<1>1. FEE_RATE_DENOMINATOR - fee \in Nat \ {0} /\ fee \in Nat
  BY CetusAssumption
<1>2. taken.most \in 0 .. U128 - 1
  BY DEF InBounds
<1>3. CASE liquidity = 0
  BY <1>3 DEF compute_swap_step
<1>4. CASE liquidity # 0
  <2>1. taken.most = most /\ taken.fee_amount = IF most > remain THEN walk.remaining - remain
                             ELSE CeilDiv(most * fee, FEE_RATE_DENOMINATOR - fee)
    BY <1>4 DEF compute_swap_step
  <2>2. remain \in 0 .. walk.remaining
    BY AfterFeeIs
  <2>3. most \in Nat
    BY <1>2, <2>1, CetusAssumption
  <2> HIDE DEF most, remain
  <2>4. CASE most > remain
    BY <2>1, <2>2, <2>4
  <2>5. CASE ~(most > remain)
    <3>1. most * fee \in Nat
      BY <1>1, <2>3
    <3>2. CeilDiv(most * fee, FEE_RATE_DENOMINATOR - fee) \in Nat
      BY <1>1, <3>1, RoundedUp
    <3> QED
      BY <2>1, <2>5, <3>2
  <2> QED
    BY <2>4, <2>5
<1> QED
  BY <1>3, <1>4

\* The tick that is next is one of those ahead.
LEMMA NextIs ==
  ASSUME walk.ticks \subseteq Tick, Ahead(walk.ticks) # {}
  PROVE  /\ NextTick \in Ahead(walk.ticks) /\ NextTick \in walk.ticks /\ NextTick \in Tick
         /\ \A t \in Ahead(walk.ticks) : IF a2b THEN t <= NextTick ELSE NextTick <= t
<1> DEFINE A == Ahead(walk.ticks)
<1>1. A \subseteq walk.ticks
  BY DEF Ahead
<1>2. A \in SUBSET Int /\ IsFiniteSet(A)
  BY <1>1, CetusAssumption, FS_Subset
<1> HIDE DEF A
<1>3. /\ Min(A) \in A /\ \A x \in A : Min(A) <= x
      /\ Max(A) \in A /\ \A x \in A : x <= Max(A)
  <2>1. A # {}
    BY DEF A
  <2> QED
    BY <1>2, <2>1, Extremes
<1>4. NextTick = IF a2b THEN Max(A) ELSE Min(A)
  BY DEF NextTick, A
<1>5. /\ NextTick \in A
      /\ \A t \in A : IF a2b THEN t <= NextTick ELSE NextTick <= t
  BY <1>3, <1>4
<1> QED
  BY <1>1, <1>5 DEF A

LEMMA WalkTickTypes ==
  ASSUME OrderTypes, WalkTick, UNCHANGED uniswap_vars
  PROVE  OrderTypes'
<1> DEFINE tick == NextTick
           taken == compute_swap_step(walk.sqrt_price, TargetOf(tick), walk.liquidity,
                                      walk.remaining, seen.fee)
<1>1. /\ pc = "walk" /\ Ahead(walk.ticks) # {} /\ walk.remaining # 0
      /\ UNCHANGED <<config, plan, cetus_chain, candidates, best, seen>>
      /\ \/ pc' = "rejected" /\ walk' = walk
         \/ /\ pc' = "walk" /\ request' = request /\ InBounds(taken)
            /\ walk' = [remaining  |-> IF taken.amount_in = 0 THEN walk.remaining
                                       ELSE walk.remaining - taken.amount_in - taken.fee_amount,
                        liquidity  |-> IF taken.next = TickPrice[tick] THEN Crossed(tick)
                                       ELSE walk.liquidity,
                        sqrt_price |-> taken.next,
                        ticks      |-> walk.ticks \ {tick},
                        amount_in  |-> walk.amount_in + taken.amount_in,
                        amount_out |-> walk.amount_out + taken.amount_out,
                        fee_amount |-> walk.fee_amount + taken.fee_amount,
                        crossed    |-> walk.crossed + 1]
  BY DEF WalkTick, Reject
<1>2. CASE pc' = "rejected"
  <2>1. CetusTypes' /\ ReadOK'
    BY <1>1, <1>2 DEF OrderTypes, CetusTypes, ReadOK, WalkType, cetus_chain
  <2> QED
    BY <1>1, <1>2, <2>1, CetusTypesKeep DEF Quietly
<1>3. CASE pc' # "rejected"
  <2>1. /\ WalkType /\ InputAmount \in 1 .. U64 - 1
        /\ walk.ticks \subseteq Tick \cap DOMAIN seen.net
        /\ \A t \in walk.ticks : seen.net[t] \in Int
        /\ walk.crossed + Cardinality(walk.ticks) <= Cardinality(Tick)
        /\ seen.fee \in 0 .. FEE_RATE_DENOMINATOR - 1
    BY <1>1 DEF OrderTypes, ReadOK
  <2>2. U64 \in Nat \ {0} /\ U128 \in Nat \ {0}
    BY CetusAssumption
  <2>3. tick \in walk.ticks
    BY <1>1, <2>1, NextIs
  <2>4. walk.remaining \in 0 .. U64 - 1 /\ walk.remaining \in Nat
    BY <2>1, <2>2 DEF WalkType
  <2>5. taken.fee_amount \in Nat
    BY <1>1, <1>3, <2>1, <2>4, StepTypes
  <2>6. /\ taken.amount_in \in Nat /\ taken.amount_out \in Nat
        /\ taken.next \in MIN_SQRT_PRICE .. MAX_SQRT_PRICE
        /\ taken.amount_in + taken.fee_amount <= walk.remaining
    <3> HIDE DEF taken
    <3> QED
      BY <1>1, <1>3, <2>2 DEF InBounds
  <2>7. Crossed(tick) \in 0 .. U128 - 1
    <3>1. walk.liquidity \in Int /\ seen.net[tick] \in Int
      BY <2>1, <2>2, <2>3 DEF WalkType
    <3> QED
      BY <2>2, <3>1 DEF Crossed
  <2>8. /\ IsFiniteSet(walk.ticks)
        /\ Cardinality(walk.ticks) \in Nat /\ Cardinality(walk.ticks \ {tick}) = Cardinality(walk.ticks) - 1
        /\ Cardinality(Tick) \in Nat /\ Cardinality(walk.ticks \ {tick}) \in Nat
    <3>1. IsFiniteSet(walk.ticks) /\ IsFiniteSet(Tick)
      BY <2>1, CetusAssumption, FS_Subset
    <3>2. IsFiniteSet(walk.ticks \ {tick}) /\ Cardinality(walk.ticks \ {tick}) = Cardinality(walk.ticks) - 1
      <4> HIDE DEF tick
      <4> QED
        BY <2>3, <3>1, FS_RemoveElement
    <3> QED
      BY <3>1, <3>2, FS_CardinalityType
  <2> HIDE DEF tick, taken
  <2> DEFINE n == Cardinality(walk.ticks)
             m == Cardinality(walk.ticks \ {tick})
             all == Cardinality(Tick)
  <2>9. walk'.crossed + m <= all /\ walk'.crossed \in 0 .. all /\ walk'.ticks = walk.ticks \ {tick}
    <3>1. walk.crossed \in Nat /\ walk.crossed + n <= all /\ m = n - 1 /\ n \in Nat /\ m \in Nat /\ all \in Nat
      BY <2>1, <2>8 DEF WalkType
    <3>2. walk'.crossed = walk.crossed + 1 /\ walk'.ticks = walk.ticks \ {tick}
      BY <1>1, <1>3
    <3> HIDE DEF n, m, all
    <3> QED
      BY <3>1, <3>2
  <2>10. walk'.remaining \in 0 .. U64 - 1
    <3>1. walk'.remaining = IF taken.amount_in = 0 THEN walk.remaining
                            ELSE walk.remaining - taken.amount_in - taken.fee_amount
      BY <1>1, <1>3
    <3> QED
      BY <2>2, <2>4, <2>5, <2>6, <3>1
  <2>11. walk'.liquidity \in 0 .. U128 - 1
    <3>1. walk'.liquidity \in {Crossed(tick), walk.liquidity}
      BY <1>1, <1>3
    <3> QED
      BY <2>1, <2>7, <3>1 DEF WalkType
  <2>12. walk'.amount_in \in Nat /\ walk'.amount_out \in Nat /\ walk'.fee_amount \in Nat
         /\ walk'.sqrt_price \in MIN_SQRT_PRICE .. MAX_SQRT_PRICE
    <3>1. /\ walk'.amount_in = walk.amount_in + taken.amount_in
          /\ walk'.amount_out = walk.amount_out + taken.amount_out
          /\ walk'.fee_amount = walk.fee_amount + taken.fee_amount
          /\ walk'.sqrt_price = taken.next
      BY <1>1, <1>3
    <3>2. walk.amount_in \in Nat /\ walk.amount_out \in Nat /\ walk.fee_amount \in Nat
      BY <2>1 DEF WalkType
    <3> QED
      BY <2>5, <2>6, <3>1, <3>2
  <2>13. WalkType'
    BY <2>9, <2>10, <2>11, <2>12 DEF WalkType
  <2>14. CetusTypes'
    BY <1>1, <2>13 DEF OrderTypes, CetusTypes, cetus_chain
  <2>15. ReadOK'
    <3>1. InputAmount' = InputAmount
      BY <1>1, <1>3 DEF InputAmount
    <3> QED
      BY <1>1, <1>3, <2>1, <2>9, <2>13, <3>1 DEF OrderTypes, ReadOK, cetus_chain
  <2> QED
    BY <1>1, <1>3, <2>14, <2>15, CetusTypesKeep
<1> QED
  BY <1>2, <1>3

LEMMA WalkEndTypes ==
  ASSUME IInv, OrderTypes, WalkEnd, UNCHANGED uniswap_vars
  PROVE  OrderTypes'
<1> DEFINE out == walk.amount_out
           s == request.slippage_bps
           minimum == apply_slippage(out, s)
<1>1. pc = "walk" /\ UNCHANGED <<config, request, plan, cetus_vars>>
  BY DEF WalkEnd, Reject
<1>2. CASE pc' = "rejected"
  BY <1>1, <1>2, TypesOnward DEF Quietly
<1>3. CASE pc' # "rejected"
  <2>1. /\ pc' = "drafted" /\ minimum # None /\ ~(out >= U64)
        /\ draft'.plan.kind = "cetus" /\ draft'.plan.input_amount = InputAmount
        /\ draft'.plan.min_amount_out = minimum
    BY <1>3 DEF WalkEnd, Reject
  <2>2. InputAmount \in 1 .. U64 - 1 /\ out \in Nat
    BY <1>1 DEF OrderTypes, ReadOK, WalkType
  <2>3. s \in Nat /\ Bps \in Nat \ {0} /\ U64 \in Nat
    BY <1>1, RequestIs, ConfigAssumption, CetusAssumption
  <2>4. s <= Bps /\ minimum = (out * (Bps - s)) \div Bps
    BY <2>1, <2>3 DEF apply_slippage
  <2> HIDE DEF out, s, minimum
  <2>5. Bps - s \in Nat /\ Bps - s <= Bps
    BY <2>3, <2>4
  <2> DEFINE k == Bps - s
             n == out * k
  <2>6. n \in Nat /\ n <= out * Bps
    <3>1. k \in Nat /\ k <= Bps
      BY <2>5
    <3> HIDE DEF k
    <3> QED
      BY <2>2, <2>3, <3>1
  <2>7. minimum = n \div Bps
    BY <2>4
  <2> HIDE DEF k, n
  <2>8. minimum \in Nat /\ minimum * Bps <= n
    BY <2>3, <2>6, <2>7, Quotient
  <2>9. minimum * Bps <= out * Bps
    <3>1. minimum * Bps \in Int /\ out * Bps \in Int
      BY <2>2, <2>3, <2>8
    <3> QED
      BY <2>6, <2>8, <3>1
  <2>10. minimum <= out
    BY <2>2, <2>3, <2>8, <2>9
  <2>11. minimum \in 0 .. U64 - 1
    BY <2>1, <2>2, <2>3, <2>8, <2>10
  <2>12. UniswapTypes' /\ DraftTypes'
    BY <1>1, <2>1, <2>2, <2>11 DEF OrderTypes, UniswapTypes, DraftTypes, PlanType, uniswap_vars, uniswap_chain
  <2> QED
    BY <1>1, <2>1, <2>12, UniswapTypesKeep
<1> QED
  BY <1>2, <1>3

LEMMA CetusTypesStep ==
  ASSUME IInv, OrderTypes, CetusNext, UNCHANGED uniswap_vars
  PROVE  OrderTypes'
<1>1. CASE CetusFund
  BY <1>1, TypesOnward DEF CetusFund, Quietly
<1> QED
  BY <1>1, ReadTypes, FetchDecimalsTypes, WalkTickTypes, WalkEndTypes DEF CetusNext, CetusIdle

\* Whatever others do to the pools and the coins.
LEMMA CetusMovesTypes ==
  ASSUME OrderTypes, CetusMoves, UNCHANGED <<venue_vars, uniswap_vars>>
  PROVE  OrderTypes'
<1>1. /\ UNCHANGED <<candidates, best, seen, walk, config, plan, pc, request>>
      /\ moves < MaxMoves /\ moves' = moves + 1
      /\ DOMAIN pools' = DOMAIN pools
      /\ \A id \in DOMAIN pools : pools'[id] = pools[id] \/ pools'[id] \in PoolStates
  BY DEF CetusMoves, MovePool, SpendCoin, venue_vars
<1>2. moves' \in 0 .. MaxMoves
  BY <1>1, CetusAssumption DEF OrderTypes, CetusTypes
<1>3. \A id \in DOMAIN pools' : ValidPool(pools'[id])
  BY <1>1, CetusAssumption DEF OrderTypes, ReadOK
<1>4. InputAmount' = InputAmount
  BY <1>1 DEF InputAmount
<1>5. CetusTypes'
  BY <1>1, <1>2 DEF OrderTypes, CetusTypes, WalkType
<1>6. ReadOK'
  BY <1>1, <1>3, <1>4 DEF OrderTypes, ReadOK, WalkType
<1>7. UniswapTypes' /\ DraftTypes'
  BY DEF OrderTypes, UniswapTypes, DraftTypes, PlanType, uniswap_vars, uniswap_chain, venue_vars
<1> QED
  BY <1>1, <1>5, <1>6, <1>7 DEF OrderTypes, PlanType

------------------------------------------------------------------------------
LEMMA AskTypes ==
  ASSUME IInv, OrderTypes, AskChains \/ AskChain, UNCHANGED cetus_vars
  PROVE  OrderTypes'
<1>1. CASE AskChains
  <2>1. /\ UNCHANGED <<config, plan, uniswap_chain, step>> /\ candidate' = None
        /\ \/ pc' = "rejected" /\ at' = at
           \/ pc' = "chain" /\ at' = 1
    BY <1>1 DEF AskChains, Reject
  <2>2. Len(config.chains) \in Nat
    BY DEF OrderTypes, DraftTypes
  <2>3. UniswapTypes' /\ DraftTypes'
    BY <2>1, <2>2 DEF OrderTypes, UniswapTypes, DraftTypes, uniswap_chain
  <2> QED
    BY <2>1, <2>3, UniswapTypesKeep DEF Quietly
<1>2. CASE AskChain
  <2>1. /\ pc = "chain" /\ at <= Len(config.chains) /\ at' = at + 1
        /\ UNCHANGED <<venue_vars, uniswap_chain, step>>
        /\ \/ candidate' = candidate
           \/ Candidate(config.chains[at])
    BY <1>2 DEF AskChain, NoCandidate
  <2>2. at \in Nat \ {0} /\ at \in DOMAIN config.chains /\ Len(config.chains) \in Nat
    BY <2>1 DEF IInv, LevelOK, RequestOK
  <2>3. ASSUME candidate' # candidate
        PROVE  PlanType(candidate'.plan)
    <3> DEFINE input == find_token(config.chains[at], request.token_in)
               amount == parse_units_string(request.amount, input.decimals)
    <3>0. Candidate(config.chains[at])
      BY <2>1, <2>3
    <3>1. /\ input # None /\ amount # None
          /\ candidate'.plan.kind = "uniswap" /\ candidate'.plan.input_amount = amount
      BY <2>3, <3>0 DEF Candidate
    <3>2. amount \in Nat \ {0}
      <4> HIDE DEF input
      <4> QED
        BY <3>1, ParsedIs
    <3> HIDE DEF amount
    <3> QED
      BY <3>1, <3>2 DEF PlanType
  <2>4. candidate' # None => PlanType(candidate'.plan)
    BY <2>3 DEF OrderTypes, DraftTypes
  <2>5. UniswapTypes' /\ DraftTypes'
    BY <2>1, <2>2, <2>4 DEF OrderTypes, UniswapTypes, DraftTypes, PlanType, uniswap_chain, venue_vars
  <2> QED
    BY <2>1, <2>5, UniswapTypesKeep DEF venue_vars
<1> QED
  BY <1>1, <1>2

\* What an allowance or a balance becomes is again one.
LEMMA LandTypes ==
  ASSUME IInv, OrderTypes, Land, UNCHANGED cetus_vars
  PROVE  OrderTypes'
<1> DEFINE x == plan.input_token
           n == plan.input_amount
<1>1. /\ pc = "sent" /\ pc' \in {"done", "failed", "steps"}
      /\ UNCHANGED <<config, plan, draft, spends, at, candidate, step>>
      /\ \/ balances' = balances /\ allowances' = allowances
         \/ /\ balances[x] >= n /\ balances' = [balances EXCEPT ![x] = @ - n]
            /\ allowances' = allowances
         \/ /\ balances[x] >= n /\ balances' = [balances EXCEPT ![x] = @ - n]
            /\ allowances[x] >= n /\ allowances' = [allowances EXCEPT ![x] = @ - n]
         \/ balances' = balances /\ allowances' = [allowances EXCEPT ![x] = 0]
         \/ balances' = balances /\ allowances' = [allowances EXCEPT ![x] = Unlimited]
  BY DEF Land
<1>2. PlanType(plan) /\ plan.kind \in {"cetus", "uniswap"}
  BY <1>1 DEF OrderTypes, DraftTypes
<1>3. n \in Nat
  BY <1>2, CetusAssumption DEF PlanType
<1>4. Unlimited \in Nat
  BY VenuesAssumption
<1> HIDE DEF n, x
<1>5. \A a \in DOMAIN balances' : balances'[a] \in Nat
  <2> SUFFICES ASSUME NEW a \in DOMAIN balances' PROVE balances'[a] \in Nat
    OBVIOUS
  <2>1. a \in DOMAIN balances /\ balances[a] \in Nat
    BY <1>1 DEF OrderTypes, UniswapTypes
  <2>2. balances'[a] = balances[a] \/ (balances[x] >= n /\ a = x /\ balances'[a] = balances[a] - n)
    BY <1>1, <2>1
  <2> QED
    BY <1>3, <2>1, <2>2
<1>6. \A a \in DOMAIN allowances' : allowances'[a] \in 0 .. Unlimited
  <2> SUFFICES ASSUME NEW a \in DOMAIN allowances' PROVE allowances'[a] \in 0 .. Unlimited
    OBVIOUS
  <2>1. a \in DOMAIN allowances /\ allowances[a] \in 0 .. Unlimited
    BY <1>1 DEF OrderTypes, UniswapTypes
  <2>2. \/ allowances'[a] \in {allowances[a], 0, Unlimited}
        \/ allowances[x] >= n /\ a = x /\ allowances'[a] = allowances[a] - n
    BY <1>1, <2>1
  <2> QED
    BY <1>3, <1>4, <2>1, <2>2
<1>7. UniswapTypes' /\ DraftTypes'
  BY <1>1, <1>2, <1>5, <1>6 DEF OrderTypes, UniswapTypes, DraftTypes, PlanType
<1> QED
  BY <1>1, <1>7, UniswapTypesKeep DEF Quietly

LEMMA UniswapTypesStep ==
  ASSUME IInv, OrderTypes, UniswapNext, UNCHANGED cetus_vars
  PROVE  OrderTypes'
<1>1. CASE ChooseBest
  <2>1. /\ UNCHANGED <<config, plan, uniswap_vars>>
        /\ \/ pc' = "rejected" /\ draft' = draft
           \/ pc' = "drafted" /\ draft' = candidate /\ candidate # None
    BY <1>1 DEF ChooseBest, Reject
  <2>2. UniswapTypes' /\ DraftTypes'
    BY <2>1 DEF OrderTypes, UniswapTypes, DraftTypes, PlanType, uniswap_vars, uniswap_chain
  <2> QED
    BY <2>1, <2>2, UniswapTypesKeep DEF Quietly
<1>2. CASE Steps
  <2>1. /\ UNCHANGED <<config, plan, draft, uniswap_chain, at, candidate>>
        /\ pc = "steps" /\ pc' = "build" /\ step' \in {"cancel", "approval", "swap"}
    BY <1>2 DEF Steps, steps_from_check_approval
  <2>2. UniswapTypes' /\ DraftTypes'
    BY <2>1 DEF OrderTypes, UniswapTypes, DraftTypes, PlanType, uniswap_chain
  <2> QED
    BY <2>1, <2>2, UniswapTypesKeep
<1>3. CASE Build
  <2>1. /\ UNCHANGED <<config, plan, draft, balances, allowances, spends, at, candidate, step>>
        /\ pc = "build" /\ pc' \in {"failed", "sign"}
    BY <1>3 DEF Build
  <2>2. UniswapTypes' /\ DraftTypes'
    BY <2>1 DEF OrderTypes, UniswapTypes, DraftTypes, PlanType
  <2> QED
    BY <2>1, <2>2, UniswapTypesKeep DEF Quietly
<1>4. CASE Sign
  <2>1. /\ UNCHANGED <<config, plan, draft, uniswap_vars>>
        /\ pc = "sign" /\ pc' \in {"failed", "sent"}
    BY <1>4 DEF Sign
  <2>2. UniswapTypes' /\ DraftTypes'
    BY <2>1 DEF OrderTypes, UniswapTypes, DraftTypes, PlanType, uniswap_vars, uniswap_chain
  <2> QED
    BY <2>1, <2>2, UniswapTypesKeep DEF Quietly
<1> QED
  BY <1>1, <1>2, <1>3, <1>4, AskTypes, LandTypes DEF UniswapNext

LEMMA UniswapMovesTypes ==
  ASSUME OrderTypes, UniswapMoves, UNCHANGED <<venue_vars, cetus_vars>>
  PROVE  OrderTypes'
<1>1. PICK x \in DOMAIN allowances : OtherOrder(x)
  BY DEF UniswapMoves
<1>2. /\ UNCHANGED <<config, plan, draft, pc, balances, tvls, at, candidate, step>>
      /\ spends < MaxSpends /\ spends' = spends + 1
      /\ \/ \E spent \in OtherAmounts \cap (0 .. allowances[x]) :
              allowances' = [allowances EXCEPT ![x] = @ - spent]
         \/ allowances' = [allowances EXCEPT ![x] = 0]
         \/ allowances' = [allowances EXCEPT ![x] = Unlimited]
  BY <1>1 DEF OtherOrder, venue_vars
<1>3. Unlimited \in Nat /\ MaxSpends \in Nat
  BY VenuesAssumption
<1>4. \A a \in DOMAIN allowances' : allowances'[a] \in 0 .. Unlimited
  <2> SUFFICES ASSUME NEW a \in DOMAIN allowances' PROVE allowances'[a] \in 0 .. Unlimited
    OBVIOUS
  <2>1. a \in DOMAIN allowances /\ allowances[a] \in 0 .. Unlimited /\ allowances[x] \in 0 .. Unlimited
    BY <1>2 DEF OrderTypes, UniswapTypes
  <2>2. \/ allowances'[a] \in {allowances[a], 0, Unlimited}
        \/ \E spent \in 0 .. allowances[x] : a = x /\ allowances'[a] = allowances[x] - spent
    BY <1>2, <2>1
  <2> QED
    BY <1>3, <2>1, <2>2
<1>5. spends' \in 0 .. MaxSpends
  BY <1>2, <1>3 DEF OrderTypes, UniswapTypes
<1>6. UniswapTypes' /\ DraftTypes'
  BY <1>2, <1>4, <1>5 DEF OrderTypes, UniswapTypes, DraftTypes, PlanType
<1>7. CetusTypes' /\ ReadOK'
  BY DEF OrderTypes, CetusTypes, ReadOK, WalkType, InputAmount, cetus_vars, cetus_chain, venue_vars
<1> QED
  BY <1>2, <1>6, <1>7 DEF OrderTypes, PlanType

------------------------------------------------------------------------------
LEMMA NextTypes ==
  ASSUME IInv, OrderTypes, [Next]_vars
  PROVE  OrderTypes'
<1>1. CASE (Load({strategy} \ {None}) \/ VenueNext) /\ UNCHANGED <<cetus_vars, uniswap_vars>>
  BY <1>1, VenueTypes
<1>2. CASE CetusNext /\ UNCHANGED uniswap_vars
  BY <1>2, CetusTypesStep
<1>3. CASE CetusMoves /\ UNCHANGED <<venue_vars, uniswap_vars>>
  BY <1>3, CetusMovesTypes
<1>4. CASE UniswapNext /\ UNCHANGED cetus_vars
  BY <1>4, UniswapTypesStep
<1>5. CASE UniswapMoves /\ UNCHANGED <<venue_vars, cetus_vars>>
  BY <1>5, UniswapMovesTypes
<1>6. CASE UNCHANGED <<venue_vars, cetus_vars, uniswap_vars>>
  <2>1. CetusTypes' /\ ReadOK'
    BY <1>6 DEF OrderTypes, CetusTypes, ReadOK, WalkType, InputAmount, cetus_vars, cetus_chain, venue_vars
  <2>2. UniswapTypes' /\ DraftTypes'
    BY <1>6 DEF OrderTypes, UniswapTypes, DraftTypes, PlanType, uniswap_vars, uniswap_chain, venue_vars
  <2> QED
    BY <1>6, <2>1, <2>2 DEF OrderTypes, PlanType, venue_vars
<1> QED
  BY <1>1, <1>2, <1>3, <1>4, <1>5, <1>6 DEF Next, vars

(* Whatever was read of a pool and however often it moved meanwhile, amounts are
   numbers of base units of the width the code keeps them in, a walk takes no more
   than it was given and crosses no tick twice, and a stored plan spends a whole
   amount that is not nought: for any pools, chains, answers and charts. *)
THEOREM TypeCorrect == Spec => []TypeOK
<1> DEFINE J == IInv /\ OrderTypes /\ ChartHolds
<1>1. Init => J
  BY InitHolds, TypesBegin, ChartBegins
<1>2. J /\ [Next]_vars => J'
  <2> SUFFICES ASSUME IInv, OrderTypes, ChartHolds, [Next]_vars
               PROVE  J'
    OBVIOUS
  <2>1. ChartNext \/ IndexBlock \/ UNCHANGED chart_vars
    BY DEF Next, vars
  <2> QED
    BY <2>1, NextKeeps, NextTypes, ChartKeeps
<1>3. J => TypeOK
  BY DEF TypeOK, OrderTypes, ChartHolds
<1> QED
  BY <1>1, <1>2, <1>3, PTL DEF Spec

(* A chart of a pool that the subgraph did not change while it was read shows the
   liquidity of the pool's positions at every tick and at the current price, and
   leaves out no tick between the current price and a candle or an unfilled level:
   for any positions, however they overlap, and any length of a page. *)
THEOREM ChartsAreTrue == Spec => []PointsAreTrue
<1> DEFINE J == ChartHolds /\ PointsAreTrue
<1>1. Init => J
  BY ChartBegins DEF Init, ChartInit, NoChart, PointsAreTrue
<1>2. J /\ [Next]_vars => J'
  <2> SUFFICES ASSUME ChartHolds, PointsAreTrue, [Next]_vars
               PROVE  J'
    OBVIOUS
  <2>1. ChartNext \/ IndexBlock \/ UNCHANGED chart_vars
    BY DEF Next, vars
  <2> QED
    BY <2>1, ChartKeeps, PointsStay
<1>3. J => PointsAreTrue
  OBVIOUS
<1> QED
  BY <1>1, <1>2, <1>3, PTL DEF Spec

------------------------------------------------------------------------------
(* A walk through a pool that did not move.                                *)

\* The price of a tick is the target of a step to it.
LEMMA TargetIs ==
  ASSUME NEW tick \in Tick
  PROVE  TargetOf(tick) = TickPrice[tick] /\ TickPrice[tick] \in MIN_SQRT_PRICE .. MAX_SQRT_PRICE
<1> DEFINE t == TickPrice[tick]
<1>1. t \in MIN_SQRT_PRICE .. MAX_SQRT_PRICE /\ MIN_SQRT_PRICE \in Nat /\ MAX_SQRT_PRICE \in Nat
  BY CetusAssumption
<1>2. TargetOf(tick) = IF a2b THEN Max({MIN_SQRT_PRICE, t}) ELSE Min({MAX_SQRT_PRICE, t})
  BY DEF TargetOf
<1> HIDE DEF t
<1>3. t \in Int /\ MIN_SQRT_PRICE \in Int /\ MAX_SQRT_PRICE \in Int
  BY <1>1
<1>4. Max({MIN_SQRT_PRICE, t}) = IF MIN_SQRT_PRICE <= t THEN t ELSE MIN_SQRT_PRICE
  BY <1>3, OfTwo
<1>5. Min({MAX_SQRT_PRICE, t}) = IF MAX_SQRT_PRICE <= t THEN MAX_SQRT_PRICE ELSE t
  BY <1>3, OfTwo
<1>6. TargetOf(tick) = t
  BY <1>1, <1>2, <1>3, <1>4, <1>5
<1> QED
  BY <1>1, <1>6 DEF t

\* Where a walk is, of a pool that did not move.
LEMMA WalkIs ==
  ASSUME OrderTypes, Walking, pc = "walk"
  PROVE  /\ best # None /\ ValidPool(pools[best.pool])
         /\ Ahead(walk.ticks) \in SUBSET InitializedTicks(pools[best.pool])
         /\ walk.ticks \subseteq Tick
         /\ walk.remaining \in 0 .. U64 - 1 /\ walk.liquidity \in 0 .. U128 - 1
         /\ walk.sqrt_price \in MIN_SQRT_PRICE .. MAX_SQRT_PRICE
         /\ walk.amount_in \in Nat /\ walk.amount_out \in Nat /\ walk.fee_amount \in Nat
         /\ walk.remaining \in Nat /\ walk.liquidity \in Nat /\ walk.crossed \in Nat
         /\ seen.fee = pools[best.pool].fee /\ seen.fee \in 0 .. FEE_RATE_DENOMINATOR - 1
         /\ \A t \in InitializedTicks(pools[best.pool]) : seen.net[t] = NetAt(pools[best.pool], t)
<1>1. best # None /\ best.pool \in DOMAIN pools /\ ValidPool(pools[best.pool])
  BY DEF OrderTypes, CetusTypes, ReadOK
<1>2. /\ WalkType /\ walk.ticks \subseteq Tick \cap DOMAIN seen.net
      /\ seen.fee \in 0 .. FEE_RATE_DENOMINATOR - 1
  BY DEF OrderTypes, ReadOK
<1>3. TicksRead /\ seen.fee = pools[best.pool].fee
  BY DEF Walking, StateRead
<1>4. DOMAIN seen.net = InitializedTicks(pools[best.pool])
      /\ \A t \in InitializedTicks(pools[best.pool]) : seen.net[t] = NetAt(pools[best.pool], t)
  BY <1>3 DEF TicksRead
<1>5. Ahead(walk.ticks) \subseteq walk.ticks
  BY DEF Ahead
<1> QED
  BY <1>1, <1>2, <1>3, <1>4, <1>5, CetusAssumption DEF WalkType

\* A step from there: it fits, so that it is never the reason to reject, and goes on towards
\* the next tick.
LEMMA WalkTickIs ==
  ASSUME OrderTypes, Walking, Walked, NetsStand, WalkTick, Fits(pools[best.pool]),
         NEW tick, tick = NextTick, NEW s, s = walk.sqrt_price, NEW L, L = walk.liquidity,
         NEW taken, taken = compute_swap_step(s, TickPrice[tick], L, walk.remaining, seen.fee)
  PROVE  /\ tick \in Ahead(walk.ticks) /\ tick \in Tick /\ \A t \in Ahead(walk.ticks) : Onward(tick, t)
         /\ s \in MIN_SQRT_PRICE .. MAX_SQRT_PRICE /\ L \in Nat /\ walk.remaining \in Nat \ {0}
         /\ TickPrice[tick] \in MIN_SQRT_PRICE .. MAX_SQRT_PRICE
         /\ StepHolds(taken, s, TickPrice[tick], L, walk.remaining, seen.fee)
         /\ Onward(s, TickPrice[tick])
         /\ taken.next \in MIN_SQRT_PRICE .. MAX_SQRT_PRICE
         /\ Onward(s, taken.next) /\ Onward(taken.next, TickPrice[tick])
         /\ taken.amount_in \in Nat /\ taken.amount_out \in Nat /\ taken.fee_amount \in Nat
         /\ a2b => PaysDown(s, taken.next, L, taken.amount_in, taken.amount_out)
         /\ ~a2b => PaysUp(s, taken.next, L, taken.amount_in, taken.amount_out)
         /\ pc' = "walk"
         /\ walk' = [remaining  |-> IF taken.amount_in = 0 THEN walk.remaining
                                    ELSE walk.remaining - taken.amount_in - taken.fee_amount,
                     liquidity  |-> IF taken.next = TickPrice[tick] THEN Crossed(tick)
                                    ELSE walk.liquidity,
                     sqrt_price |-> taken.next,
                     ticks      |-> walk.ticks \ {tick},
                     amount_in  |-> walk.amount_in + taken.amount_in,
                     amount_out |-> walk.amount_out + taken.amount_out,
                     fee_amount |-> walk.fee_amount + taken.fee_amount,
                     crossed    |-> walk.crossed + 1]
<1> DEFINE target == TickPrice[tick]
           amount == walk.remaining
<1>1. pc = "walk" /\ walk.remaining # 0 /\ Ahead(walk.ticks) # {}
  BY DEF WalkTick
<1>2. /\ ValidPool(pools[best.pool]) /\ walk.ticks \subseteq Tick
      /\ amount \in 0 .. U64 - 1 /\ amount \in Nat \ {0} /\ L \in Nat
      /\ s \in MIN_SQRT_PRICE .. MAX_SQRT_PRICE
      /\ seen.fee \in 0 .. FEE_RATE_DENOMINATOR - 1
  BY <1>1, WalkIs
<1>3. tick \in Ahead(walk.ticks) /\ tick \in Tick /\ \A t \in Ahead(walk.ticks) : Onward(tick, t)
  BY <1>1, <1>2, NextIs DEF Onward
<1>4. TargetOf(tick) = target /\ target \in MIN_SQRT_PRICE .. MAX_SQRT_PRICE
  BY <1>3, TargetIs
<1>5. HasRoom(L)
  <2>1. PICK t \in Tick : L <= LiquidityAt(pools[best.pool], t)
    BY DEF Walked
  <2>2. HasRoom(LiquidityAt(pools[best.pool], t)) /\ LiquidityAt(pools[best.pool], t) \in Nat
    BY <1>2, PoolIs DEF Fits
  <2> QED
    BY <1>2, <2>1, <2>2, RoomIs
<1>6. StepHolds(taken, s, target, L, amount, seen.fee)
  <2> HIDE DEF target
  <2>1. StepHolds(compute_swap_step(s, target, L, amount, seen.fee), s, target, L, amount, seen.fee)
    BY <1>2, <1>4, <1>5, StepIs
  <2> QED
    BY <2>1 DEF target
<1>7. Onward(s, target)
  <2>1. Going \/ Stuck
    BY <1>1 DEF Walked, Done
  <2> QED
    BY <1>3, <2>1 DEF Going, Stuck
<1>8. /\ {taken.most, taken.amount_in, taken.amount_out} \subseteq 0 .. U128 - 1
      /\ taken.fee_amount \in Nat /\ taken.amount_in + taken.fee_amount <= amount
      /\ s >= target => /\ taken.next \in target .. s
                        /\ PaysDown(s, taken.next, L, taken.amount_in, taken.amount_out)
      /\ s <= target => /\ taken.next \in s .. target
                        /\ PaysUp(s, taken.next, L, taken.amount_in, taken.amount_out)
  BY <1>6 DEF StepHolds
<1>9. /\ s \in Int /\ target \in Int /\ MIN_SQRT_PRICE \in Nat /\ MAX_SQRT_PRICE \in Nat /\ U128 \in Nat
      /\ s >= MIN_SQRT_PRICE /\ s <= MAX_SQRT_PRICE /\ target >= MIN_SQRT_PRICE /\ target <= MAX_SQRT_PRICE
  BY <1>2, <1>4, CetusAssumption
<1> HIDE DEF target, amount
<1>10. /\ taken.next \in MIN_SQRT_PRICE .. MAX_SQRT_PRICE
       /\ Onward(s, taken.next) /\ Onward(taken.next, target)
       /\ a2b => PaysDown(s, taken.next, L, taken.amount_in, taken.amount_out)
       /\ ~a2b => PaysUp(s, taken.next, L, taken.amount_in, taken.amount_out)
  <2>1. CASE a2b
    <3>1. s >= target
      BY <1>7, <1>9, <2>1 DEF Onward
    <3>2. taken.next \in target .. s /\ PaysDown(s, taken.next, L, taken.amount_in, taken.amount_out)
      BY <1>8, <3>1
    <3>3. taken.next \in MIN_SQRT_PRICE .. MAX_SQRT_PRICE /\ taken.next <= s /\ target <= taken.next
      BY <1>9, <3>2
    <3> QED
      BY <2>1, <3>2, <3>3 DEF Onward
  <2>2. CASE ~a2b
    <3>1. s <= target
      BY <1>7, <1>9, <2>2 DEF Onward
    <3>2. taken.next \in s .. target /\ PaysUp(s, taken.next, L, taken.amount_in, taken.amount_out)
      BY <1>8, <3>1
    <3>3. taken.next \in MIN_SQRT_PRICE .. MAX_SQRT_PRICE /\ s <= taken.next /\ taken.next <= target
      BY <1>9, <3>2
    <3> QED
      BY <2>2, <3>2, <3>3 DEF Onward
  <2> QED
    BY <2>1, <2>2
<1>11. taken.amount_in \in Nat /\ taken.amount_out \in Nat
  BY <1>8, <1>9
<1>12. InBounds(taken)
  BY <1>8, <1>10 DEF InBounds, amount
<1>13. taken = compute_swap_step(walk.sqrt_price, TargetOf(NextTick), walk.liquidity, walk.remaining, seen.fee)
  BY <1>4 DEF target
<1>14. /\ pc' = "walk"
       /\ walk' = [remaining  |-> IF taken.amount_in = 0 THEN walk.remaining
                                  ELSE walk.remaining - taken.amount_in - taken.fee_amount,
                   liquidity  |-> IF taken.next = TickPrice[tick] THEN Crossed(tick)
                                  ELSE walk.liquidity,
                   sqrt_price |-> taken.next,
                   ticks      |-> walk.ticks \ {tick},
                   amount_in  |-> walk.amount_in + taken.amount_in,
                   amount_out |-> walk.amount_out + taken.amount_out,
                   fee_amount |-> walk.fee_amount + taken.fee_amount,
                   crossed    |-> walk.crossed + 1]
  BY <1>1, <1>12, <1>13 DEF WalkTick
<1> QED
  BY <1>2, <1>3, <1>4, <1>6, <1>7, <1>8, <1>10, <1>11, <1>14 DEF target, amount

\* Past the nearest tick, when the step got there.
LEMMA PastIs ==
  ASSUME NEW state, ValidPool(state), NEW A \in SUBSET InitializedTicks(state), Parted(state, A),
         NEW tick \in A, \A u \in A : Onward(tick, u)
  PROVE  /\ \A t \in A \ {tick} : Onward(TickPrice[tick], TickPrice[t])
         /\ \A t \in InitializedTicks(state) \ (A \ {tick}) : Onward(TickPrice[t], TickPrice[tick])
<1>1. InitializedTicks(state) \subseteq Tick
  BY PoolIs
<1>2. \A t, u \in Tick : Onward(t, u) => Onward(TickPrice[t], TickPrice[u])
  BY PriceOfTick DEF Onward
<1>3. tick \in Tick /\ A \subseteq Tick
  BY <1>1
<1>4. Onward(TickPrice[tick], TickPrice[tick])
  BY <1>2, <1>3
<1> QED
  BY <1>1, <1>2, <1>3, <1>4 DEF Parted

\* In the state after a step the walk is as far as these say.
LEMMA GoingNow ==
  ASSUME NEW state, state = pools[best.pool], UNCHANGED <<pools, best, request, seen>>,
         NEW B, Ahead(walk.ticks)' = B,
         (walk.amount_in + walk.fee_amount + walk.remaining)' = InputAmount,
         NetsStand' => walk'.liquidity = SizeOf(state, InsideOf(state, B)), Parted(state, B),
         \A t \in B : Onward(walk'.sqrt_price, TickPrice[t]),
         \A t \in InitializedTicks(state) \ B : Onward(TickPrice[t], walk'.sqrt_price)
  PROVE  Going'
<1>1. a2b' = a2b /\ InputAmount' = InputAmount
  BY DEF a2b, InputAmount
<1>2. Inside' = InsideOf(state, B)
  BY <1>1 DEF Inside, InsideOf, Near, Far
<1>3. (NetsStand => walk.liquidity = SumFunctionOnSet([p \in pools[best.pool].positions |-> p.size], Inside))'
  BY <1>2 DEF SizeOf
<1>4. (\A t \in Ahead(walk.ticks) : Onward(walk.sqrt_price, TickPrice[t]))'
  BY <1>1 DEF Onward
<1>5. (\A t \in InitializedTicks(pools[best.pool]) \ Ahead(walk.ticks) :
         Onward(TickPrice[t], walk.sqrt_price) /\ \A u \in Ahead(walk.ticks) : Onward(t, u))'
  BY <1>1 DEF Onward, Parted, InitializedTicks
<1> QED
  BY <1>1, <1>3, <1>4, <1>5 DEF Going

LEMMA StuckNow ==
  ASSUME UNCHANGED <<pools, best, request, seen>>, NEW B, Ahead(walk.ticks)' = B,
         walk'.remaining # 0, AfterFee(walk'.remaining, seen.fee) = 0, walk'.liquidity # 0,
         \A t \in B : Onward(walk'.sqrt_price, TickPrice[t]) /\ walk'.sqrt_price # TickPrice[t]
  PROVE  Stuck'
<1>1. a2b' = a2b
  BY DEF a2b
<1>2. (\A t \in Ahead(walk.ticks) :
         Onward(walk.sqrt_price, TickPrice[t]) /\ walk.sqrt_price # TickPrice[t])'
  BY <1>1 DEF Onward
<1>3. (walk.remaining # 0 /\ AfterFee(walk.remaining, seen.fee) = 0 /\ walk.liquidity # 0)'
  BY DEF AfterFee
<1> QED
  BY <1>2, <1>3 DEF Stuck

LEMMA TradedNow ==
  ASSUME NEW state, state = pools[best.pool], UNCHANGED <<pools, best, request>>,
         TradedBy(state, walk'.sqrt_price, walk'.amount_in, walk'.amount_out, walk'.crossed)
  PROVE  Traded'
<1>1. a2b' = a2b
  BY DEF a2b
<1> DEFINE a == ExactA(state, walk'.sqrt_price, state.sqrt_price)
           b == ExactB(state, walk'.sqrt_price, state.sqrt_price)
<1>2. /\ ExactA(pools[best.pool], walk.sqrt_price, pools[best.pool].sqrt_price)' = a
      /\ ExactB(pools[best.pool], walk.sqrt_price, pools[best.pool].sqrt_price)' = b
  BY DEF ExactA, ExactB, Within
<1> QED
  BY <1>1, <1>2 DEF Traded, TradedBy

\* What was read of a pool that does not move is still what the pool is.
LEMMA ReadStays ==
  ASSUME StateRead, TicksRead, UNCHANGED <<pools, best, seen>>, pc # "ticks" \/ pc' = "ticks"
  PROVE  StateRead' /\ TicksRead'
<1>1. pools'[best'.pool] = pools[best.pool]
  OBVIOUS
<1>2. StateRead'
  BY <1>1 DEF StateRead, LiquidityAt
<1>3. TicksRead'
  BY <1>1 DEF TicksRead, InitializedTicks, NetAt
<1> QED
  BY <1>2, <1>3

\* Where the nets are read at their sign, or not yet, none of the other was added before.
LEMMA NetsStood ==
  ASSUME OrderTypes, WalkTick, NetsAreRead'
  PROVE  NetsAreRead /\ NetsStand
<1> SUFFICES ASSUME pools[best.pool].upward # -1
             PROVE  walk.crossed = 0
  BY DEF NetsAreRead, NetsStand, CountsNets
<1>1. /\ walk.remaining # 0 /\ Ahead(walk.ticks) # {} /\ walk.crossed \in Nat
      /\ UNCHANGED <<pools, best, seen>>
  BY CetusAssumption DEF WalkTick, cetus_chain, OrderTypes, ReadOK, WalkType
<1>2. ~CountsNets'
  BY <1>1 DEF NetsAreRead
<1>3. CASE walk'.crossed = walk.crossed + 1
  BY <1>1, <1>2, <1>3 DEF CountsNets
<1>4. CASE walk' = walk /\ request' = request
  <2>1. Ahead(walk.ticks)' = Ahead(walk.ticks)
    BY <1>1, <1>4 DEF Ahead, a2b
  <2> QED
    BY <1>1, <1>2, <1>4, <2>1 DEF CountsNets
<1> QED
  BY <1>3, <1>4 DEF WalkTick, Reject

\* One tick further, the walk is as far as it says.
LEMMA WalkTickWalks ==
  ASSUME OrderTypes, Walking, Walked, NetsStand, WalkTick, Fits(pools[best.pool])
  PROVE  Walking'
<1> DEFINE state == pools[best.pool]
           A == Ahead(walk.ticks)
           tick == NextTick
           B == A \ {tick}
           target == TickPrice[tick]
           s == walk.sqrt_price
           L == walk.liquidity
           fee == seen.fee
           taken == compute_swap_step(s, target, L, walk.remaining, fee)
           n == taken.next
           in == taken.amount_in
           out == taken.amount_out
           f == taken.fee_amount
<1>1. pc = "walk" /\ walk.remaining # 0 /\ UNCHANGED <<pools, best, seen>>
  BY DEF WalkTick, cetus_chain
<1>2. /\ ValidPool(state) /\ A \in SUBSET InitializedTicks(state) /\ walk.ticks \subseteq Tick
      /\ walk.remaining \in 0 .. U64 - 1 /\ L \in 0 .. U128 - 1
      /\ walk.amount_in \in Nat /\ walk.amount_out \in Nat /\ walk.fee_amount \in Nat
      /\ walk.crossed \in Nat /\ fee = state.fee /\ fee \in 0 .. FEE_RATE_DENOMINATOR - 1
      /\ \A t \in InitializedTicks(state) : seen.net[t] = NetAt(state, t)
  BY <1>1, WalkIs
<1> HIDE DEF tick, taken
<1>3. /\ tick \in A /\ tick \in Tick /\ \A t \in A : Onward(tick, t)
      /\ s \in MIN_SQRT_PRICE .. MAX_SQRT_PRICE /\ L \in Nat /\ walk.remaining \in Nat \ {0}
      /\ target \in MIN_SQRT_PRICE .. MAX_SQRT_PRICE
      /\ StepHolds(taken, s, target, L, walk.remaining, fee)
      /\ Onward(s, target) /\ n \in MIN_SQRT_PRICE .. MAX_SQRT_PRICE
      /\ Onward(s, n) /\ Onward(n, target)
      /\ in \in Nat /\ out \in Nat /\ f \in Nat
      /\ a2b => PaysDown(s, n, L, in, out)
      /\ ~a2b => PaysUp(s, n, L, in, out)
      /\ pc' = "walk"
      /\ walk' = [remaining  |-> IF in = 0 THEN walk.remaining ELSE walk.remaining - in - f,
                  liquidity  |-> IF n = target THEN Crossed(tick) ELSE walk.liquidity,
                  sqrt_price |-> n,
                  ticks      |-> walk.ticks \ {tick},
                  amount_in  |-> walk.amount_in + in,
                  amount_out |-> walk.amount_out + out,
                  fee_amount |-> walk.fee_amount + f,
                  crossed    |-> walk.crossed + 1]
  BY WalkTickIs DEF tick, taken
<1>4. /\ walk'.remaining = IF in = 0 THEN walk.remaining ELSE walk.remaining - in - f
      /\ walk'.liquidity = IF n = target THEN Crossed(tick) ELSE L
      /\ walk'.sqrt_price = n /\ walk'.ticks = walk.ticks \ {tick}
      /\ walk'.amount_in = walk.amount_in + in /\ walk'.amount_out = walk.amount_out + out
      /\ walk'.fee_amount = walk.fee_amount + f /\ walk'.crossed = walk.crossed + 1
  BY <1>3
<1>5. /\ in + f <= walk.remaining /\ in <= AfterFee(walk.remaining, fee)
      /\ f * FEE_RATE_DENOMINATOR >= (in + f) * fee
      /\ n = target /\ in = 0 => f = 0
      /\ n # target => /\ L # 0 /\ in = AfterFee(walk.remaining, fee) /\ in + f = walk.remaining
                       /\ in = 0 => n = s
  BY <1>3 DEF StepHolds
<1>6. /\ StateRead /\ TicksRead
      /\ \E t \in Tick : L <= LiquidityAt(state, t)
      /\ Onward(state.sqrt_price, s)
      /\ Going \/ Stuck \/ Done
      /\ Traded
      /\ walk.fee_amount * FEE_RATE_DENOMINATOR >= (walk.amount_in + walk.fee_amount) * fee
  BY <1>2 DEF Walking, Walked
<1>7. request' = request
  <2>1. ~(pc' = "rejected")
    BY <1>3
  <2> QED
    BY <2>1 DEF WalkTick, Reject
<1>8. a2b' = a2b
  BY <1>1, <1>7 DEF a2b
<1>9. Ahead(walk.ticks)' = B
  BY <1>1, <1>4, <1>8 DEF Ahead
<1>10. NetsStand' => state.upward = -1
  <2>1. walk.crossed + 1 # 0
    BY <1>2
  <2> QED
    BY <1>1, <1>4, <2>1 DEF NetsStand
<1>11. StateRead' /\ TicksRead'
  BY <1>1, <1>6, ReadStays
<1> HIDE DEF state, A, B, target, s, L, fee, n, in, out, f
<1>12. ASSUME Going
       PROVE  /\ Parted(state, A) /\ L = SizeOf(state, InsideOf(state, A))
              /\ \A t \in A : Onward(s, TickPrice[t])
              /\ \A t \in InitializedTicks(state) \ A : Onward(TickPrice[t], s)
              /\ walk.amount_in + walk.fee_amount + walk.remaining = InputAmount
  <2>1. Inside = InsideOf(state, A)
    BY DEF Inside, InsideOf, state, A
  <2> QED
    BY <1>12, <2>1 DEF Going, Parted, SizeOf, state, A, L, s
<1>13. ASSUME Stuck
       PROVE  /\ L # 0 /\ in = 0 /\ n = s /\ s # target /\ AfterFee(walk.remaining, fee) = 0
              /\ \A t \in A : Onward(s, TickPrice[t]) /\ s # TickPrice[t]
  <2>1. /\ L # 0 /\ AfterFee(walk.remaining, fee) = 0
        /\ \A t \in A : Onward(s, TickPrice[t]) /\ s # TickPrice[t]
    BY <1>13 DEF Stuck, L, fee, s, A
  <2>2. in = 0 /\ s # target
    BY <1>3, <1>5, <2>1 DEF target
  <2>3. n # target
    <3> SUFFICES ASSUME n = target PROVE FALSE
      OBVIOUS
    <3>1. s \in Nat \ {0} /\ target \in Nat \ {0} /\ s * target \in Nat /\ R \in Nat \ {0}
      BY <1>3, DistanceIs, CetusAssumption
    <3>2. CASE a2b
      <4>1. s - target \in Nat \ {0}
        BY <1>3, <2>2, <3>1, <3>2 DEF Onward
      <4>2. L * (s - target) * R <= 0 * (s * target)
        BY <1>3, <2>2, <3>2 DEF PaysDown
      <4>3. L * (s - target) \in Nat \ {0}
        BY <1>3, <2>1, <4>1
      <4>4. L * (s - target) * R \in Nat \ {0} /\ 0 * (s * target) = 0
        BY <3>1, <4>3
      <4> QED
        BY <4>2, <4>4
    <3>3. CASE ~a2b
      <4>1. target - s \in Nat \ {0}
        BY <1>3, <2>2, <3>1, <3>3 DEF Onward
      <4>2. L * (target - s) <= 0 * R
        BY <1>3, <2>2, <3>3 DEF PaysUp
      <4>3. L * (target - s) \in Nat \ {0} /\ 0 * R = 0
        BY <1>3, <2>1, <3>1, <4>1
      <4> QED
        BY <4>2, <4>3
    <3> QED
      BY <3>2, <3>3
  <2> QED
    BY <1>5, <2>1, <2>2, <2>3
<1>14. Going \/ Stuck
  BY <1>1, <1>6 DEF Done
<1>15. Pays(state, s, n, in, out)
  <2>1. n = s \/ /\ ExactA(state, n, s) = L * R * Distance(Multiple \div n, Multiple \div s)
                 /\ ExactB(state, n, s) = L * Distance(n, s)
    <3>1. CASE Going
      <4>1. /\ ExactA(state, n, s) = L * R * Distance(Multiple \div n, Multiple \div s)
            /\ ExactB(state, n, s) = L * Distance(n, s)
        <5>1. Onward(n, TickPrice[tick])
          BY <1>3 DEF target
        <5> QED
          BY <1>2, <1>3, <1>12, <3>1, <5>1, WayIs
      <4> QED
        BY <4>1
    <3> QED
      BY <1>13, <1>14, <3>1
  <2> QED
    BY <1>2, <1>3, <2>1, PaysFor
<1>16. TradedBy(state, n, walk.amount_in + in, walk.amount_out + out, walk.crossed + 1)
  <2>1. TradedBy(state, s, walk.amount_in, walk.amount_out, walk.crossed)
    BY <1>6 DEF Traded, TradedBy, state, s
  <2> QED
    BY <1>2, <1>3, <1>6, <1>15, <2>1, TradedOn
<1>17. Traded'
  <2>1. TradedBy(state, walk'.sqrt_price, walk'.amount_in, walk'.amount_out, walk'.crossed)
    BY <1>4, <1>16
  <2> QED
    BY <1>1, <1>7, <2>1, TradedNow DEF state
<1>18. (Onward(pools[best.pool].sqrt_price, walk.sqrt_price))'
  <2>1. state.sqrt_price \in MIN_SQRT_PRICE .. MAX_SQRT_PRICE /\ MIN_SQRT_PRICE \in Int /\ MAX_SQRT_PRICE \in Int
    BY <1>2, PoolIs, CetusAssumption
  <2>2. Onward(state.sqrt_price, n)
    BY <1>3, <1>6, <2>1 DEF Onward
  <2> QED
    BY <1>1, <1>4, <1>8, <2>2 DEF Onward, state
<1>19. walk'.fee_amount * FEE_RATE_DENOMINATOR >= (walk'.amount_in + walk'.fee_amount) * fee
  <2> DEFINE x == walk.fee_amount
             y == walk.amount_in
             d == FEE_RATE_DENOMINATOR
  <2>1. /\ x \in Nat /\ y \in Nat /\ f \in Nat /\ in \in Nat /\ fee \in Nat /\ d \in Nat
        /\ x * d >= (y + x) * fee /\ f * d >= (in + f) * fee
    BY <1>2, <1>3, <1>5, <1>6, CetusAssumption
  <2> HIDE DEF x, y, d
  <2>2. (x + f) * d = x * d + f * d /\ (y + in + (x + f)) * fee = (y + x) * fee + (in + f) * fee
    BY <2>1
  <2>3. {x * d, f * d, (y + x) * fee, (in + f) * fee} \subseteq Nat
    BY <2>1
  <2>4. (x + f) * d >= (y + in + (x + f)) * fee
    BY <2>1, <2>2, <2>3
  <2> QED
    BY <1>4, <2>4 DEF x, y, d
<1>20. ASSUME Going' \/ Stuck' \/ Done',
              NetsStand' => \E t \in Tick : walk'.liquidity <= LiquidityAt(state, t)
       PROVE  Walking'
  <2>1. (NetsStand => \E t \in Tick : walk.liquidity <= LiquidityAt(pools[best.pool], t))'
    BY <1>1, <1>20 DEF LiquidityAt, state
  <2>2. (walk.fee_amount * FEE_RATE_DENOMINATOR
           >= (walk.amount_in + walk.fee_amount) * pools[best.pool].fee)'
    BY <1>1, <1>2, <1>19 DEF state
  <2> QED
    BY <1>3, <1>17, <1>18, <1>11, <1>20, <2>1, <2>2 DEF Walking, Walked
<1>21. CASE Going /\ n = target
  <2>1. Parted(state, B)
    BY <1>2, <1>3, <1>12, <1>21, PartedOn DEF B
  <2>2. ASSUME NetsStand'
        PROVE  /\ walk'.liquidity = SizeOf(state, InsideOf(state, B))
               /\ \E t \in Tick : SizeOf(state, InsideOf(state, B)) <= LiquidityAt(state, t)
    <3> DEFINE z == SizeOf(state, InsideOf(state, B))
    <3>1. z = IF a2b THEN L + NetAt(state, tick) ELSE L - NetAt(state, tick)
      BY <1>2, <1>3, <1>12, <1>21, <1>10, <2>2, CrossingIs DEF B
    <3>2. B \in SUBSET InitializedTicks(state)
      BY <1>2 DEF B
    <3>3. z \in Nat /\ \E t \in Tick : z <= LiquidityAt(state, t)
      BY <1>2, <2>1, <3>2, NoMoreThanThere
    <3>4. Crossed(tick) = z % U128
      <4>1. seen.net[tick] = NetAt(state, tick)
        BY <1>2, <1>3
      <4> QED
        BY <3>1, <4>1 DEF Crossed, L
    <3>5. PICK t \in Tick : z <= LiquidityAt(state, t)
      BY <3>3
    <3>6. LiquidityAt(state, t) < U128 /\ LiquidityAt(state, t) \in Nat /\ U128 \in Nat \ {0}
      BY <1>2, PoolIs, CetusAssumption DEF ValidPool
    <3> HIDE DEF z
    <3>7. z % U128 = z
      BY <3>3, <3>5, <3>6
    <3> QED
      BY <1>4, <1>21, <3>3, <3>4, <3>7 DEF z
  <2>3. /\ \A t \in B : Onward(walk'.sqrt_price, TickPrice[t])
        /\ \A t \in InitializedTicks(state) \ B : Onward(TickPrice[t], walk'.sqrt_price)
    BY <1>2, <1>3, <1>4, <1>12, <1>21, PastIs DEF B, target
  <2>4. (walk.amount_in + walk.fee_amount + walk.remaining)' = InputAmount
    <3>1. walk.amount_in + walk.fee_amount + walk.remaining = InputAmount
      BY <1>12, <1>21
    <3> QED
      BY <1>2, <1>3, <1>4, <1>5, <1>21, <3>1
  <2>5. Going'
    BY <1>1, <1>7, <1>9, <2>1, <2>2, <2>3, <2>4, GoingNow DEF state
  <2>6. NetsStand' => \E t \in Tick : walk'.liquidity <= LiquidityAt(state, t)
    BY <2>2
  <2> QED
    BY <1>20, <2>5, <2>6
<1>22. CASE n # target
  <2>1. walk'.liquidity = L /\ L # 0 /\ in = AfterFee(walk.remaining, fee) /\ in + f = walk.remaining
        /\ (in = 0 => n = s)
    BY <1>4, <1>5, <1>22
  <2>2. Stuck' \/ Done'
    <3>1. CASE in = 0
      <4>1. walk'.remaining = walk.remaining /\ walk'.remaining # 0 /\ AfterFee(walk'.remaining, seen.fee) = 0
            /\ walk'.sqrt_price = s /\ s # target
        BY <1>1, <1>4, <1>22, <2>1, <3>1 DEF fee
      <4>2. ASSUME NEW t \in B PROVE Onward(s, TickPrice[t]) /\ s # TickPrice[t]
        <5>1. t \in A /\ t \in Tick
          BY <1>2, PoolIs DEF B
        <5>2. CASE Stuck
          BY <1>13, <5>1, <5>2
        <5>3. CASE Going
          <6>1. Onward(s, TickPrice[t])
            BY <1>12, <5>1, <5>3
          <6>2. Onward(tick, t)
            BY <1>3, <5>1
          <6>3. Onward(target, TickPrice[t])
            BY <1>3, <5>1, <6>2, PriceOfTick DEF Onward, target
          <6>4. s \in Int /\ target \in Int /\ TickPrice[t] \in Int
            BY <1>3, <5>1, PriceOfTick, CetusAssumption
          <6>5. s # TickPrice[t]
            BY <1>3, <4>1, <6>3, <6>4 DEF Onward
          <6> QED
            BY <6>1, <6>5
        <5> QED
          BY <1>14, <5>2, <5>3
      <4>3. Stuck'
        BY <1>1, <1>7, <1>9, <2>1, <4>1, <4>2, StuckNow
      <4> QED
        BY <4>3
    <3>2. CASE in # 0
      <4>1. Going
        BY <1>13, <1>14, <3>2
      <4>2. walk'.remaining = 0
        BY <1>3, <1>4, <2>1, <3>2
      <4>3. walk.amount_in + walk.fee_amount + walk.remaining = InputAmount
        BY <1>12, <4>1
      <4>4. walk'.amount_in + walk'.fee_amount = InputAmount
        BY <1>2, <1>3, <1>4, <2>1, <4>3
      <4>5. InputAmount' = InputAmount
        BY <1>1, <1>7 DEF InputAmount
      <4> QED
        BY <4>2, <4>4, <4>5 DEF Done
    <3> QED
      BY <3>1, <3>2
  <2> QED
    BY <1>6, <1>20, <2>1, <2>2
<1> QED
  BY <1>13, <1>14, <1>21, <1>22

\* A page more of the ticks, up to the last.
LEMMA PageRead ==
  ASSUME OrderTypes, FetchTicks, StateRead, TicksRead, pc' # "rejected"
  PROVE  StateRead' /\ TicksRead'
<1> DEFINE state == pools[best.pool]
           places == InitializedTicks(state)
           known == DOMAIN seen.net
           rest == {t \in places : \A u \in known : u < t}
<1>1. pc = "ticks" /\ UNCHANGED <<pools, best>>
  BY DEF FetchTicks, cetus_chain
<1>2. PICK page \in PagesOf(rest) :
        /\ page \subseteq rest
        /\ seen' = [seen EXCEPT !.net =
                      [t \in known \cup page |-> IF t \in page THEN NetAt(state, t) ELSE seen.net[t]]]
        /\ pc' = IF page = rest THEN "decimals" ELSE "ticks"
  BY PageIs
<1>3. /\ DOMAIN seen = {"sqrt_price", "tick", "liquidity", "fee", "net"}
      /\ best # None /\ ValidPool(state)
  BY <1>1 DEF OrderTypes, CetusTypes, ReadOK
<1>4. places \subseteq Int
  BY <1>3, PoolIs, CetusAssumption
<1>5. /\ known \subseteq places /\ \A t \in known : seen.net[t] = NetAt(state, t)
      /\ \A t \in known, u \in places \ known : t < u
  BY DEF TicksRead
<1>6. \A t \in page, u \in rest \ page : t < u
  BY <1>2 DEF PagesOf
<1> HIDE DEF state, places, rest, known
<1>7. /\ seen'.sqrt_price = seen.sqrt_price /\ seen'.tick = seen.tick /\ seen'.fee = seen.fee
      /\ seen'.liquidity = seen.liquidity
      /\ seen'.net = [t \in known \cup page |-> IF t \in page THEN NetAt(state, t) ELSE seen.net[t]]
  BY <1>2, <1>3
<1>8. rest = places \ known
  <2>1. \A t \in known : ~(t < t)
    BY <1>4, <1>5
  <2> QED
    BY <1>5, <2>1 DEF rest
<1>9. /\ (pools[best.pool])' = state /\ (DOMAIN seen.net)' = known \cup page
      /\ (InitializedTicks(pools[best.pool]))' = places
      /\ \A t : NetAt(pools'[best'.pool], t) = NetAt(state, t)
  BY <1>1, <1>7 DEF InitializedTicks, NetAt, places, state
<1>10. StateRead'
  BY <1>1, <1>7 DEF StateRead, LiquidityAt, state
<1>11. /\ known \cup page \subseteq places
       /\ \A t \in known \cup page : seen'.net[t] = NetAt(state, t)
       /\ \A t \in known \cup page, u \in places \ (known \cup page) : t < u
       /\ pc' # "ticks" => known \cup page = places
  BY <1>2, <1>5, <1>6, <1>7, <1>8
<1>12. TicksRead'
  BY <1>9, <1>11 DEF TicksRead, InitializedTicks, NetAt, state, places
<1> QED
  BY <1>10, <1>12

\* A walk begins at the pool's price, in the positions around its tick.
LEMMA FetchDecimalsWalks ==
  ASSUME OrderTypes, FetchDecimals, StateRead, TicksRead, pc' = "walk"
  PROVE  Walking'
<1> DEFINE state == pools[best.pool]
           places == InitializedTicks(state)
           A == {t \in places : IF a2b THEN t <= seen.tick ELSE t > seen.tick}
           L == LiquidityAt(state, state.tick)
<1>1. /\ UNCHANGED <<pools, best, request, seen>> /\ pc = "decimals" /\ InputAmount # None
      /\ walk' = [remaining |-> InputAmount, liquidity |-> seen.liquidity,
                  sqrt_price |-> seen.sqrt_price, ticks |-> DOMAIN seen.net,
                  amount_in |-> 0, amount_out |-> 0, fee_amount |-> 0, crossed |-> 0]
  BY DEF FetchDecimals, Reject, cetus_chain
<1>2. best # None /\ ValidPool(state) /\ DOMAIN seen.net = places
  BY <1>1 DEF OrderTypes, CetusTypes, ReadOK, TicksRead
<1>3. InputAmount \in 1 .. U64 - 1 /\ InputAmount \in Nat
  <2>1. InputAmount \in 1 .. U64 - 1
    BY <1>1, InputIs
  <2> QED
    BY <2>1, CetusAssumption
<1>4. /\ seen.sqrt_price = state.sqrt_price /\ seen.tick = state.tick /\ seen.fee = state.fee
      /\ seen.liquidity = L
  BY DEF StateRead
<1>5. StateRead' /\ TicksRead'
  BY <1>1, ReadStays
<1> HIDE DEF state, places, L
<1>6. /\ walk'.remaining = InputAmount /\ walk'.liquidity = L /\ walk'.sqrt_price = state.sqrt_price
      /\ walk'.ticks = places /\ walk'.amount_in = 0 /\ walk'.amount_out = 0
      /\ walk'.fee_amount = 0 /\ walk'.crossed = 0
  BY <1>1, <1>2, <1>4
<1>7. a2b' = a2b /\ InputAmount' = InputAmount
  BY <1>1 DEF a2b, InputAmount
<1>8. Ahead(walk.ticks)' = A
  BY <1>1, <1>6, <1>7 DEF Ahead
<1>9. /\ state.sqrt_price \in MIN_SQRT_PRICE .. MAX_SQRT_PRICE
      /\ state.tick \in Tick /\ state.tick + 1 \in Tick /\ state.tick \in Int
      /\ state.sqrt_price \in TickPrice[state.tick] .. TickPrice[state.tick + 1]
      /\ places \subseteq Tick /\ places \subseteq Int
      /\ L \in Nat /\ state.fee \in Nat
  <2>1. /\ state.sqrt_price \in MIN_SQRT_PRICE .. MAX_SQRT_PRICE /\ places \subseteq Tick
        /\ L \in Nat /\ state.fee \in 0 .. FEE_RATE_DENOMINATOR - 1
    BY <1>2, PoolIs DEF L, places
  <2>2. /\ state.tick \in Tick /\ state.tick + 1 \in Tick
        /\ state.sqrt_price \in TickPrice[state.tick] .. TickPrice[state.tick + 1]
    BY <1>2 DEF ValidPool
  <2>3. Tick \subseteq Int /\ FEE_RATE_DENOMINATOR \in Nat
    BY CetusAssumption
  <2>4. state.fee \in Nat
    BY <2>1, <2>3
  <2>5. state.tick \in Int /\ places \subseteq Int
    BY <2>1, <2>2, <2>3
  <2> QED
    BY <2>1, <2>2, <2>4, <2>5
<1>10. (NetsStand => \E t \in Tick : walk.liquidity <= LiquidityAt(pools[best.pool], t))'
  <2>1. L <= LiquidityAt(state, state.tick)
    BY <1>9 DEF L
  <2>2. LiquidityAt(pools[best.pool], state.tick)' = LiquidityAt(state, state.tick)
    BY <1>1 DEF LiquidityAt, state
  <2> QED
    BY <1>1, <1>6, <1>9, <2>1 DEF LiquidityAt, state
<1>11. (Onward(pools[best.pool].sqrt_price, walk.sqrt_price))'
  <2>1. MIN_SQRT_PRICE \in Int /\ MAX_SQRT_PRICE \in Int
    BY CetusAssumption
  <2>2. state.sqrt_price <= state.sqrt_price
    BY <1>9, <2>1
  <2> QED
    BY <1>1, <1>6, <2>2 DEF Onward, state
<1>12. \A t \in A : Onward(state.sqrt_price, TickPrice[t])
  <2> SUFFICES ASSUME NEW t \in A PROVE Onward(state.sqrt_price, TickPrice[t])
    OBVIOUS
  <2>1. t \in Tick /\ t \in Int /\ TickPrice[t] \in Int /\ state.sqrt_price \in Int
        /\ TickPrice[state.tick] \in Int /\ TickPrice[state.tick + 1] \in Int
    BY <1>9, PriceOfTick, CetusAssumption
  <2>2. CASE a2b
    <3>1. t <= state.tick
      BY <1>4, <2>2
    <3>2. TickPrice[t] <= TickPrice[state.tick]
      BY <1>9, <2>1, <3>1, PriceOfTick
    <3> QED
      BY <1>9, <2>1, <2>2, <3>2 DEF Onward
  <2>3. CASE ~a2b
    <3>1. state.tick + 1 <= t
      BY <1>4, <1>9, <2>1, <2>3
    <3>2. TickPrice[state.tick + 1] <= TickPrice[t]
      BY <1>9, <2>1, <3>1, PriceOfTick
    <3> QED
      BY <1>9, <2>1, <2>3, <3>2 DEF Onward
  <2> QED
    BY <2>2, <2>3
<1>13. \A t \in places \ A : Onward(TickPrice[t], state.sqrt_price)
  <2> SUFFICES ASSUME NEW t \in places \ A PROVE Onward(TickPrice[t], state.sqrt_price)
    OBVIOUS
  <2>1. t \in Tick /\ t \in Int /\ TickPrice[t] \in Int /\ state.sqrt_price \in Int
        /\ TickPrice[state.tick] \in Int /\ TickPrice[state.tick + 1] \in Int
    BY <1>9, PriceOfTick, CetusAssumption
  <2>2. CASE ~a2b
    <3>1. t <= state.tick
      BY <1>4, <1>9, <2>1, <2>2
    <3>2. TickPrice[t] <= TickPrice[state.tick]
      BY <1>9, <2>1, <3>1, PriceOfTick
    <3> QED
      BY <1>9, <2>1, <2>2, <3>2 DEF Onward
  <2>3. CASE a2b
    <3>1. state.tick + 1 <= t
      BY <1>4, <1>9, <2>1, <2>3
    <3>2. TickPrice[state.tick + 1] <= TickPrice[t]
      BY <1>9, <2>1, <3>1, PriceOfTick
    <3> QED
      BY <1>9, <2>1, <2>3, <3>2 DEF Onward
  <2> QED
    BY <2>2, <2>3
<1>14. Parted(state, A)
  BY <1>4, <1>9 DEF Parted, Onward, places
<1>15. L = SizeOf(state, InsideOf(state, A))
  <2>1. InsideOf(state, A) = {p \in state.positions : p.lo <= state.tick /\ state.tick < p.hi}
    <3>1. ASSUME NEW p \in state.positions
          PROVE  Far(p) \in A /\ Near(p) \notin A <=> p.lo <= state.tick /\ state.tick < p.hi
      <4>1. p.lo \in places /\ p.hi \in places /\ p.lo \in Int /\ p.hi \in Int
        BY <1>2, EndsAre DEF places
      <4>2. CASE a2b
        BY <1>4, <1>9, <4>1, <4>2 DEF Far, Near
      <4>3. CASE ~a2b
        BY <1>4, <1>9, <4>1, <4>3 DEF Far, Near
      <4> QED
        BY <4>2, <4>3
    <3> HIDE DEF A
    <3> QED
      BY <3>1 DEF InsideOf
  <2> QED
    BY <2>1 DEF L, LiquidityAt, SizeOf
<1> HIDE DEF A
<1>16. Going'
  <2>1. (walk.amount_in + walk.fee_amount + walk.remaining)' = InputAmount
    BY <1>3, <1>6
  <2>2. (Inside)' = InsideOf(state, A)
    BY <1>1, <1>7, <1>8 DEF Inside, InsideOf, Near, Far, state
  <2>3. (NetsStand => walk.liquidity = SumFunctionOnSet([p \in pools[best.pool].positions |-> p.size], Inside))'
    BY <1>1, <1>6, <1>15, <2>2 DEF SizeOf, state
  <2>4. (\A t \in Ahead(walk.ticks) : Onward(walk.sqrt_price, TickPrice[t]))'
    BY <1>6, <1>7, <1>8, <1>12 DEF Onward
  <2>5. (\A t \in InitializedTicks(pools[best.pool]) \ Ahead(walk.ticks) :
           Onward(TickPrice[t], walk.sqrt_price) /\ \A u \in Ahead(walk.ticks) : Onward(t, u))'
    BY <1>1, <1>6, <1>7, <1>8, <1>13, <1>14 DEF Onward, Parted, InitializedTicks, places, state
  <2> QED
    BY <1>7, <2>1, <2>3, <2>4, <2>5 DEF Going
<1>17. Traded'
  <2>1. ExactA(state, state.sqrt_price, state.sqrt_price) = 0 /\ ExactB(state, state.sqrt_price, state.sqrt_price) = 0
    BY <1>2, <1>9, StillIs
  <2>2. R \in Nat /\ Multiple \in Nat
    BY CetusAssumption
  <2>3. TradedBy(state, state.sqrt_price, 0, 0, 0)
    BY <2>1, <2>2 DEF TradedBy
  <2> QED
    BY <1>1, <1>6, <2>3, TradedNow DEF state
<1>18. (walk.fee_amount * FEE_RATE_DENOMINATOR >= (walk.amount_in + walk.fee_amount) * pools[best.pool].fee)'
  <2>1. FEE_RATE_DENOMINATOR \in Nat
    BY CetusAssumption
  <2> QED
    BY <1>1, <1>6, <1>9, <2>1 DEF state
<1>19. Walked'
  BY <1>1, <1>10, <1>11, <1>16, <1>17, <1>18 DEF Walked
<1> QED
  BY <1>5, <1>19 DEF Walking

\* A walk that nobody touches stays as true.
LEMMA WalkingStays ==
  ASSUME Walking, UNCHANGED <<pools, best, request, seen, walk>>, pc # "ticks",
         NetsAreRead /\ walk.remaining # 0 =>
           pc' = "walk" \/ (pc' = "rejected" /\ Ahead(walk.ticks) = {})
  PROVE  Walking'
<1>1. /\ a2b' = a2b /\ InputAmount' = InputAmount
      /\ Ahead(walk.ticks)' = Ahead(walk.ticks)
  BY DEF a2b, InputAmount, Ahead
<1>2. Inside' = Inside
  BY <1>1 DEF Inside, Near, Far
<1>3. (NetsAreRead)' => NetsAreRead
  BY <1>1 DEF NetsAreRead, CountsNets
<1>4. StateRead' /\ TicksRead'
  BY ReadStays DEF Walking
<1>5. ASSUME NetsAreRead PROVE Walked'
  <2>1. Walked
    BY <1>5 DEF Walking
  <2>2. Going => Going'
    BY <1>1, <1>2 DEF Going, Onward, InitializedTicks, NetsStand
  <2>3. Stuck => Stuck'
    BY <1>1 DEF Stuck, Onward, AfterFee
  <2>4. Done => Done'
    BY <1>1 DEF Done
  <2>5. Traded'
    <3>1. TradedBy(pools[best.pool], walk.sqrt_price, walk.amount_in, walk.amount_out, walk.crossed)
      BY <2>1 DEF Walked, Traded, TradedBy
    <3> QED
      BY <3>1, TradedNow
  <2>6. (/\ NetsStand => \E t \in Tick : walk.liquidity <= LiquidityAt(pools[best.pool], t)
         /\ Onward(pools[best.pool].sqrt_price, walk.sqrt_price)
         /\ walk.fee_amount * FEE_RATE_DENOMINATOR
              >= (walk.amount_in + walk.fee_amount) * pools[best.pool].fee)'
    BY <1>1, <2>1 DEF Walked, NetsStand, LiquidityAt, Onward
  <2>7. (walk.remaining # 0 => pc = "walk" \/ (pc = "rejected" /\ Ahead(walk.ticks) = {}))'
    BY <1>1, <1>5
  <2> QED
    BY <2>1, <2>2, <2>3, <2>4, <2>5, <2>6, <2>7 DEF Walked
<1> QED
  BY <1>3, <1>4, <1>5 DEF Walking

\* Before there is a walk.
LEMMA NoWalkYet ==
  ASSUME WalkIsTrue, pc \in Drafting \ {"walk"}, walk' = walk,
         pc' \notin {"ticks", "decimals", "walk"}
  PROVE  WalkIsTrue'
BY DEF WalkIsTrue, Drafting

\* And after.
LEMMA WalkedOn ==
  ASSUME WalkIsTrue, UNCHANGED <<pools, moves, best, request, seen, walk>>,
         \/ pc' = pc
         \/ pc \notin Drafting \cup {"rejected"} /\ pc' \notin Drafting
  PROVE  WalkIsTrue'
<1>1. pc' \in Drafting \ {"walk"} => walk' = None
  BY DEF WalkIsTrue, Drafting
<1>2. ASSUME moves' = 0, pc' \in {"ticks", "decimals"} PROVE StateRead' /\ TicksRead'
  <2>1. pc = pc' /\ StateRead /\ TicksRead
    BY <1>2 DEF WalkIsTrue, Drafting
  <2> QED
    BY <2>1, ReadStays
<1>3. ASSUME moves' = 0, pc' = "walk" \/ walk' # None, Fits(pools[best.pool])' PROVE Walking'
  <2>1. Fits(pools[best.pool])
    BY <1>3 DEF Fits, LiquidityAt, HasRoom
  <2>2. Walking
    BY <1>3, <2>1 DEF WalkIsTrue, Drafting
  <2>3. pc # "ticks"
    BY <1>3 DEF WalkIsTrue, Drafting
  <2>4. NetsAreRead /\ walk.remaining # 0 =>
          pc = "walk" \/ (pc = "rejected" /\ Ahead(walk.ticks) = {})
    BY <2>2 DEF Walking, Walked
  <2>5. NetsAreRead /\ walk.remaining # 0 =>
          pc' = "walk" \/ (pc' = "rejected" /\ Ahead(walk.ticks) = {})
    BY <2>4 DEF Drafting
  <2> QED
    BY <2>2, <2>3, <2>5, WalkingStays
<1> QED
  BY <1>1, <1>2, <1>3 DEF WalkIsTrue

LEMMA CetusWalks ==
  ASSUME IInv, OrderTypes, WalkIsTrue, CetusNext
  PROVE  WalkIsTrue'
<1>1. CASE ListRegistry
  BY <1>1, NoWalkYet DEF ListRegistry, Reject, Drafting
<1>2. CASE \E id \in candidates : Consider(id)
  <2>1. PICK id \in candidates : Consider(id)
    BY <1>2
  <2> QED
    BY <2>1, NoWalkYet DEF Consider, venue_vars, Drafting
<1>3. CASE Discovered
  BY <1>3, NoWalkYet DEF Discovered, Reject, cetus_vars, Drafting
<1>4. CASE FetchState
  <2> DEFINE state == pools[best.pool]
  <2>1. /\ pc = "state" /\ UNCHANGED <<cetus_chain, best, walk>>
        /\ \/ pc' = "rejected"
           \/ /\ pc' = "ticks"
              /\ seen' = [sqrt_price |-> state.sqrt_price, tick |-> state.tick,
                          liquidity |-> LiquidityAt(state, state.tick), fee |-> state.fee,
                          net |-> <<>>]
    BY <1>4 DEF FetchState, Reject
  <2>2. CASE pc' = "rejected"
    BY <2>1, <2>2, NoWalkYet DEF Drafting
  <2>3. CASE pc' = "ticks"
    <3>1. walk' = None
      BY <2>1 DEF WalkIsTrue, Drafting
    <3>2. (seen.sqrt_price)' = state.sqrt_price /\ (seen.tick)' = state.tick
          /\ (seen.liquidity)' = LiquidityAt(state, state.tick) /\ (seen.fee)' = state.fee
      BY <2>1, <2>3
    <3>3. StateRead' /\ TicksRead'
      <4>1. (seen.net)' = <<>> /\ DOMAIN (seen.net)' = {}
        BY <2>1, <2>3
      <4>2. TicksRead'
        BY <2>3, <4>1 DEF TicksRead
      <4> QED
        BY <2>1, <3>2, <4>2 DEF StateRead, LiquidityAt, cetus_chain
    <3> QED
      BY <2>3, <3>1, <3>3 DEF WalkIsTrue, Drafting
  <2> QED
    BY <2>1, <2>2, <2>3
<1>5. CASE FetchTicks
  <2>1. /\ pc = "ticks" /\ UNCHANGED <<moves, walk>>
        /\ pc' \in {"rejected", "ticks", "decimals"}
    BY <1>5 DEF FetchTicks, Reject, cetus_chain
  <2>2. CASE pc' = "rejected"
    BY <2>1, <2>2, NoWalkYet DEF Drafting
  <2>3. CASE pc' # "rejected"
    <3>1. walk' = None
      BY <2>1 DEF WalkIsTrue, Drafting
    <3>2. moves' = 0 => StateRead' /\ TicksRead'
      BY <1>5, <2>1, <2>3, PageRead DEF WalkIsTrue
    <3> QED
      BY <2>1, <2>3, <3>1, <3>2 DEF WalkIsTrue, Drafting
  <2> QED
    BY <2>2, <2>3
<1>6. CASE FetchDecimals
  <2>1. /\ pc = "decimals" /\ UNCHANGED moves
        /\ \/ pc' = "rejected" /\ walk' = walk
           \/ pc' = "walk"
    BY <1>6 DEF FetchDecimals, Reject, cetus_chain
  <2>2. CASE pc' = "rejected"
    BY <2>1, <2>2, NoWalkYet DEF Drafting
  <2>3. CASE pc' = "walk"
    <3>1. moves' = 0 => Walking'
      BY <1>6, <2>1, <2>3, FetchDecimalsWalks DEF WalkIsTrue
    <3> QED
      BY <2>3, <3>1 DEF WalkIsTrue, Drafting
  <2> QED
    BY <2>1, <2>2, <2>3
<1>7. CASE CetusQuoteFails
  BY <1>7, NoWalkYet DEF CetusQuoteFails, Reject, cetus_vars, Drafting
<1>8. CASE WalkTick
  <2>1. /\ pc = "walk" /\ UNCHANGED <<pools, moves, best, seen>> /\ pc' \in {"walk", "rejected"}
    BY <1>8 DEF WalkTick, Reject, cetus_chain
  <2>2. ASSUME moves' = 0, Fits(pools[best.pool])' PROVE Walking'
    <3>1. Fits(pools[best.pool])
      BY <2>1, <2>2 DEF Fits, LiquidityAt, HasRoom
    <3>2. Walking
      BY <2>1, <2>2, <3>1 DEF WalkIsTrue
    <3>3. CASE NetsAreRead'
      <4>1. Walked /\ NetsStand
        BY <1>8, <3>2, <3>3, NetsStood DEF Walking
      <4> QED
        BY <1>8, <3>1, <3>2, <4>1, WalkTickWalks
    <3>4. CASE ~NetsAreRead'
      <4>1. StateRead' /\ TicksRead'
        BY <2>1, <3>2, ReadStays DEF Walking
      <4> QED
        BY <3>4, <4>1 DEF Walking
    <3> QED
      BY <3>3, <3>4
  <2> QED
    BY <2>1, <2>2 DEF WalkIsTrue, Drafting
<1>9. CASE WalkEnd
  <2>1. /\ pc = "walk" /\ UNCHANGED <<pools, moves, best, seen, walk, request>>
        /\ walk.remaining = 0 \/ Ahead(walk.ticks) = {}
        /\ pc' \in {"rejected", "drafted"} /\ (walk.remaining # 0 => pc' = "rejected")
    BY <1>9 DEF WalkEnd, Reject, cetus_vars, cetus_chain
  <2>2. ASSUME moves' = 0, Fits(pools[best.pool])' PROVE Walking'
    <3>1. Fits(pools[best.pool])
      BY <2>1, <2>2 DEF Fits, LiquidityAt, HasRoom
    <3>2. Walking
      BY <2>1, <2>2, <3>1 DEF WalkIsTrue
    <3> QED
      BY <2>1, <3>2, WalkingStays
  <2> QED
    BY <2>1, <2>2 DEF WalkIsTrue, Drafting
<1>10. CASE CetusBuild
  BY <1>10, WalkedOn DEF CetusBuild, cetus_vars, cetus_chain, Drafting
<1>11. CASE CetusFund
  BY <1>11, WalkedOn DEF CetusFund, cetus_vars, cetus_chain, Drafting
<1> QED
  BY <1>1, <1>2, <1>3, <1>4, <1>5, <1>6, <1>7, <1>8, <1>9, <1>10, <1>11 DEF CetusNext

LEMMA NextWalks ==
  ASSUME IInv, OrderTypes, WalkIsTrue, [Next]_vars
  PROVE  WalkIsTrue'
<1>1. CASE (Load({strategy} \ {None}) \/ VenueNext) /\ UNCHANGED cetus_vars
  <2>1. CASE Load({strategy} \ {None})
    BY <1>1, <2>1, NoWalkYet DEF Load, cetus_vars, Drafting
  <2>2. CASE PlaceOrder
    BY <1>1, <2>2, NoWalkYet DEF PlaceOrder, cetus_vars, Drafting
  <2>3. CASE StoreOrder
    BY <1>1, <2>3, WalkedOn DEF StoreOrder, cetus_vars, cetus_chain, Drafting
  <2> QED
    BY <1>1, <2>1, <2>2, <2>3 DEF VenueNext
<1>2. CASE CetusNext
  BY <1>2, CetusWalks
<1>3. CASE CetusMoves /\ UNCHANGED venue_vars
  <2>1. moves' = moves + 1 /\ UNCHANGED <<walk, pc>>
    BY <1>3 DEF CetusMoves, MovePool, SpendCoin, venue_vars
  <2>2. moves' # 0
    BY <2>1, CetusAssumption DEF OrderTypes, CetusTypes
  <2> QED
    BY <2>1, <2>2 DEF WalkIsTrue
<1>4. CASE UniswapNext /\ UNCHANGED cetus_vars
  <2>1. CASE AskChains
    BY <1>4, <2>1, NoWalkYet DEF AskChains, Reject, cetus_vars, Drafting
  <2>2. CASE AskChain
    BY <1>4, <2>2, NoWalkYet DEF AskChain, venue_vars, cetus_vars, Drafting
  <2>3. CASE ChooseBest
    BY <1>4, <2>3, NoWalkYet DEF ChooseBest, Reject, cetus_vars, Drafting
  <2>4. CASE Steps
    BY <1>4, <2>4, WalkedOn DEF Steps, cetus_vars, cetus_chain, Drafting
  <2>5. CASE Build
    BY <1>4, <2>5, WalkedOn DEF Build, cetus_vars, cetus_chain, Drafting
  <2>6. CASE Sign
    BY <1>4, <2>6, WalkedOn DEF Sign, cetus_vars, cetus_chain, Drafting
  <2>7. CASE Land
    BY <1>4, <2>7, WalkedOn DEF Land, cetus_vars, cetus_chain, Drafting
  <2> QED
    BY <1>4, <2>1, <2>2, <2>3, <2>4, <2>5, <2>6, <2>7 DEF UniswapNext
<1>5. CASE UNCHANGED <<venue_vars, cetus_vars>>
  BY <1>5, WalkedOn DEF venue_vars, cetus_vars, cetus_chain
<1> QED
  BY <1>1, <1>2, <1>3, <1>4, <1>5 DEF Next, vars

LEMMA WalkBegins == Init => WalkIsTrue
BY DEF Init, VenueInit, CetusInit, WalkIsTrue

(* As long as nobody moved, what was read is the pool, and the walk through it is
   where it says: past the ticks that it crossed and no other, with the liquidity of
   the positions it is inside of, or stuck with a remainder that is all fee, or done.
   This is the inductive invariant behind the two theorems that follow. *)
THEOREM WalksAreTrue == Spec => [](OrderTypes /\ WalkIsTrue)
<1> DEFINE J == IInv /\ OrderTypes /\ WalkIsTrue
<1>1. Init => J
  BY InitHolds, TypesBegin, WalkBegins
<1>2. J /\ [Next]_vars => J'
  BY NextKeeps, NextTypes, NextWalks
<1>3. J => OrderTypes /\ WalkIsTrue
  OBVIOUS
<1> QED
  BY <1>1, <1>2, <1>3, PTL DEF Spec

LEMMA WalkedTypes ==
  ASSUME OrderTypes, walk # None
  PROVE  /\ walk.remaining \in Nat /\ walk.amount_in \in Nat /\ walk.fee_amount \in Nat
BY CetusAssumption DEF OrderTypes, CetusTypes, WalkType

(* A quote of a pool that did not move is what the pool's contract would trade: what
   goes in pays for the way between the two prices, what comes out is no more than
   the positions hold there and less by no more than one unit a crossed tick, and of
   an amount that is used up the fee is no less than the pool's rate: for any
   positions, prices and amounts that the arithmetic has room for. *)
THEOREM QuotesAreThePools == Spec => []QuoteIsThePools
<1>1. OrderTypes /\ WalkIsTrue => QuoteIsThePools
  <2> SUFFICES ASSUME OrderTypes, WalkIsTrue, moves = 0, walk # None, Fits(pools[best.pool]), NetsAreRead
               PROVE  /\ Traded
                      /\ walk.remaining = 0 =>
                           /\ walk.amount_in + walk.fee_amount = InputAmount
                           /\ walk.fee_amount * FEE_RATE_DENOMINATOR >= InputAmount * pools[best.pool].fee
    BY DEF QuoteIsThePools
  <2>1. Walked
    BY DEF WalkIsTrue, Walking
  <2>2. ASSUME walk.remaining = 0
        PROVE  walk.amount_in + walk.fee_amount = InputAmount
    <3>1. Going \/ Done
      BY <2>1, <2>2 DEF Walked, Stuck
    <3> QED
      BY <2>2, <3>1, WalkedTypes DEF Going, Done
  <2> QED
    BY <2>1, <2>2 DEF Walked
<1> QED
  BY <1>1, WalksAreTrue, PTL

(* A quote that is refused for want of liquidity, of a pool that did not move, was
   refused because the walk came to the end of all the pool's positions, unless what
   is left of the amount is all fee. *)
THEOREM RefusalsAreTrue == Spec => []RefusalIsTrue
<1>1. OrderTypes /\ WalkIsTrue => RefusalIsTrue
  <2> SUFFICES ASSUME OrderTypes, WalkIsTrue, moves = 0, pc = "rejected", walk # None,
                      walk.remaining # 0, Fits(pools[best.pool]), NetsAreRead,
                      ~(AfterFee(walk.remaining, seen.fee) = 0),
                      NEW p \in pools[best.pool].positions
               PROVE  IF a2b THEN walk.sqrt_price <= TickPrice[p.lo] ELSE TickPrice[p.hi] <= walk.sqrt_price
    BY DEF RefusalIsTrue
  <2>1. Walked
    BY DEF WalkIsTrue, Walking
  <2>2. Going /\ Ahead(walk.ticks) = {}
    BY <2>1 DEF Walked, Stuck, Done
  <2>3. p.lo \in InitializedTicks(pools[best.pool]) /\ p.hi \in InitializedTicks(pools[best.pool])
    BY DEF InitializedTicks
  <2> QED
    BY <2>2, <2>3 DEF Going, Onward
<1> QED
  BY <1>1, WalksAreTrue, PTL
==============================================================================
