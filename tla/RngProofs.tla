----------------------------- MODULE RngProofs -----------------------------
(***************************************************************************)
(* The generator: MultModM multiplies without overflow, and                *)
(* rng_gen_reverse_val takes a draw back.  First facts of arithmetic, then *)
(* MultModM, then induction over the loops that the generator is built     *)
(* with (the least counterexample of a property of their indices), then    *)
(* the seeds and the draws.                                                *)
(***************************************************************************)
EXTENDS Rng, WellFoundedInduction, TLAPS

\* Products keep an order.
LEMMA Times ==
  ASSUME NEW a \in Int, NEW b \in Int, NEW c \in Nat, a <= b
  PROVE  c * a <= c * b /\ a * c <= b * c
  OBVIOUS

\* Quotient and remainder, as C's / and % give them for what is not negative.
LEMMA DivMod ==
  ASSUME NEW a \in Int, NEW d \in Nat \ {0}
  PROVE  a \div d \in Int /\ a % d \in 0 .. d - 1 /\ a = d * (a \div d) + (a % d)
  OBVIOUS

\* There is one quotient with a remainder below the divisor.
LEMMA ModUnique ==
  ASSUME NEW a \in Int, NEW d \in Nat \ {0}, NEW q \in Int, NEW r \in 0 .. d - 1, a = d * q + r
  PROVE  a % d = r /\ a \div d = q
<1> DEFINE p == a \div d
           s == a % d
<1>1. p \in Int /\ s \in 0 .. d - 1 /\ a = d * p + s
  BY DivMod
<1> HIDE DEF p, s
<1>2. CASE p < q
  <2>1. d * (p + 1) <= d * q
    BY <1>1, <1>2, Times
  <2>2. d * (p + 1) = d * p + d
    BY <1>1
  <2> QED BY <1>1, <2>1, <2>2
<1>3. CASE q < p
  <2>1. d * (q + 1) <= d * p
    BY <1>1, <1>3, Times
  <2>2. d * (q + 1) = d * q + d
    BY <1>1
  <2> QED BY <1>1, <2>1, <2>2
<1>4. CASE p = q
  BY <1>1, <1>4 DEF p, s
<1> QED BY <1>1, <1>2, <1>3, <1>4

\* A multiple of the divisor does not count.
LEMMA ModShift ==
  ASSUME NEW a \in Int, NEW k \in Int, NEW d \in Nat \ {0}
  PROVE  (a + d * k) % d = a % d
<1> DEFINE p == a \div d
           s == a % d
<1>1. p \in Int /\ s \in 0 .. d - 1 /\ a = d * p + s
  BY DivMod
<1> HIDE DEF p, s
<1> DEFINE b == a + d * k
<1>2. p + k \in Int /\ b \in Int /\ b = d * (p + k) + s
  BY <1>1
<1> HIDE DEF b
<1>3. b % d = s
  BY <1>1, <1>2, ModUnique
<1> QED BY <1>3 DEF b, s

\* The remainder of a product is that of the product of the remainders.
LEMMA ModTimes ==
  ASSUME NEW a \in Int, NEW b \in Int, NEW d \in Nat \ {0}
  PROVE  (a * (b % d)) % d = (a * b) % d
<1> DEFINE p == b \div d
           s == b % d
<1>1. p \in Int /\ s \in 0 .. d - 1 /\ b = d * p + s
  BY DivMod
<1> HIDE DEF p, s
<1>2. a * b = a * s + d * (a * p) /\ a * s \in Int /\ a * p \in Int /\ a * b \in Int
  BY <1>1
<1>3. (a * b) % d = (a * s) % d
  <2> DEFINE x == a * s
             y == a * p
             z == a * b
  <2>1. x \in Int /\ y \in Int /\ z \in Int /\ z = x + d * y
    BY <1>2
  <2> HIDE DEF x, y, z
  <2>2. (x + d * y) % d = x % d
    BY <2>1, ModShift, Zenon
  <2> QED BY <2>1, <2>2 DEF x, z
<1> QED BY <1>3 DEF s

\* Nor does it in a sum.
LEMMA ModPlus ==
  ASSUME NEW a \in Int, NEW b \in Int, NEW d \in Nat \ {0}
  PROVE  (a + (b % d)) % d = (a + b) % d
<1> DEFINE p == b \div d
           s == b % d
           x == a + s
           z == a + b
<1>1. p \in Int /\ s \in 0 .. d - 1 /\ b = d * p + s
  BY DivMod
<1> HIDE DEF p, s
<1>2. x \in Int /\ z \in Int /\ z = x + d * p
  BY <1>1
<1> HIDE DEF x, z
<1>3. (x + d * p) % d = x % d
  BY <1>1, <1>2, ModShift, Zenon
<1> QED BY <1>2, <1>3 DEF x, z, s

-----------------------------------------------------------------------------
\* Assigning a number that an int32_t can hold changes nothing.
LEMMA Int32Holds ==
  ASSUME NEW x \in Int, -2 * (H * H) <= x, x < 2 * (H * H)
  PROVE  Int32(x) = x
<1> DEFINE D == H * H
<1>1. D \in Nat \ {0}
  BY RngAssumption
<1>2. 2 * H * H = 2 * D /\ 4 * H * H = 4 * D
  BY RngAssumption
<1> HIDE DEF D
<1>3. x + 2 * D \in 0 .. 4 * D - 1 /\ 4 * D \in Nat \ {0} /\ x + 2 * D = (4 * D) * 0 + (x + 2 * D)
  BY <1>1 DEF D
<1>4. (x + 2 * D) % (4 * D) = x + 2 * D
  BY <1>3, ModUnique
<1> QED BY <1>1, <1>2, <1>4 DEF Int32

\* The loop "while (R < 0) R += M" of MultModM reduces R modulo M.
LEMMA NonNegIs ==
  ASSUME NEW m \in Nat \ {0}, NEW R \in Int, R < m
  PROVE  NonNeg(R, m) = R % m
<1>1. CASE R < 0
  BY <1>1 DEF NonNeg
<1>2. CASE R \in 0 .. m - 1
  <2>1. R = m * 0 + R
    OBVIOUS
  <2>2. R % m = R
    BY <1>2, <2>1, ModUnique
  <2> QED BY <1>2, <2>2 DEF NonNeg
<1> QED BY <1>1, <1>2

\* A modulus that rand-clcg4.c may use.
Modulus(m) == m \in Nat /\ H < m /\ m < 2 * (H * H)

\* How large the quotient by m \div S can get, for S up to H.
LEMMA Quotients ==
  ASSUME NEW m, Modulus(m), NEW S \in 1 .. H, NEW t \in 0 .. m - 1,
         NEW q, q = m \div S, NEW k, k = t \div q
  PROVE  /\ q \in Nat \ {0} /\ k \in Nat
         /\ t - k * q \in 0 .. q - 1
         /\ m - S * q \in 0 .. S - 1
         /\ k * (m - S * q) <= 2 * (H * H)
         /\ S * (t - k * q) \in 0 .. m - 1
<1>1. H \in Nat \ {0} /\ S \in Nat \ {0} /\ m \in Nat /\ S < m
  BY RngAssumption DEF Modulus
<1> DEFINE r == m % S
<1>2. q \in Int /\ r \in 0 .. S - 1 /\ m = S * q + r
  BY <1>1, DivMod
<1> HIDE DEF r
<1>3. q \in Nat \ {0}
  <2>1. CASE q <= 0
    <3>1. S * q <= S * 0
      BY <1>1, <1>2, <2>1, Times
    <3> QED BY <1>1, <1>2, <3>1
  <2> QED BY <1>2, <2>1
<1> DEFINE y == t % q
<1>4. k \in Int /\ y \in 0 .. q - 1 /\ t = q * k + y
  <2>1. t \in Int
    BY <1>1
  <2>2. t \div q \in Int /\ t % q \in 0 .. q - 1 /\ t = q * (t \div q) + (t % q)
    BY <1>3, <2>1, DivMod, Zenon
  <2> QED BY <2>2
<1> HIDE DEF y
<1>5. k \in Nat
  <2>1. CASE k <= -1
    <3>1. q * k <= q * (-1)
      BY <1>3, <1>4, <2>1, Times
    <3> QED BY <1>3, <1>4, <3>1
  <2> QED BY <1>4, <2>1
<1>6. t - k * q = y /\ m - S * q = r
  BY <1>2, <1>3, <1>4, <1>5
<1>7. k <= 2 * S
  <2>1. CASE 2 * S + 1 <= k
    <3>1. q * (2 * S + 1) <= q * k
      BY <1>1, <1>3, <1>5, <2>1, Times
    <3>2. q * (2 * S + 1) = 2 * (S * q) + q
      BY <1>1, <1>3
    <3>3. S * 1 <= S * q
      BY <1>1, <1>3, Times
    <3>4. S * q \in Nat /\ q * k \in Nat
      BY <1>1, <1>3, <1>5
    <3> QED BY <1>1, <1>2, <1>3, <1>4, <3>1, <3>2, <3>3, <3>4
  <2> QED BY <1>1, <1>5, <2>1
<1>8. k * r <= 2 * (H * H)
  <2>1. k * r <= k * H
    BY <1>1, <1>2, <1>5, Times
  <2>2. k * H <= (2 * H) * H
    BY <1>1, <1>5, <1>7, Times
  <2>3. (2 * H) * H = 2 * (H * H)
    BY <1>1
  <2>4. k * r \in Int /\ k * H \in Int /\ H * H \in Int
    BY <1>1, <1>2, <1>5
  <2> QED BY <2>1, <2>2, <2>3, <2>4
<1>9. S * y \in 0 .. m - 1
  <2>1. S * y <= S * (q - 1) /\ S * 0 <= S * y
    BY <1>1, <1>3, <1>4, Times
  <2>2. S * (q - 1) = S * q - S /\ S * q \in Int /\ S * y \in Int
    BY <1>1, <1>3, <1>4
  <2> QED BY <1>1, <1>2, <2>1, <2>2
<1> QED BY <1>2, <1>3, <1>4, <1>5, <1>6, <1>8, <1>9

\* H * x modulo m without overflow.
LEMMA ShiftIs ==
  ASSUME NEW m, Modulus(m), NEW x \in 0 .. m - 1
  PROVE  Shift(x, m) = (H * x) % m /\ (H * x) % m \in 0 .. m - 1
<1> DEFINE q == m \div H
           k == x \div q
           u == H * (x - k * q)
           w == k * (m - H * q)
           v == u - w
<1>1. H \in Nat \ {0} /\ m \in Nat \ {0} /\ H \in 1 .. H /\ x \in Int
  BY RngAssumption DEF Modulus
<1>2. /\ q \in Nat \ {0} /\ k \in Nat /\ m - H * q \in 0 .. H - 1
      /\ w <= 2 * (H * H) /\ u \in 0 .. m - 1
  BY <1>1, Quotients
<1> HIDE DEF q, k
<1>3. v = H * x + m * (-k) /\ u \in Int /\ w \in Nat /\ H * x \in Int /\ -k \in Int /\ v \in Int
  BY <1>1, <1>2
<1>4. Shift(x, m) = NonNeg(Int32(v), m)
  BY DEF Shift, q, k
<1> HIDE DEF u, w, v
<1>5. -2 * (H * H) <= v /\ v < m
  BY <1>1, <1>2, <1>3 DEF v
<1>6. Int32(v) = v
  BY <1>1, <1>3, <1>5, Int32Holds DEF Modulus
<1>7. Shift(x, m) = v % m
  BY <1>1, <1>3, <1>4, <1>5, <1>6, NonNegIs
<1>8. (H * x + m * (-k)) % m = (H * x) % m
  BY <1>1, <1>3, ModShift, Zenon
<1>9. (H * x) % m \in 0 .. m - 1
  BY <1>1, <1>3, DivMod, Zenon
<1> QED BY <1>3, <1>7, <1>8, <1>9

\* R + S * t modulo m without overflow.
LEMMA AddMulIs ==
  ASSUME NEW m, Modulus(m), NEW R \in 0 .. m - 1, NEW S \in 1 .. H, NEW t \in 0 .. m - 1
  PROVE  AddMul(R, S, t, m) = (R + S * t) % m /\ (R + S * t) % m \in 0 .. m - 1
<1> DEFINE q == m \div S
           k == t \div q
           u == S * (t - k * q)
           w == k * (m - S * q)
           R1 == R - w
           R2 == IF R1 > 0 THEN R1 - m ELSE R1
           v == R2 + u
<1>1. H \in Nat \ {0} /\ m \in Nat \ {0} /\ S \in Nat /\ t \in Int /\ R \in Int
  BY RngAssumption DEF Modulus
<1>2. /\ q \in Nat \ {0} /\ k \in Nat /\ m - S * q \in 0 .. S - 1
      /\ w <= 2 * (H * H) /\ u \in 0 .. m - 1
  BY Quotients
<1> HIDE DEF q, k
<1>3. u - w = S * t + m * (-k) /\ u \in Int /\ w \in Nat /\ S * t \in Int /\ H * H \in Int
  BY <1>1, <1>2
<1>4. AddMul(R, S, t, m) =
        LET A1 == Int32(R - w)
            A2 == IF A1 > 0 THEN A1 - m ELSE A1
        IN  NonNeg(Int32(A2 + u), m)
  BY DEF AddMul, q, k
<1> HIDE DEF u, w
<1>5. R1 \in Int /\ -2 * (H * H) <= R1 /\ R1 < m /\ R1 < 2 * (H * H)
  BY <1>1, <1>2, <1>3 DEF Modulus
<1>6. Int32(R1) = R1
  BY <1>5, Int32Holds
<1>7. R2 \in Int /\ R2 <= 0 /\ -2 * (H * H) <= R2
  BY <1>1, <1>3, <1>5 DEF Modulus
<1>8. v \in Int /\ -2 * (H * H) <= v /\ v < m
  BY <1>1, <1>2, <1>3, <1>7
<1>9. AddMul(R, S, t, m) = NonNeg(Int32(v), m)
  BY <1>4, <1>6
<1>10. \E n \in Int : v = (R + S * t) + m * n
  <2>1. CASE R1 > 0
    <3>1. v = (R + S * t) + m * (-k - 1) /\ -k - 1 \in Int
      BY <1>1, <1>2, <1>3, <2>1
    <3> QED BY <3>1
  <2>2. CASE ~(R1 > 0)
    <3>1. v = (R + S * t) + m * (-k) /\ -k \in Int
      BY <1>1, <1>2, <1>3, <2>2
    <3> QED BY <3>1
  <2> QED BY <2>1, <2>2
<1> HIDE DEF v
<1>11. Int32(v) = v
  BY <1>1, <1>3, <1>8, Int32Holds DEF Modulus
<1>12. AddMul(R, S, t, m) = v % m
  BY <1>1, <1>8, <1>9, <1>11, NonNegIs
<1>13. PICK n \in Int : v = (R + S * t) + m * n
  BY <1>10
<1>14. R + S * t \in Int
  BY <1>1, <1>3
<1>15. ((R + S * t) + m * n) % m = (R + S * t) % m
  BY <1>1, <1>14, ModShift, Zenon
<1>16. (R + S * t) % m \in 0 .. m - 1
  BY <1>1, <1>14, DivMod, Zenon
<1> QED BY <1>12, <1>13, <1>15, <1>16

\* What is below the modulus is reduced.
LEMMA ModSmall ==
  ASSUME NEW m \in Nat \ {0}, NEW r \in 0 .. m - 1
  PROVE  r % m = r
<1>1. r = m * 0 + r /\ r \in Int
  OBVIOUS
<1> QED BY <1>1, ModUnique

\* The product for factors that are not negative.
ProductOf(s, t, m) ==
  LET S1 == s \div H
      R1 == IF S1 >= H THEN Shift(t, m) ELSE 0
      S2 == IF S1 >= H THEN S1 - H ELSE S1
      R2 == IF S2 = 0 THEN R1 ELSE AddMul(R1, S2, t, m)
      R3 == IF s < H THEN 0 ELSE Shift(R2, m)
  IN  IF s % H = 0 THEN R3 ELSE AddMul(R3, s % H, t, m)

\* Schrage's decomposition in MultModM computes a product modulo m.
LEMMA ProductIs ==
  ASSUME NEW m, Modulus(m), NEW s \in 0 .. m - 1, NEW t \in 0 .. m - 1
  PROVE  ProductOf(s, t, m) = (s * t) % m /\ ProductOf(s, t, m) \in 0 .. m - 1
<1> DEFINE S1 == s \div H
           R1 == IF S1 >= H THEN Shift(t, m) ELSE 0
           S2 == IF S1 >= H THEN S1 - H ELSE S1
           R2 == IF S2 = 0 THEN R1 ELSE AddMul(R1, S2, t, m)
           R3 == IF s < H THEN 0 ELSE Shift(R2, m)
           P  == IF s % H = 0 THEN R3 ELSE AddMul(R3, s % H, t, m)
<1>a. ProductOf(s, t, m) = P
  BY DEF ProductOf
<1>b. S1 = s \div H
  OBVIOUS
<1> HIDE DEF S1
<1>c. R1 = IF S1 >= H THEN Shift(t, m) ELSE 0
  OBVIOUS
<1>d. S2 = IF S1 >= H THEN S1 - H ELSE S1
  OBVIOUS
<1> HIDE DEF R1, S2
<1>e. R2 = IF S2 = 0 THEN R1 ELSE AddMul(R1, S2, t, m)
  OBVIOUS
<1> HIDE DEF R2
<1>f. R3 = IF s < H THEN 0 ELSE Shift(R2, m)
  OBVIOUS
<1> HIDE DEF R3
<1>g. P = IF s % H = 0 THEN R3 ELSE AddMul(R3, s % H, t, m)
  OBVIOUS
<1> HIDE DEF P
<1> DEFINE S0 == s % H
<1>1. H \in Nat \ {0} /\ m \in Nat \ {0} /\ s \in Int /\ t \in Int
  BY RngAssumption DEF Modulus
<1>2. S1 \in Int /\ S0 \in 0 .. H - 1 /\ s = H * S1 + S0
  BY <1>1, <1>b, DivMod
<1> HIDE DEF S0
<1>3. S1 \in Nat /\ S1 < 2 * H
  <2>1. CASE S1 <= -1
    <3>1. H * S1 <= H * (-1)
      BY <1>1, <1>2, <2>1, Times
    <3> QED BY <1>1, <1>2, <3>1
  <2>2. CASE 2 * H <= S1
    <3>1. H * (2 * H) <= H * S1
      BY <1>1, <1>2, <2>2, Times
    <3>2. H * (2 * H) = 2 * (H * H) /\ H * S1 \in Int /\ H * H \in Int
      BY <1>1, <1>2
    <3> QED BY <1>1, <1>2, <3>1, <3>2 DEF Modulus
  <2> QED BY <1>1, <1>2, <2>1, <2>2
<1>4. 0 % m = 0 /\ 0 \in 0 .. m - 1
  BY <1>1, ModSmall
<1>5. S2 \in 0 .. H - 1 /\ R1 \in 0 .. m - 1 /\ (R1 + S2 * t) % m = (S1 * t) % m
  <2>1. CASE S1 >= H
    <3>1. S2 = S1 - H /\ R1 = (H * t) % m /\ R1 \in 0 .. m - 1
      BY <1>c, <1>d, <2>1, ShiftIs
    <3>2. S2 * t \in Int /\ H * t \in Int /\ S2 * t + H * t = S1 * t
      BY <1>1, <1>3, <3>1
    <3>3. (S2 * t + ((H * t) % m)) % m = (S2 * t + H * t) % m
      BY <1>1, <3>2, ModPlus, Zenon
    <3>4. R1 + S2 * t = S2 * t + R1
      BY <1>1, <3>1, <3>2
    <3> QED BY <1>1, <1>3, <2>1, <3>1, <3>2, <3>3, <3>4
  <2>2. CASE ~(S1 >= H)
    <3>1. R1 + S2 * t = S1 * t
      BY <1>c, <1>d, <1>1, <1>3, <2>2
    <3> QED BY <1>c, <1>d, <1>1, <1>3, <1>4, <2>2, <3>1
  <2> QED BY <2>1, <2>2
<1>6. R2 = (S1 * t) % m /\ R2 \in 0 .. m - 1
  <2>1. CASE S2 = 0
    <3>1. R1 + S2 * t = R1 /\ R2 = R1
      BY <1>e, <1>1, <1>5, <2>1
    <3>2. R1 % m = R1
      BY <1>1, <1>5, ModSmall
    <3> QED BY <1>5, <3>1, <3>2
  <2>2. CASE S2 # 0
    <3>1. S2 \in 1 .. H /\ R2 = AddMul(R1, S2, t, m)
      BY <1>e, <1>1, <1>5, <2>2
    <3>2. AddMul(R1, S2, t, m) = (R1 + S2 * t) % m /\ (R1 + S2 * t) % m \in 0 .. m - 1
      BY <1>5, <3>1, AddMulIs, Zenon
    <3> QED BY <1>5, <3>1, <3>2
  <2> QED BY <2>1, <2>2
<1>7. S1 * t \in Int /\ H * (S1 * t) \in Int /\ H * R2 \in Int /\ S0 * t \in Int
  BY <1>1, <1>2, <1>3, <1>6
<1>8. R3 = (H * (S1 * t)) % m /\ R3 \in 0 .. m - 1
  <2>1. CASE s < H
    <3>1. S1 = 0
      <4>1. CASE 1 <= S1
        <5>1. H * 1 <= H * S1
          BY <1>1, <1>3, <4>1, Times
        <5> QED BY <1>1, <1>2, <2>1, <5>1
      <4> QED BY <1>3, <4>1
    <3>2. H * (S1 * t) = 0
      BY <1>1, <3>1
    <3> QED BY <1>f, <1>4, <2>1, <3>2
  <2>2. CASE ~(s < H)
    <3>1. R3 = (H * R2) % m /\ R3 \in 0 .. m - 1
      BY <1>f, <1>6, <2>2, ShiftIs
    <3>2. (H * ((S1 * t) % m)) % m = (H * (S1 * t)) % m
      <4>1. H \in Int
        BY <1>1
      <4> QED BY <1>1, <1>7, <4>1, ModTimes, Zenon
    <3> QED BY <1>6, <3>1, <3>2
  <2> QED BY <2>1, <2>2
<1>9. (S0 * t + R3) % m = (s * t) % m
  <2>1. (S0 * t + ((H * (S1 * t)) % m)) % m = (S0 * t + H * (S1 * t)) % m
    BY <1>1, <1>7, ModPlus, ZenonT(30)
  <2>2. S0 * t + H * (S1 * t) = s * t
    <3>1. (H * S1 + S0) * t = H * (S1 * t) + S0 * t
      BY <1>1, <1>2, <1>3
    <3>2. H * (S1 * t) + S0 * t = S0 * t + H * (S1 * t)
      BY <1>7
    <3> QED BY <1>2, <3>1, <3>2
  <2> QED BY <1>8, <2>1, <2>2
<1>10. CASE S0 = 0
  <2>1. S0 * t + R3 = R3 /\ P = R3
    BY <1>g, <1>1, <1>8, <1>10 DEF S0
  <2>2. R3 % m = R3
    BY <1>1, <1>8, ModSmall
  <2> QED BY <1>a, <1>8, <1>9, <2>1, <2>2
<1>11. CASE S0 # 0
  <2>1. S0 \in 1 .. H /\ P = AddMul(R3, S0, t, m)
    BY <1>g, <1>1, <1>2, <1>11 DEF S0
  <2>2. P = (R3 + S0 * t) % m /\ P \in 0 .. m - 1
    <3>1. AddMul(R3, S0, t, m) = (R3 + S0 * t) % m /\ (R3 + S0 * t) % m \in 0 .. m - 1
      BY <1>8, <2>1, AddMulIs, Zenon
    <3> QED BY <2>1, <3>1
  <2>3. R3 + S0 * t = S0 * t + R3
    BY <1>1, <1>7, <1>8
  <2> QED BY <1>a, <1>9, <2>2, <2>3
<1> QED BY <1>10, <1>11

\* MultModM computes the product modulo M of any two factors below M, and no
\* assignment in it overflows 32 bit integers: for every modulus the code's
\* comment admits, not only those of CLCG4.
THEOREM ProductsFit ==
  ASSUME NEW m, Modulus(m), NEW x \in 1 - m .. m - 1, NEW y \in 1 - m .. m - 1
  PROVE  MultModM(x, y, m) = (x * y) % m
<1> DEFINE s == IF x < 0 THEN x + m ELSE x
           t == IF y < 0 THEN y + m ELSE y
<1>1. m \in Nat \ {0} /\ s \in 0 .. m - 1 /\ t \in 0 .. m - 1 /\ s \in Int /\ t \in Int
  BY RngAssumption DEF Modulus
<1>2. s % m = x % m /\ t % m = y % m
  <2>0. x \in Int /\ y \in Int /\ 1 \in Int
    BY <1>1
  <2>1. (x + m * 1) % m = x % m /\ (y + m * 1) % m = y % m
    BY <1>1, <2>0, ModShift, Zenon
  <2>2. x + m * 1 = x + m /\ y + m * 1 = y + m
    BY <1>1
  <2> QED BY <2>1, <2>2
<1>3. MultModM(x, y, m) = ProductOf(s, t, m)
  BY DEF MultModM, ProductOf
<1> HIDE DEF s, t
<1>4. MultModM(x, y, m) = (s * t) % m
  BY <1>1, <1>3, ProductIs
<1>5. x \in Int /\ y \in Int /\ s * y = y * s /\ x * y = y * x
  BY <1>1
<1>6. (s * (y % m)) % m = (s * y) % m /\ (s * (t % m)) % m = (s * t) % m
      /\ (y * (x % m)) % m = (y * x) % m /\ (y * (s % m)) % m = (y * s) % m
  BY <1>1, <1>5, ModTimes
<1> QED BY <1>2, <1>4, <1>5, <1>6

-----------------------------------------------------------------------------
\* The states of a stream: below its modulus in each component.
Stream == [count : Int, Ig : [J -> Int], Cg : [J -> Int]]
\* A generator whose component j is below the modulus m[j], as rng_init_generator leaves it.
Valid(g) == g \in Stream /\ \A j \in J : g.Cg[j] \in 0 .. M[j] - 1

\* The parameters of a component.
LEMMA Parameters ==
  ASSUME NEW j \in J
  PROVE  A[j] \in Nat \ {0} /\ M[j] \in Nat \ {0} /\ Modulus(M[j]) /\ 1 < A[j] /\ A[j] < M[j]
         /\ M[j] % A[j] < M[j] \div A[j]
<1>1. H \in Nat \ {0} /\ 1 < A[j] /\ A[j] < M[j] /\ H < M[j] /\ M[j] < 2 * H * H
      /\ M[j] % A[j] < M[j] \div A[j]
  BY RngAssumption DEF J
<1>3. A[j] \in Nat /\ M[j] \in Nat
  BY RngAssumption DEF J
<1>2. 2 * H * H = 2 * (H * H) /\ H * H \in Int
  BY <1>1
<1> QED BY <1>1, <1>2, <1>3 DEF Modulus

\* One component of rng_gen_val.
Gen(s, j) ==
  LET q == M[j] \div A[j]
      k == s \div q
      x == Int32(A[j] * (s - k * q) - k * (M[j] % A[j]))
  IN  IF x < 0 THEN x + M[j] ELSE x

\* A draw multiplies each component, without overflow.
LEMMA GenIs ==
  ASSUME NEW j \in J, NEW s \in 0 .. M[j] - 1
  PROVE  Gen(s, j) = (A[j] * s) % M[j] /\ Gen(s, j) \in 0 .. M[j] - 1
<1> DEFINE a == A[j]
           m == M[j]
           q == m \div a
           r == m % a
           k == s \div q
           y == s % q
           v == a * (s - k * q) - k * r
<1>1. a \in Nat \ {0} /\ m \in Nat \ {0} /\ Modulus(m) /\ 1 < a /\ a < m /\ r < q /\ s \in Int /\ m \in Int
  BY Parameters
<1>2. H \in Nat \ {0}
  BY RngAssumption
<1>3. Gen(s, j) = LET x == Int32(v) IN IF x < 0 THEN x + m ELSE x
  BY DEF Gen
<1> HIDE DEF a, m
<1>4. q \in Int /\ r \in 0 .. a - 1 /\ m = a * q + r
  BY <1>1, DivMod, Zenon
<1> HIDE DEF q, r
<1>5. q \in Nat \ {0} /\ q \in Int
  BY <1>1, <1>4
<1>6. k \in Int /\ y \in 0 .. q - 1 /\ s = q * k + y
  BY <1>1, <1>5, DivMod, Zenon
<1> HIDE DEF k, y
<1>7. k \in Nat
  <2>1. CASE k <= -1
    <3>1. q * k <= q * (-1)
      BY <1>5, <1>6, <2>1, Times
    <3>2. s \in 0 .. m - 1
      BY DEF m
    <3> QED BY <1>1, <1>5, <1>6, <3>1, <3>2
  <2> QED BY <1>6, <2>1
<1>8. s - k * q = y
  BY <1>5, <1>6, <1>7
<1>9. a * y \in Int /\ k * r \in Nat /\ a * q \in Int /\ q * k \in Int
  BY <1>1, <1>4, <1>5, <1>6, <1>7
<1>10. a * y \in 0 .. m - 1
  <2>1. a * y <= a * (q - 1) /\ a * 0 <= a * y
    BY <1>1, <1>5, <1>6, Times
  <2>2. a * (q - 1) = a * q - a
    BY <1>1, <1>5
  <2> QED BY <1>1, <1>4, <1>9, <2>1, <2>2
<1>11. k * r < m
  <2>1. k * r <= k * q
    BY <1>1, <1>4, <1>5, <1>7, Times
  <2>2. k * q = q * k /\ s < m
    BY <1>1, <1>5, <1>7 DEF m
  <2> QED BY <1>1, <1>6, <1>9, <2>1, <2>2
<1>12. v = a * y - k * r
  BY <1>8
<1>13. v \in Int /\ -m < v /\ v < m
  BY <1>1, <1>9, <1>10, <1>11, <1>12
<1>14. v = a * s + m * (-k)
  <2>1. a * s = a * (q * k) + a * y
    BY <1>1, <1>5, <1>6, <1>7
  <2>2. m * (-k) = -(a * (q * k)) - k * r
    BY <1>1, <1>4, <1>5, <1>7
  <2>3. a * (q * k) \in Int
    BY <1>1, <1>9
  <2> QED BY <1>9, <1>12, <2>1, <2>2, <2>3
<1> HIDE DEF v
<1>15. Int32(v) = v
  <2>1. H * H \in Int /\ m < 2 * (H * H)
    BY <1>1, <1>2 DEF Modulus
  <2> QED BY <1>1, <1>13, <2>1, Int32Holds
<1>16. v % m = (a * s) % m
  <2>1. a * s \in Int /\ -k \in Int
    BY <1>1, <1>7
  <2>2. (a * s + m * (-k)) % m = (a * s) % m
    BY <1>1, <2>1, ModShift, Zenon
  <2> QED BY <1>14, <2>2
<1>17. CASE v < 0
  <2>1. v + m \in 0 .. m - 1 /\ v = m * (-1) + (v + m) /\ -1 \in Int
    BY <1>1, <1>13, <1>17
  <2>2. v % m = v + m
    BY <1>1, <1>13, <2>1, ModUnique, Zenon
  <2> QED BY <1>3, <1>15, <1>16, <1>17, <2>1, <2>2 DEF a, m
<1>18. CASE ~(v < 0)
  <2>1. v \in 0 .. m - 1
    BY <1>1, <1>13, <1>18
  <2>2. v % m = v
    BY <1>1, <2>1, ModSmall
  <2> QED BY <1>3, <1>15, <1>16, <1>18, <2>1, <2>2 DEF a, m
<1> QED BY <1>17, <1>18

\* b undoes the multiplication by a.
LEMMA MultBack ==
  ASSUME NEW m \in Nat \ {0}, NEW a \in Int, NEW b \in Int, (a * b) % m = 1 % m, NEW s \in 0 .. m - 1
  PROVE  (b * ((a * s) % m)) % m = s
<1>1. a * s \in Int /\ a * b \in Int /\ s \in Int /\ 1 \in Int
  OBVIOUS
<1>2. (b * ((a * s) % m)) % m = (b * (a * s)) % m
  BY <1>1, ModTimes, Zenon
<1>3. b * (a * s) = s * (a * b)
  OBVIOUS
<1>4. (s * ((a * b) % m)) % m = (s * (a * b)) % m
  BY <1>1, ModTimes, Zenon
<1>5. (s * (1 % m)) % m = (s * 1) % m
  BY <1>1, ModTimes, Zenon
<1>6. s * 1 = s
  OBVIOUS
<1>7. s % m = s
  BY ModSmall
<1> QED BY <1>2, <1>3, <1>4, <1>5, <1>6, <1>7

-----------------------------------------------------------------------------
\* Least elements, for inductions over the loops of rng_init and rng_init_generator.
LEMMA NatMin ==
  ASSUME NEW T \in SUBSET Nat, T # {}
  PROVE  \E x \in T : \A y \in T : x <= y
<1> DEFINE R == OpToRel(<, Nat)
<1>1. PICK x \in T : \A y \in T : <<y, x>> \notin R
  <2> HIDE DEF R
  <2> QED BY WFMin, NatLessThanWellFounded DEF R
<1>2. \A y \in T : ~(y < x)
  BY <1>1 DEF OpToRel
<1> QED BY <1>2

\* Induction over the indices b to N of a loop.
LEMMA UpTo ==
  ASSUME NEW N \in Int, NEW b \in Int, NEW T, b \in T, \A i \in b .. N - 1 : i \in T => i + 1 \in T
  PROVE  \A i \in b .. N : i \in T
<1>1. SUFFICES ASSUME NEW i \in b .. N, i \notin T PROVE FALSE
  OBVIOUS
<1> DEFINE S == {k \in Nat : b + k <= N /\ b + k \notin T}
<1>2. S # {} /\ S \in SUBSET Nat
  <2>1. i - b \in Nat /\ b + (i - b) = i
    OBVIOUS
  <2>2. i - b \in S
    BY <1>1, <2>1
  <2> QED BY <2>2
<1>3. PICK k \in S : \A n \in S : k <= n
  BY <1>2, NatMin, Zenon
<1>4. k # 0 /\ k \in Nat
  BY <1>3
<1>5. k - 1 \in Nat /\ k - 1 \notin S
  BY <1>3, <1>4
<1>6. b + (k - 1) \in b .. N - 1 /\ b + (k - 1) \in T /\ (b + (k - 1)) + 1 = b + k
  BY <1>3, <1>4, <1>5
<1> QED BY <1>3, <1>6

\* f is the function on b .. N into S that starts with a and goes on as G says.
Goes(f, b, N, S, a, G) ==
  f \in [b .. N -> S] /\ f[b] = a /\ \A n \in b + 1 .. N : f[n] = G[<<n, f[n - 1]>>]

\* A loop from b to N, as a recursive function: it has a value at each index.
LEMMA Recursion ==
  ASSUME NEW b \in Int, NEW N \in Int, b <= N, NEW S, NEW a \in S, NEW G \in [(b + 1 .. N) \X S -> S]
  PROVE  \E f : Goes(f, b, N, S, a, G)
<1> DEFINE Good(k, f) == f \in [b .. k -> S] /\ f[b] = a /\ \A n \in b + 1 .. k : f[n] = G[<<n, f[n - 1]>>]
           T == {k \in b .. N : \E f : Good(k, f)}
<1>1. b \in T
  <2>1. Good(b, [n \in b .. b |-> a])
    OBVIOUS
  <2> QED BY <2>1
<1>2. ASSUME NEW i \in b .. N - 1, i \in T
      PROVE  i + 1 \in T
  <2>1. PICK f : Good(i, f)
    BY <1>2
  <2> DEFINE g == [n \in b .. i + 1 |-> IF n = i + 1 THEN G[<<i + 1, f[i]>>] ELSE f[n]]
  <2>2. f[i] \in S /\ i + 1 \in b + 1 .. N
    BY <2>1
  <2>3. G[<<i + 1, f[i]>>] \in S
    BY <2>2
  <2>4. g \in [b .. i + 1 -> S] /\ g[b] = a
    BY <2>1, <2>3
  <2>5. \A n \in b + 1 .. i + 1 : g[n] = G[<<n, g[n - 1]>>]
    <3>1. TAKE n \in b + 1 .. i + 1
    <3>2. CASE n = i + 1
      <4>1. n - 1 = i /\ i \in b .. i + 1 /\ i # i + 1 /\ i + 1 \in b .. i + 1
        BY <3>2
      <4> QED BY <3>2, <4>1
    <3>3. CASE n # i + 1
      <4>1. n \in b + 1 .. i /\ n - 1 \in b .. i + 1 /\ n - 1 # i + 1 /\ n \in b .. i + 1
        BY <3>3
      <4> QED BY <2>1, <3>3, <4>1
    <3> QED BY <3>2, <3>3
  <2>6. Good(i + 1, g)
    BY <2>4, <2>5
  <2> HIDE DEF g, Good
  <2> QED BY <2>2, <2>6
<1>3. N \in T
  <2> HIDE DEF T
  <2>1. \A i \in b .. N : i \in T
    BY <1>1, <1>2, UpTo
  <2> QED BY <2>1
<1> QED BY <1>3 DEF Goes

\* f and g are functions on b .. N that start alike and go on alike.
Alike(f, g, b, N) ==
  /\ f = [n \in b .. N |-> f[n]] /\ g = [n \in b .. N |-> g[n]] /\ f[b] = g[b]
  /\ \A n \in b + 1 .. N : f[n - 1] = g[n - 1] => f[n] = g[n]

\* Such functions are the same.
LEMMA SameRecursion ==
  ASSUME NEW b \in Int, NEW N \in Int, b <= N, NEW f, NEW g, Alike(f, g, b, N)
  PROVE  f = g
<1> DEFINE T == {k \in b .. N : f[k] = g[k]}
<1>1. b \in T
  BY DEF Alike
<1>2. ASSUME NEW i \in b .. N - 1, i \in T
      PROVE  i + 1 \in T
  <2>1. i + 1 \in b + 1 .. N /\ (i + 1) - 1 = i /\ f[i] = g[i] /\ i + 1 \in b .. N
    BY <1>2
  <2> QED BY <2>1 DEF Alike
<1>3. \A k \in b .. N : k \in T
  <2> HIDE DEF T
  <2> QED BY <1>1, <1>2, UpTo
<1>4. [n \in b .. N |-> f[n]] = [n \in b .. N |-> g[n]]
  BY <1>3
<1> QED BY <1>4 DEF Alike

\* MultModM stays below its modulus.
LEMMA ProductIn ==
  ASSUME NEW m, Modulus(m), NEW x \in 0 .. m - 1, NEW y \in 0 .. m - 1
  PROVE  MultModM(x, y, m) \in 0 .. m - 1
<1>1. m \in Nat \ {0} /\ x \in 1 - m .. m - 1 /\ y \in 1 - m .. m - 1 /\ x * y \in Int
  BY RngAssumption DEF Modulus
<1>2. MultModM(x, y, m) = (x * y) % m
  BY <1>1, ProductsFit
<1> QED BY <1>1, <1>2, DivMod

\* So do the squarings of rng_init.
LEMMA SquaredIs ==
  ASSUME NEW m, Modulus(m), NEW x \in 0 .. m - 1, NEW n \in Nat
  PROVE  Squared(x, n, m) \in 0 .. m - 1
<1> DEFINE sq[i \in 0 .. n] == IF i = 0 THEN x ELSE LET y == sq[i - 1] IN MultModM(y, y, m)
<1>1. Squared(x, n, m) = sq[n]
  BY DEF Squared
<1> DEFINE S == 0 .. m - 1
           G == [p \in (0 + 1 .. n) \X S |-> MultModM(p[2], p[2], m)]
<1>2. G \in [(0 + 1 .. n) \X S -> S]
  <2>1. ASSUME NEW p \in (0 + 1 .. n) \X S
        PROVE  MultModM(p[2], p[2], m) \in S
    BY ProductIn
  <2> QED BY <2>1
<1>n. 0 \in Int /\ n \in Int /\ 0 <= n /\ x \in S
  OBVIOUS
<1>3. PICK f : Goes(f, 0, n, S, x, G)
  <2> HIDE DEF S, G
  <2> QED BY <1>n, <1>2, Recursion, Zenon
<1>4. f \in [0 .. n -> S] /\ f = [i \in 0 .. n |-> IF i = 0 THEN x ELSE LET y == f[i - 1] IN MultModM(y, y, m)]
  <2>1. ASSUME NEW i \in 0 .. n PROVE f[i] = IF i = 0 THEN x ELSE MultModM(f[i - 1], f[i - 1], m)
    <3>1. CASE i # 0
      <4>1. i \in 0 + 1 .. n /\ i - 1 \in 0 .. n /\ f[i - 1] \in S
        BY <1>3, <3>1 DEF Goes
      <4> QED BY <1>3, <3>1, <4>1 DEF Goes
    <3> QED BY <1>3, <3>1 DEF Goes
  <2> QED BY <1>3, <2>1 DEF Goes
<1>5. sq = [i \in 0 .. n |-> IF i = 0 THEN x ELSE LET y == sq[i - 1] IN MultModM(y, y, m)]
  BY <1>4
<1> HIDE DEF sq
<1>6. sq = f
  <2>1. Alike(sq, f, 0, n)
    BY <1>4, <1>5 DEF Alike
  <2> QED BY <1>n, <2>1, SameRecursion, Zenon
<1> QED BY <1>1, <1>4, <1>6

\* The factors of rng_init are below the modulus.
LEMMA FactorsIn ==
  ASSUME NEW j \in J
  PROVE  aw[j] \in 0 .. M[j] - 1 /\ avw[j] \in 0 .. M[j] - 1
<1>1. Modulus(M[j]) /\ A[j] \in 0 .. M[j] - 1 /\ W \in Nat /\ V \in Nat
  BY Parameters, RngAssumption
<1>2. Squared(A[j], W, M[j]) \in 0 .. M[j] - 1
  BY <1>1, SquaredIs
<1>3. aw[j] \in 0 .. M[j] - 1
  BY <1>2 DEF aw
<1>4. Squared(aw[j], V, M[j]) \in 0 .. M[j] - 1
  BY <1>1, <1>3, SquaredIs
<1> QED BY <1>3, <1>4 DEF avw

\* The squares that FindB starts with.
LEMMA SquaresIn ==
  ASSUME NEW a \in Nat, NEW m \in Nat \ {0}, NEW n \in Nat, NEW sq,
         sq = CHOOSE f : f = [i \in 0 .. n |-> IF i = 0 THEN a ELSE (f[i - 1] * f[i - 1]) % m]
  PROVE  sq \in [0 .. n -> Nat]
<1> DEFINE G == [p \in (0 + 1 .. n) \X Nat |-> (p[2] * p[2]) % m]
<1>1. G \in [(0 + 1 .. n) \X Nat -> Nat]
  <2>1. ASSUME NEW p \in (0 + 1 .. n) \X Nat
        PROVE  (p[2] * p[2]) % m \in Nat
    <3>1. p[2] * p[2] \in Int
      OBVIOUS
    <3>2. (p[2] * p[2]) % m \in 0 .. m - 1
      BY <3>1, DivMod, Zenon
    <3> QED BY <3>2
  <2> QED BY <2>1
<1>n. 0 \in Int /\ n \in Int /\ 0 <= n
  OBVIOUS
<1>2. PICK f : Goes(f, 0, n, Nat, a, G)
  <2> HIDE DEF G
  <2> QED BY <1>n, <1>1, Recursion, Zenon
<1>3. f \in [0 .. n -> Nat] /\ f = [i \in 0 .. n |-> IF i = 0 THEN a ELSE (f[i - 1] * f[i - 1]) % m]
  <2>1. ASSUME NEW i \in 0 .. n PROVE f[i] = IF i = 0 THEN a ELSE (f[i - 1] * f[i - 1]) % m
    <3>1. CASE i # 0
      <4>1. i \in 0 + 1 .. n /\ i - 1 \in 0 .. n /\ f[i - 1] \in Nat
        BY <1>2, <3>1 DEF Goes
      <4> QED BY <1>2, <3>1, <4>1 DEF Goes
    <3> QED BY <1>2, <3>1 DEF Goes
  <2> QED BY <1>2, <2>1 DEF Goes
<1>4. sq = [i \in 0 .. n |-> IF i = 0 THEN a ELSE (sq[i - 1] * sq[i - 1]) % m]
  BY <1>3
<1>5. Alike(sq, f, 0, n)
  <2>1. sq = [i \in 0 .. n |-> sq[i]] /\ f = [i \in 0 .. n |-> f[i]] /\ sq[0] = f[0]
    <3>1. sq = [i \in 0 .. n |-> sq[i]]
      BY <1>4
    <3>2. f = [i \in 0 .. n |-> f[i]]
      BY <1>3
    <3>3. 0 \in 0 .. n
      OBVIOUS
    <3>4. sq[0] = a
      BY <1>4, <3>3
    <3>5. f[0] = a
      BY <1>3, <3>3
    <3> QED BY <3>1, <3>2, <3>4, <3>5
  <2>2. ASSUME NEW i \in 0 + 1 .. n, sq[i - 1] = f[i - 1]
        PROVE  sq[i] = f[i]
    <3>1. i \in 0 .. n /\ i # 0
      OBVIOUS
    <3>2. sq[i] = (sq[i - 1] * sq[i - 1]) % m
      BY <1>4, <3>1
    <3>3. f[i] = (f[i - 1] * f[i - 1]) % m
      BY <1>3, <3>1
    <3> QED BY <2>2, <3>2, <3>3
  <2> QED BY <2>1, <2>2 DEF Alike
<1>6. sq = f
  BY <1>n, <1>5, SameRecursion, Zenon
<1> QED BY <1>3, <1>6

\* What FindB returns is a number.
LEMMA InverseIn ==
  ASSUME NEW a \in Nat, NEW k, NEW m \in Nat \ {0}
  PROVE  FindB(a, k, m) \in Nat
<1> DEFINE sqrs[i \in 0 .. IntBits - 1] == IF i = 0 THEN a ELSE (sqrs[i - 1] * sqrs[i - 1]) % m
           b[i \in 0 .. IntBits] == IF i = 0 THEN 1
                                    ELSE IF Bit(k, i - 1) = 0 THEN b[i - 1] % m
                                    ELSE (b[i - 1] * sqrs[i - 1]) % m
           n == IntBits
<1>1. FindB(a, k, m) = b[n]
  BY DEF FindB
<1>n. 0 \in Int /\ n \in Int /\ n \in Nat /\ 0 <= n /\ n - 1 \in Nat
  BY RngAssumption
<1>2. sqrs \in [0 .. n - 1 -> Nat]
  BY <1>n, SquaresIn
<1> DEFINE G == [p \in (0 + 1 .. n) \X Nat |-> IF Bit(k, p[1] - 1) = 0 THEN p[2] % m
                                              ELSE (p[2] * sqrs[p[1] - 1]) % m]
<1>3. G \in [(0 + 1 .. n) \X Nat -> Nat]
  <2> HIDE DEF sqrs, n
  <2>1. ASSUME NEW p \in (0 + 1 .. n) \X Nat
        PROVE  p[2] % m \in Nat /\ (p[2] * sqrs[p[1] - 1]) % m \in Nat
    <3>1. p[1] - 1 \in 0 .. n - 1 /\ p[2] \in Int
      BY <1>n
    <3>2. sqrs[p[1] - 1] \in Nat
      BY <1>2, <3>1
    <3>3. p[2] * sqrs[p[1] - 1] \in Int
      BY <3>1, <3>2
    <3>4. p[2] % m \in 0 .. m - 1 /\ (p[2] * sqrs[p[1] - 1]) % m \in 0 .. m - 1
      BY <3>1, <3>3, DivMod, Zenon
    <3> QED BY <3>4
  <2> QED BY <2>1
<1> HIDE DEF sqrs
<1>4. PICK f : Goes(f, 0, n, Nat, 1, G)
  <2> HIDE DEF G, n
  <2>1. 1 \in Nat
    OBVIOUS
  <2> QED BY <1>n, <1>3, <2>1, Recursion, Zenon
<1>5. /\ f \in [0 .. n -> Nat]
      /\ f = [i \in 0 .. n |-> IF i = 0 THEN 1 ELSE IF Bit(k, i - 1) = 0 THEN f[i - 1] % m
                               ELSE (f[i - 1] * sqrs[i - 1]) % m]
  <2>1. ASSUME NEW i \in 0 .. n
        PROVE  f[i] = IF i = 0 THEN 1 ELSE IF Bit(k, i - 1) = 0 THEN f[i - 1] % m
                      ELSE (f[i - 1] * sqrs[i - 1]) % m
    <3>1. CASE i # 0
      <4>1. i \in 0 + 1 .. n /\ i - 1 \in 0 .. n /\ f[i - 1] \in Nat
        BY <1>n, <1>4, <3>1 DEF Goes
      <4>2. f[i] = G[<<i, f[i - 1]>>]
        BY <1>4, <4>1 DEF Goes
      <4> QED BY <3>1, <4>1, <4>2
    <3> QED BY <1>4, <3>1 DEF Goes
  <2> QED BY <1>4, <2>1 DEF Goes
<1>6. b = [i \in 0 .. n |-> IF i = 0 THEN 1 ELSE IF Bit(k, i - 1) = 0 THEN b[i - 1] % m
                            ELSE (b[i - 1] * sqrs[i - 1]) % m]
  BY <1>5
<1> HIDE DEF b, G, n
<1>7. b = f
  <2>1. b = [i \in 0 .. n |-> b[i]] /\ f = [i \in 0 .. n |-> f[i]] /\ b[0] = f[0]
    BY <1>n, <1>5, <1>6
  <2>2. ASSUME NEW i \in 0 + 1 .. n, b[i - 1] = f[i - 1]
        PROVE  b[i] = f[i]
    <3>1. i \in 0 .. n /\ i # 0
      BY <1>n
    <3>2. b[i] = IF Bit(k, i - 1) = 0 THEN b[i - 1] % m ELSE (b[i - 1] * sqrs[i - 1]) % m
      BY <1>6, <3>1
    <3>3. f[i] = IF Bit(k, i - 1) = 0 THEN f[i - 1] % m ELSE (f[i - 1] * sqrs[i - 1]) % m
      BY <1>5, <3>1
    <3> QED BY <2>2, <3>2, <3>3
  <2>3. Alike(b, f, 0, n)
    BY <2>1, <2>2 DEF Alike
  <2> QED BY <1>n, <2>3, SameRecursion, Zenon
<1> QED BY <1>n, <1>1, <1>5, <1>7

\* A stream starts below its moduli.
LEMMA SeedIn ==
  ASSUME NEW id, NEW seed, \A j \in J : seed[j] \in 0 .. M[j] - 1
  PROVE  Valid(tw_rand_initial_seed(id, seed))
<1> DEFINE f(j) == CHOOSE h : h = [n \in 0 .. IdBits - 1 |->
                     IF n = 0 THEN seed[j]
                     ELSE IF Bit(id, IdBits - n) = 0 THEN h[n - 1]
                     ELSE MultModM(Squared(avw[j], IdBits - n, M[j]), h[n - 1], M[j])]
           ig(j) == IF id % 2 = 1 THEN MultModM(avw[j], f(j)[IdBits - 1], M[j]) ELSE f(j)[IdBits - 1]
           N == IdBits - 1
<1>n. 0 \in Int /\ N \in Int /\ N \in Nat /\ 0 <= N /\ IdBits \in Nat
  BY RngAssumption
<1>1. ASSUME NEW j \in J
      PROVE  ig(j) \in 0 .. M[j] - 1
  <2> DEFINE S == 0 .. M[j] - 1
             a == seed[j]
             h == f(j)
             G == [p \in (0 + 1 .. N) \X S |->
                     IF Bit(id, IdBits - p[1]) = 0 THEN p[2]
                     ELSE MultModM(Squared(avw[j], IdBits - p[1], M[j]), p[2], M[j])]
  <2>1. Modulus(M[j]) /\ avw[j] \in S /\ a \in S
    BY Parameters, FactorsIn
  <2>2. G \in [(0 + 1 .. N) \X S -> S]
    <3>1. ASSUME NEW p \in (0 + 1 .. N) \X S
          PROVE  MultModM(Squared(avw[j], IdBits - p[1], M[j]), p[2], M[j]) \in S
      <4>1. IdBits - p[1] \in Nat /\ p[2] \in S
        BY <1>n
      <4>2. Squared(avw[j], IdBits - p[1], M[j]) \in S
        BY <2>1, <4>1, SquaredIs
      <4> QED BY <2>1, <4>1, <4>2, ProductIn
    <3> QED BY <3>1
  <2>3. PICK g : Goes(g, 0, N, S, a, G)
    <3> HIDE DEF S, G, N, a
    <3> QED BY <1>n, <2>1, <2>2, Recursion, Zenon
  <2>4. /\ g \in [0 .. N -> S]
        /\ g = [n \in 0 .. N |-> IF n = 0 THEN a
                ELSE IF Bit(id, IdBits - n) = 0 THEN g[n - 1]
                ELSE MultModM(Squared(avw[j], IdBits - n, M[j]), g[n - 1], M[j])]
    <3>1. ASSUME NEW n \in 0 .. N
          PROVE  g[n] = IF n = 0 THEN a
                        ELSE IF Bit(id, IdBits - n) = 0 THEN g[n - 1]
                        ELSE MultModM(Squared(avw[j], IdBits - n, M[j]), g[n - 1], M[j])
      <4>1. CASE n # 0
        <5>1. n \in 0 + 1 .. N /\ n - 1 \in 0 .. N /\ g[n - 1] \in S
          BY <1>n, <2>3, <4>1 DEF Goes
        <5>2. g[n] = G[<<n, g[n - 1]>>]
          BY <2>3, <5>1 DEF Goes
        <5> QED BY <4>1, <5>1, <5>2
      <4> QED BY <2>3, <4>1 DEF Goes
    <3> QED BY <2>3, <3>1 DEF Goes
  <2>5. h = [n \in 0 .. N |-> IF n = 0 THEN a
             ELSE IF Bit(id, IdBits - n) = 0 THEN h[n - 1]
             ELSE MultModM(Squared(avw[j], IdBits - n, M[j]), h[n - 1], M[j])]
    BY <2>4
  <2>6. ig(j) = IF id % 2 = 1 THEN MultModM(avw[j], h[N], M[j]) ELSE h[N]
    OBVIOUS
  <2> HIDE DEF f, ig, h, G, a, N
  <2>7. h = g
    <3>1. h = [n \in 0 .. N |-> h[n]] /\ g = [n \in 0 .. N |-> g[n]]
      BY <2>4, <2>5
    <3>2. 0 \in 0 .. N
      BY <1>n
    <3>3. h[0] = a
      BY <2>5, <3>2
    <3>4. g[0] = a
      BY <2>4, <3>2
    <3>5. ASSUME NEW n \in 0 + 1 .. N, h[n - 1] = g[n - 1]
          PROVE  h[n] = g[n]
      <4>1. n \in 0 .. N /\ n # 0
        BY <1>n
      <4>2. h[n] = IF Bit(id, IdBits - n) = 0 THEN h[n - 1]
                   ELSE MultModM(Squared(avw[j], IdBits - n, M[j]), h[n - 1], M[j])
        BY <2>5, <4>1
      <4>3. g[n] = IF Bit(id, IdBits - n) = 0 THEN g[n - 1]
                   ELSE MultModM(Squared(avw[j], IdBits - n, M[j]), g[n - 1], M[j])
        BY <2>4, <4>1
      <4> QED BY <3>5, <4>2, <4>3
    <3>6. Alike(h, g, 0, N)
      BY <3>1, <3>3, <3>4, <3>5 DEF Alike
    <3> QED BY <1>n, <3>6, SameRecursion, Zenon
  <2>8. h[N] \in S
    BY <1>n, <2>4, <2>7
  <2> QED BY <2>1, <2>6, <2>8, ProductIn
<1> DEFINE Ig == clamp_seed([j \in J |-> ig(j)])
<1>2. tw_rand_initial_seed(id, seed) = [count |-> 0, Ig |-> Ig, Cg |-> Ig]
  BY DEF tw_rand_initial_seed
<1> HIDE DEF ig
<1>3. ASSUME NEW j \in J
      PROVE  Ig[j] \in 0 .. M[j] - 1 /\ Ig[j] \in Int
  <2>1. ig(j) \in 0 .. M[j] - 1 /\ M[j] \in Nat /\ 1 < M[j]
    BY <1>1, Parameters
  <2> QED BY <2>1 DEF clamp_seed
<1>4. Ig \in [J -> Int]
  BY <1>3 DEF clamp_seed
<1> QED BY <1>2, <1>3, <1>4 DEF Valid, Stream

-----------------------------------------------------------------------------
\* And the seeds that clamp_seed lets through.
LEMMA ClampIn ==
  ASSUME NEW seed, \A j \in J : seed[j] \in Int
  PROVE  \A j \in J : clamp_seed(seed)[j] \in 0 .. M[j] - 1
<1>1. ASSUME NEW j \in J
      PROVE  clamp_seed(seed)[j] \in 0 .. M[j] - 1
  <2>1. M[j] \in Nat /\ 1 < M[j] /\ seed[j] \in Int
    BY Parameters
  <2> QED BY <2>1 DEF clamp_seed
<1> QED BY <1>1

\* A draw.
LEMMA Draw ==
  ASSUME NEW g, Valid(g)
  PROVE  /\ Valid(rng_gen_val(g))
         /\ rng_gen_val(g) = [count |-> g.count + 1, Ig |-> g.Ig,
                              Cg |-> [j \in J |-> (A[j] * g.Cg[j]) % M[j]]]
<1>1. rng_gen_val(g) = [g EXCEPT !.count = g.count + 1, !.Cg = [j \in J |-> Gen(g.Cg[j], j)]]
  BY DEF rng_gen_val, Gen
<1>2. g \in Stream /\ \A j \in J : g.Cg[j] \in 0 .. M[j] - 1
  BY DEF Valid
<1>3. [j \in J |-> Gen(g.Cg[j], j)] = [j \in J |-> (A[j] * g.Cg[j]) % M[j]]
  BY <1>2, GenIs
<1>4. \A j \in J : Gen(g.Cg[j], j) \in 0 .. M[j] - 1
  BY <1>2, GenIs
<1>5. rng_gen_val(g) = [count |-> g.count + 1, Ig |-> g.Ig, Cg |-> [j \in J |-> Gen(g.Cg[j], j)]]
  BY <1>1, <1>2 DEF Stream
<1>6. \A j \in J : 0 .. M[j] - 1 \subseteq Int
  BY Parameters
<1>7. [j \in J |-> Gen(g.Cg[j], j)] \in [J -> Int]
  BY <1>4, <1>6
<1>8. Valid(rng_gen_val(g))
  BY <1>2, <1>4, <1>5, <1>7 DEF Valid, Stream
<1> QED BY <1>3, <1>5, <1>8

\* rng_gen_reverse_val takes a draw of rng_gen_val back, to the last bit and with the
\* count: what every rollback of the optimistic scheduler rests on.
THEOREM DrawTakenBack ==
  ASSUME NEW g, Valid(g)
  PROVE  rng_gen_reverse_val(rng_gen_val(g)) = g
<1>1. rng_gen_val(g) = [count |-> g.count + 1, Ig |-> g.Ig,
                        Cg |-> [j \in J |-> (A[j] * g.Cg[j]) % M[j]]]
  BY Draw
<1>2. g \in Stream /\ \A j \in J : g.Cg[j] \in 0 .. M[j] - 1
  BY DEF Valid
<1>3. ASSUME NEW j \in J
      PROVE  (B[j] * ((A[j] * g.Cg[j]) % M[j])) % M[j] = g.Cg[j]
  <2>1. M[j] \in Nat \ {0} /\ A[j] \in Nat /\ 1 < M[j]
    BY Parameters
  <2>2. B[j] = FindB(A[j], M[j] - 2, M[j])
    BY DEF B
  <2>3. B[j] \in Int /\ A[j] \in Int
    BY <2>1, <2>2, InverseIn
  <2>4. (A[j] * B[j]) % M[j] = 1 % M[j]
    <3>1. 1 \in 0 .. M[j] - 1
      BY <2>1
    <3>2. 1 % M[j] = 1
      BY <2>1, <3>1, ModSmall
    <3> QED BY <3>2, InverseAssumption
  <2> QED BY <1>2, <2>1, <2>3, <2>4, MultBack
<1>4. rng_gen_reverse_val(rng_gen_val(g)) =
        [count |-> (g.count + 1) - 1, Ig |-> g.Ig,
         Cg |-> [j \in J |-> (B[j] * ((A[j] * g.Cg[j]) % M[j])) % M[j]]]
  <2> DEFINE n == rng_gen_val(g)
             d(j) == (A[j] * g.Cg[j]) % M[j]
  <2>1. rng_gen_reverse_val(n) = [n EXCEPT !.count = n.count - 1, !.Cg = [j \in J |-> (B[j] * n.Cg[j]) % M[j]]]
    BY DEF rng_gen_reverse_val
  <2>2. n = [count |-> g.count + 1, Ig |-> g.Ig, Cg |-> [j \in J |-> d(j)]]
    BY <1>1
  <2> HIDE DEF n, d
  <2>3. n.count = g.count + 1 /\ \A j \in J : n.Cg[j] = d(j)
    BY <2>2
  <2>4. [j \in J |-> (B[j] * n.Cg[j]) % M[j]] = [j \in J |-> (B[j] * d(j)) % M[j]]
    BY <2>3
  <2> DEFINE c == [j \in J |-> (B[j] * d(j)) % M[j]]
  <2>5. rng_gen_reverse_val(n) = [n EXCEPT !.count = (g.count + 1) - 1, !.Cg = c]
    BY <2>1, <2>3, <2>4
  <2> HIDE DEF c
  <2>6. rng_gen_reverse_val(n) = [count |-> (g.count + 1) - 1, Ig |-> g.Ig, Cg |-> c]
    BY <2>2, <2>5
  <2> QED BY <2>6 DEF c, d, n
<1>5. [j \in J |-> (B[j] * ((A[j] * g.Cg[j]) % M[j])) % M[j]] = [j \in J |-> g.Cg[j]]
  BY <1>3
<1>6. [j \in J |-> g.Cg[j]] = g.Cg /\ (g.count + 1) - 1 = g.count
  BY <1>2 DEF Stream
<1>7. g = [count |-> g.count, Ig |-> g.Ig, Cg |-> g.Cg]
  BY <1>2 DEF Stream
<1> QED BY <1>4, <1>5, <1>6, <1>7

\* One or two draws taken back.
LEMMA TakeBackOne ==
  ASSUME NEW g
  PROVE  TakenBack(g, 1) = rng_gen_reverse_val(g)
<1> DEFINE f[i \in 0 .. 1] == IF i = 0 THEN g ELSE rng_gen_reverse_val(f[i - 1])
           h == [i \in 0 .. 1 |-> IF i = 0 THEN g ELSE rng_gen_reverse_val(g)]
<1>1. h = [i \in 0 .. 1 |-> IF i = 0 THEN g ELSE rng_gen_reverse_val(h[i - 1])]
  OBVIOUS
<1>2. f = [i \in 0 .. 1 |-> IF i = 0 THEN g ELSE rng_gen_reverse_val(f[i - 1])]
  <2> HIDE DEF h
  <2> QED BY <1>1
<1>3. TakenBack(g, 1) = f[1]
  BY DEF TakenBack
<1> HIDE DEF f
<1>4. f[0] = g /\ f[1] = rng_gen_reverse_val(f[0])
  BY <1>2
<1> QED BY <1>3, <1>4

\* tw_rand_reverse_unif twice.
LEMMA TakeBackTwo ==
  ASSUME NEW g
  PROVE  TakenBack(g, 2) = rng_gen_reverse_val(rng_gen_reverse_val(g))
<1> DEFINE f[i \in 0 .. 2] == IF i = 0 THEN g ELSE rng_gen_reverse_val(f[i - 1])
           h == [i \in 0 .. 2 |-> IF i = 0 THEN g ELSE IF i = 1 THEN rng_gen_reverse_val(g)
                                  ELSE rng_gen_reverse_val(rng_gen_reverse_val(g))]
<1>1. h = [i \in 0 .. 2 |-> IF i = 0 THEN g ELSE rng_gen_reverse_val(h[i - 1])]
  <2>1. h[0] = g /\ h[1] = rng_gen_reverse_val(g) /\ h[2] = rng_gen_reverse_val(rng_gen_reverse_val(g))
    OBVIOUS
  <2>2. h = [i \in 0 .. 2 |-> h[i]]
    OBVIOUS
  <2> HIDE DEF h
  <2>3. ASSUME NEW i \in 0 .. 2 PROVE h[i] = IF i = 0 THEN g ELSE rng_gen_reverse_val(h[i - 1])
    BY <2>1
  <2> QED BY <2>2, <2>3
<1>2. f = [i \in 0 .. 2 |-> IF i = 0 THEN g ELSE rng_gen_reverse_val(f[i - 1])]
  <2> HIDE DEF h
  <2> QED BY <1>1
<1>3. TakenBack(g, 2) = f[2]
  BY DEF TakenBack
<1> HIDE DEF f
<1>4. f[0] = g /\ f[1] = rng_gen_reverse_val(f[0]) /\ f[2] = rng_gen_reverse_val(f[1])
  BY <1>2
<1> QED BY <1>3, <1>4

\* The product of the moduli.
LEMMA ProductPositive == Product \in Nat \ {0}
<1> DEFINE p[j \in 0 .. Len(M)] == IF j = 0 THEN 1 ELSE p[j - 1] * M[j]
           S == Nat \ {0}
           N == Len(M)
           G == [x \in (0 + 1 .. N) \X S |-> x[2] * M[x[1]]]
<1>n. 0 \in Int /\ N \in Int /\ 0 <= N /\ 1 \in S /\ N \in Nat /\ J = 1 .. N
  BY RngAssumption DEF J
<1>1. Product = p[N]
  BY DEF Product
<1>2. G \in [(0 + 1 .. N) \X S -> S]
  <2>1. ASSUME NEW x \in (0 + 1 .. N) \X S
        PROVE  x[2] * M[x[1]] \in S
    <3>1. x[1] \in J /\ x[2] \in S
      BY <1>n
    <3>2. M[x[1]] \in Nat \ {0}
      BY <3>1, Parameters
    <3> QED BY <3>1, <3>2
  <2> QED BY <2>1
<1>3. PICK f : Goes(f, 0, N, S, 1, G)
  <2> HIDE DEF S, G, N
  <2> QED BY <1>n, <1>2, Recursion, Zenon
<1>4. f \in [0 .. N -> S] /\ f = [j \in 0 .. N |-> IF j = 0 THEN 1 ELSE f[j - 1] * M[j]]
  <2> HIDE DEF S
  <2>1. ASSUME NEW j \in 0 .. N PROVE f[j] = IF j = 0 THEN 1 ELSE f[j - 1] * M[j]
    <3>1. CASE j # 0
      <4>1. j \in 0 + 1 .. N /\ j - 1 \in 0 .. N /\ f[j - 1] \in S
        BY <1>n, <1>3, <3>1 DEF Goes
      <4>2. f[j] = G[<<j, f[j - 1]>>]
        BY <1>3, <4>1 DEF Goes
      <4> QED BY <3>1, <4>1, <4>2
    <3> QED BY <1>3, <3>1 DEF Goes
  <2> QED BY <1>3, <2>1 DEF Goes
<1>5. p = [j \in 0 .. N |-> IF j = 0 THEN 1 ELSE p[j - 1] * M[j]]
  BY <1>4
<1> HIDE DEF p, N, S
<1>6. p = f
  <2>1. p = [j \in 0 .. N |-> p[j]] /\ f = [j \in 0 .. N |-> f[j]]
    BY <1>4, <1>5
  <2>2. 0 \in 0 .. N
    BY <1>n
  <2>3. p[0] = 1
    BY <1>5, <2>2
  <2>4. f[0] = 1
    BY <1>4, <2>2
  <2>5. ASSUME NEW j \in 0 + 1 .. N, p[j - 1] = f[j - 1]
        PROVE  p[j] = f[j]
    <3>1. j \in 0 .. N /\ j # 0
      BY <1>n
    <3>2. p[j] = p[j - 1] * M[j]
      BY <1>5, <3>1
    <3>3. f[j] = f[j - 1] * M[j]
      BY <1>4, <3>1
    <3> QED BY <2>5, <3>2, <3>3
  <2>6. Alike(p, f, 0, N)
    BY <2>1, <2>3, <2>4, <2>5 DEF Alike
  <2> QED BY <1>n, <2>6, SameRecursion, Zenon
<1> QED BY <1>n, <1>1, <1>4, <1>6 DEF S

\* The uniform number is a fraction of the product.
LEMMA UnifIn ==
  ASSUME NEW g, Valid(g)
  PROVE  Unif(g) \in 0 .. Product - 1
<1> DEFINE t(v, j) == (v + (IF j % 2 = 1 THEN 1 ELSE -1) * g.Cg[j] * (Product \div M[j])) % Product
           u[j \in 0 .. Len(M)] == IF j = 0 THEN 0 ELSE t(u[j - 1], j)
           S == 0 .. Product - 1
           N == Len(M)
           G == [x \in (0 + 1 .. N) \X S |-> t(x[2], x[1])]
<1>0. Product \in Nat \ {0} /\ Product \in Int
  BY ProductPositive
<1>n. 0 \in Int /\ N \in Int /\ 0 <= N /\ 0 \in S /\ N \in Nat /\ J = 1 .. N
  BY <1>0, RngAssumption DEF J
<1>1. Unif(g) = u[N]
  BY DEF Unif
<1>2. G \in [(0 + 1 .. N) \X S -> S]
  <2>1. ASSUME NEW x \in (0 + 1 .. N) \X S
        PROVE  t(x[2], x[1]) \in S
    <3> DEFINE c == g.Cg[x[1]]
               d == Product \div M[x[1]]
    <3>1. x[1] \in J /\ x[2] \in Int
      BY <1>0, <1>n
    <3>2. M[x[1]] \in Nat \ {0} /\ c \in 0 .. M[x[1]] - 1
      BY <3>1, Parameters DEF Valid
    <3>3. c \in Int
      BY <3>2
    <3>4. d \in Int
      BY <1>0, <3>2, DivMod, Zenon
    <3> DEFINE z == x[2] + (IF x[1] % 2 = 1 THEN 1 ELSE -1) * c * d
    <3> HIDE DEF c, d
    <3>5. z \in Int
      BY <3>1, <3>3, <3>4
    <3>6. t(x[2], x[1]) = z % Product
      BY DEF c, d
    <3> HIDE DEF z
    <3>7. z % Product \in S
      BY <1>0, <3>5, DivMod, Zenon
    <3> QED BY <3>6, <3>7
  <2> QED BY <2>1
<1> HIDE DEF t
<1>3. PICK f : Goes(f, 0, N, S, 0, G)
  <2> HIDE DEF S, G, N
  <2> QED BY <1>n, <1>2, Recursion, Zenon
<1>4. f \in [0 .. N -> S] /\ f = [j \in 0 .. N |-> IF j = 0 THEN 0 ELSE t(f[j - 1], j)]
  <2> HIDE DEF S
  <2>1. ASSUME NEW j \in 0 .. N PROVE f[j] = IF j = 0 THEN 0 ELSE t(f[j - 1], j)
    <3>1. CASE j # 0
      <4>1. j \in 0 + 1 .. N /\ j - 1 \in 0 .. N /\ f[j - 1] \in S
        BY <1>n, <1>3, <3>1 DEF Goes
      <4>2. f[j] = G[<<j, f[j - 1]>>]
        BY <1>3, <4>1 DEF Goes
      <4> QED BY <3>1, <4>1, <4>2
    <3> QED BY <1>3, <3>1 DEF Goes
  <2> QED BY <1>3, <2>1 DEF Goes
<1>5. u = [j \in 0 .. N |-> IF j = 0 THEN 0 ELSE t(u[j - 1], j)]
  BY <1>4
<1> HIDE DEF u, N, S, G
<1>6. u = f
  <2>1. u = [j \in 0 .. N |-> u[j]] /\ f = [j \in 0 .. N |-> f[j]]
    BY <1>4, <1>5
  <2>2. 0 \in 0 .. N
    BY <1>n
  <2>3. u[0] = 0
    BY <1>5, <2>2
  <2>4. f[0] = 0
    BY <1>4, <2>2
  <2>5. ASSUME NEW j \in 0 + 1 .. N, u[j - 1] = f[j - 1]
        PROVE  u[j] = f[j]
    <3>1. j \in 0 .. N /\ j # 0
      BY <1>n
    <3>2. u[j] = t(u[j - 1], j)
      BY <1>5, <3>1
    <3>3. f[j] = t(f[j - 1], j)
      BY <1>4, <3>1
    <3> QED BY <2>5, <3>2, <3>3
  <2>6. Alike(u, f, 0, N)
    BY <2>1, <2>3, <2>4, <2>5 DEF Alike
  <2> QED BY <1>n, <2>6, SameRecursion, Zenon
<1> QED BY <1>n, <1>1, <1>4, <1>6 DEF S

\* An integer drawn is in its range, and takes one draw.
LEMMA IntegerIn ==
  ASSUME NEW g, Valid(g), NEW low \in Int, NEW high \in Int, low <= high
  PROVE  /\ tw_rand_integer(g, low, high).g = rng_gen_val(g)
         /\ tw_rand_integer(g, low, high).val \in low .. high
<1> DEFINE n == rng_gen_val(g)
           k == high + 1 - low
           x == Unif(n)
           P == Product
           q == (x * k) \div P
           r == (x * k) % P
<1>1. tw_rand_integer(g, low, high) = [g |-> n, val |-> low + q]
  BY DEF tw_rand_integer
<1>2. Valid(n)
  BY Draw
<1>3. P \in Nat \ {0} /\ x \in 0 .. P - 1 /\ k \in Nat \ {0}
  BY <1>2, ProductPositive, UnifIn
<1> HIDE DEF P, x, n
<1>4. x * k \in Nat /\ x * k <= (P - 1) * k /\ (P - 1) * k = P * k - k /\ P * k \in Nat /\ x * k \in Int
  BY <1>3, Times
<1>5. q \in Int /\ r \in 0 .. P - 1 /\ x * k = P * q + r
  <2> HIDE DEF k
  <2> QED BY <1>3, <1>4, DivMod, Zenon
<1> HIDE DEF q, r
<1>6. P * q \in Int
  BY <1>3, <1>5
<1>7. 0 <= q
  <2>1. CASE q <= -1
    <3>1. P * q <= P * (-1)
      BY <1>3, <1>5, <2>1, Times
    <3> QED BY <1>3, <1>4, <1>5, <1>6, <3>1
  <2> QED BY <1>5, <2>1
<1>8. q < k
  <2>1. CASE k <= q
    <3>1. P * k <= P * q
      BY <1>3, <1>5, <2>1, Times
    <3> QED BY <1>3, <1>4, <1>5, <1>6, <3>1
  <2> QED BY <1>3, <1>5, <2>1
<1>9. low + q \in low .. high
  BY <1>3, <1>5, <1>7, <1>8
<1> QED BY <1>1, <1>9 DEF n
=============================================================================
