-------------------------------- MODULE Rng --------------------------------
(***************************************************************************)
(* The random numbers of rand-clcg4.c: four linear congruential generators *)
(* that are stepped together, forward for a draw and backward when the     *)
(* event that drew is undone, and the start of one stream per LP.          *)
(*                                                                         *)
(* The moduli and the widths are constants: what the code does with H =    *)
(* 2^15 in 32 bit integers is done here with a smaller H in integers of    *)
(* IntBits bits, with 2^IntBits = 4 H^2 in both cases.                     *)
(***************************************************************************)
EXTENDS Integers, Sequences

CONSTANTS
  H,            \* splits the factors in MultModM
  IntBits,      \* the width of int32_t
  IdBits,       \* the width of tw_lpid
  M, A,         \* m[j] and a[j]
  V, W          \* the arguments of rng_init

ASSUME RngAssumption ==
  /\ H \in Nat \ {0} /\ IntBits \in Nat \ {0} /\ 2 ^ IntBits = 4 * H * H
  /\ V \in Nat /\ W \in Nat /\ IdBits \in Nat \ {0}
  /\ M \in Seq(Nat) /\ A \in Seq(Nat) /\ DOMAIN M = DOMAIN A
  /\ \A j \in DOMAIN M : /\ 1 < A[j] /\ A[j] < M[j] /\ H < M[j] /\ M[j] < 2 * H * H
                         /\ M[j] % A[j] < M[j] \div A[j]

J == DOMAIN M

\* What an int32_t holds after x was assigned to it.
Int32(x) == ((x + 2 * H * H) % (4 * H * H)) - 2 * H * H

\* while (R < 0) R += M
NonNeg(R, m) == IF R < 0 THEN R % m ELSE R

\* H times x modulo m.
Shift(x, m) ==
  LET qh == m \div H
      k  == x \div qh
  IN  NonNeg(Int32(H * (x - k * qh) - k * (m - H * qh)), m)

\* Mutant: the partial sum is not brought below zero before it is added to.
AddMulUnreduced(R, S, t, m) ==
  LET q == m \div S
      k == t \div q
  IN  NonNeg(Int32(Int32(R - k * (m - S * q)) + S * (t - k * q)), m)

\* R + S * t modulo m, for S < H.
AddMul(R, S, t, m) ==
  LET q  == m \div S
      k  == t \div q
      R1 == Int32(R - k * (m - S * q))
      R2 == IF R1 > 0 THEN R1 - m ELSE R1
  IN  NonNeg(Int32(R2 + S * (t - k * q)), m)

\* (x * y) MOD m for -m < x, y < m, in 32 bit integers.
MultModM(x, y, m) ==
  LET s  == IF x < 0 THEN x + m ELSE x
      t  == IF y < 0 THEN y + m ELSE y
      S1 == s \div H
      R1 == IF S1 >= H THEN Shift(t, m) ELSE 0
      S2 == IF S1 >= H THEN S1 - H ELSE S1
      R2 == IF S2 = 0 THEN R1 ELSE AddMul(R1, S2, t, m)
      R3 == IF s < H THEN 0 ELSE Shift(R2, m)
  IN  IF s % H = 0 THEN R3 ELSE AddMul(R3, s % H, t, m)

\* x squared n times, as the loops of rng_init do it.
Squared(x, n, m) ==
  LET sq[i \in 0 .. n] == IF i = 0 THEN x
                         ELSE LET y == sq[i - 1] IN MultModM(y, y, m)
  IN  sq[n]

Bit(x, i) == (x \div 2 ^ i) % 2

\* a^k modulo m, from the squares sqrs[i] of a.
FindB(a, k, m) ==
  LET sqrs[i \in 0 .. IntBits - 1] == IF i = 0 THEN a ELSE (sqrs[i - 1] * sqrs[i - 1]) % m
      b[i \in 0 .. IntBits] == IF i = 0 THEN 1
                               ELSE IF Bit(k, i - 1) = 0 THEN b[i - 1] % m
                               ELSE (b[i - 1] * sqrs[i - 1]) % m
  IN  b[IntBits]

\* rng_init
aw  == [j \in J |-> Squared(A[j], W, M[j])]
avw == [j \in J |-> Squared(aw[j], V, M[j])]
B   == [j \in J |-> FindB(A[j], M[j] - 2, M[j])]

\* The moduli are prime, so that b[j] undoes a[j].
ASSUME InverseAssumption == \A j \in J : (A[j] * B[j]) % M[j] = 1

clamp_seed(s) ==
  [j \in J |-> IF s[j] < 1 THEN 1 ELSE IF s[j] > M[j] - 1 THEN M[j] - 1 ELSE s[j]]

\* The stream with number id of a generator: its seed, multiplied for each bit
\* of id, from the highest one down, by avw to the power of that bit.
tw_rand_initial_seed(id, seed) ==
  LET ig(j) ==
        LET f[n \in 0 .. IdBits - 1] ==
              IF n = 0 THEN seed[j]
              ELSE IF Bit(id, IdBits - n) = 0 THEN f[n - 1]
              ELSE MultModM(Squared(avw[j], IdBits - n, M[j]), f[n - 1], M[j])
        IN  IF id % 2 = 1 THEN MultModM(avw[j], f[IdBits - 1], M[j]) ELSE f[IdBits - 1]
      Ig == clamp_seed([j \in J |-> ig(j)])
  IN  [count |-> 0, Ig |-> Ig, Cg |-> Ig]

\* A draw.
rng_gen_val(g) ==
  LET gen(s, j) ==
        LET q == M[j] \div A[j]
            k == s \div q
            x == Int32(A[j] * (s - k * q) - k * (M[j] % A[j]))
        IN  IF x < 0 THEN x + M[j] ELSE x
  IN  [g EXCEPT !.count = @ + 1, !.Cg = [j \in J |-> gen(@[j], j)]]

\* The uniform number of the state a draw leaves: the fractions of the moduli,
\* added and subtracted in turn modulo one; here times the moduli's product.
Product == LET p[j \in 0 .. Len(M)] == IF j = 0 THEN 1 ELSE p[j - 1] * M[j] IN p[Len(M)]
Unif(g) ==
  LET u[j \in 0 .. Len(M)] ==
        IF j = 0 THEN 0
        ELSE (u[j - 1] + (IF j % 2 = 1 THEN 1 ELSE -1) * g.Cg[j] * (Product \div M[j])) % Product
  IN  u[Len(M)]

\* The stream after it and the integer from low to high; an empty range draws
\* nothing.
tw_rand_integer(g, low, high) ==
  IF high + 1 <= low THEN [g |-> g, val |-> 0]
  ELSE LET n == rng_gen_val(g)
       IN  [g |-> n, val |-> low + ((Unif(n) * (high + 1 - low)) \div Product)]

\* A draw taken back.
rng_gen_reverse_val(g) ==
  [g EXCEPT !.count = @ - 1, !.Cg = [j \in J |-> (B[j] * @[j]) % M[j]]]

\* n draws taken back.
TakenBack(g, n) ==
  LET f[i \in 0 .. n] == IF i = 0 THEN g ELSE rng_gen_reverse_val(f[i - 1]) IN f[n]
=============================================================================
