----------------------------- MODULE Percentile -----------------------------
(***************************************************************************)
(* LatencyStats::percentile() (LatencyStats.hpp 375-397): the nearest-rank *)
(* index computed in binary floating point, as the code does it:           *)
(*                                                                         *)
(*     rank = (p / 100.0) * static_cast<double>(sorted.size());            *)
(*     idx  = static_cast<size_t>(std::ceil(rank));                        *)
(*                                                                         *)
(* with the clamp of idx to 1 .. size.  A floating-point number is a      *)
(* record [m, e] of value m * 2^e with a mantissa of Precision bits; every *)
(* operation rounds its exact result to nearest, ties to even, as IEEE 754 *)
(* does.  The double of the code has Precision = 53; the runs use fewer   *)
(* bits, because TLC's integers have 32 bits.  The sample values are kept *)
(* in nanoseconds: the final division by 1000.0 is monotone and left out. *)
(***************************************************************************)
EXTENDS Integers, Sequences

CONSTANT Precision   \* mantissa bits of the floating-point format

ASSUME PrecisionAssumption == Precision \in Nat /\ Precision >= 2

\* The percentile levels computeStats() asks for, as exact rationals: the
\* decimal literals 50.0, 95.0, 99.0, 99.9 and 99.99.
Levels == <<[num |-> 50, den |-> 1], [num |-> 95, den |-> 1],
            [num |-> 99, den |-> 1], [num |-> 999, den |-> 10],
            [num |-> 9999, den |-> 100]>>

\* The nearest integer to a / b (a >= 0, b > 0), ties to the even one.
RoundHalfEven(a, b) ==
  LET q == a \div b
      r == a % b
  IN  IF 2 * r > b \/ (2 * r = b /\ q % 2 = 1) THEN q + 1 ELSE q

\* floor(log2(x)) for 0 < x < 2^30.
Log2Floor(x) == CHOOSE b \in 0 .. 29 : 2^b <= x /\ x < 2^(b + 1)

\* N * 2^t / D rounded to an integer, written so that no intermediate value
\* exceeds the magnitude of the result times D.
ScaledRound(N, D, t) ==
  IF t >= 0 THEN RoundHalfEven(N * 2^t, D) ELSE RoundHalfEven(N, D * 2^(-t))

\* floor(N * 2^t / D).
ScaledFloor(N, D, t) ==
  IF t >= 0 THEN (N * 2^t) \div D ELSE N \div (D * 2^(-t))

\* The floating-point number nearest to N * 2^E / D (N, D > 0).  The
\* mantissa is scaled into 2^(Precision-1) .. 2^Precision - 1; when the
\* rounding carries out of it, the exponent grows by one.
Normalize(N, E, D) ==
  LET t0 == Precision - 1 - (Log2Floor(N) - Log2Floor(D))
      t  == CHOOSE s \in {t0 - 1, t0, t0 + 1} :
              /\ 2^(Precision - 1) <= ScaledFloor(N, D, s)
              /\ ScaledFloor(N, D, s) < 2^Precision
      m  == ScaledRound(N, D, t)
  IN  IF m = 2^Precision
        THEN [m |-> 2^(Precision - 1), e |-> E - t + 1]
        ELSE [m |-> m, e |-> E - t]

\* The value of the decimal literal l as a double.
Literal(l) == Normalize(l.num, 0, l.den)

\* x / 100.0
DivHundred(x) == Normalize(x.m, x.e, 100)

\* x * static_cast<double>(n), for n > 0.
MulCount(x, n) == Normalize(x.m * n, x.e, 1)

\* std::ceil(x) converted to size_t, for x > 0.
CeilOf(x) ==
  IF x.e >= 0 THEN x.m * 2^x.e
  ELSE (x.m + 2^(-x.e) - 1) \div 2^(-x.e)

\* The 1-based index percentile() reads for level l among n sorted samples:
\* ceil((p / 100.0) * n), raised to 1 and capped at n.
RankIndex(l, n) ==
  LET idx == CeilOf(MulCount(DivHundred(Literal(l)), n))
  IN  IF idx = 0 THEN 1 ELSE IF idx > n THEN n ELSE idx

\* percentile(sorted, p): the sample at that index (0.0 when empty).
PercentileOf(sorted, l) ==
  IF sorted = <<>> THEN 0 ELSE sorted[RankIndex(l, Len(sorted))]

\* The specification's nearest rank, in exact arithmetic:
\* min(n, max(1, ceil(p * n / 100))).
NearestRank(l, n) ==
  LET c == (l.num * n + 100 * l.den - 1) \div (100 * l.den)
  IN  IF c < 1 THEN 1 ELSE IF c > n THEN n ELSE c
====
