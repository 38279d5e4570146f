----------------------------- MODULE Rationals -----------------------------
(* Exact arithmetic for the doubles of the accounting code: fractions in    *)
(* lowest terms, and NaN, which 0/0 yields and every operation passes on.   *)
(* Rounding of doubles is abstracted away.                                  *)
EXTENDS Integers, FiniteSetsExt

CONSTANT NaN

(* NaN is no fraction.                                                      *)
ASSUME NaNAssumption == NaN \notin Int \X Int

Abs(i) == IF i < 0 THEN -i ELSE i

(* The denominators up to d that n / d can be written with.                 *)
Denominators(n, d) == {k \in 1 .. d : (n * k) % d = 0}

(* The fraction n / d, in lowest terms with a positive denominator.         *)
Frac(n, d) ==
    LET b == Min(Denominators(n, Abs(d)))
        s == IF d < 0 THEN -1 ELSE 1
    IN  << (s * n * b) \div Abs(d), b >>

OfInt(i) == << i, 1 >>
Zero == OfInt(0)

Add(x, y) == IF NaN \in {x, y} THEN NaN
             ELSE Frac(x[1] * y[2] + y[1] * x[2], x[2] * y[2])
Neg(x) == IF x = NaN THEN NaN ELSE << -x[1], x[2] >>
Sub(x, y) == Add(x, Neg(y))
Times(i, x) == IF x = NaN THEN NaN ELSE Frac(i * x[1], x[2])

(* x / i for an integer i; with quantities that are not negative the code   *)
(* divides by 0 only when x is 0.                                           *)
Over(x, i) == IF x = NaN \/ i = 0 THEN NaN ELSE Frac(x[1], x[2] * i)

(* Comparisons with NaN are false.                                          *)
LessEq(x, y) == x # NaN /\ y # NaN /\ x[1] * y[2] <= y[1] * x[2]
Less(x, y) == x # NaN /\ y # NaN /\ x[1] * y[2] < y[1] * x[2]
============================================================================
