----------------------------- MODULE Likelihood -----------------------------
(***************************************************************************)
(* signals::compute_likelihood and the Student-t distribution below it, in *)
(* fixed-point arithmetic (Scale stands for 1.0) for the four degrees of   *)
(* freedom the program uses.                                               *)
(*                                                                         *)
(* The standardised distance t is given by s = |t| / sqrt(t^2 + 4), which  *)
(* grows with |t| from 0 to 1, on a grid; then x = 4 / (t^2 + 4) = 1 - s^2 *)
(* and no square root is left to take.  Each operation is rounded down, an *)
(* error of a few parts in Scale.                                          *)
(***************************************************************************)
EXTENDS Integers

CONSTANTS Scale,        \* fixed-point representation of 1.0
          Grid,         \* values of s are 0/Grid .. (Grid - 1)/Grid
          CF_MAX_ITER   \* iterations of the continued fraction

VARIABLES i,            \* s = i / Grid
          above,        \* t >= 0: the price is at or above the strike
          defaults,     \* no strike, no time or no volatility
          is_yes_side,
          likelihood    \* the value returned

vars == <<i, above, defaults, is_yes_side, likelihood>>

-----------------------------------------------------------------------------
Times(p, q) == (p * q) \div Scale
Over(p, q)  == IF q > 0 THEN (p * Scale) \div q ELSE ((0 - p) * Scale) \div (0 - q)

\* One half-iteration of Lentz's method with coefficient aa.
Lentz(f, aa) ==
    LET c == Scale + Over(aa, f.c)
        d == Over(Scale, Scale + Times(aa, f.d))
    IN  [c |-> c, d |-> d, delta |-> Times(c, d), h |-> Times(f.h, Times(c, d))]

\* betacf(a, b, x) for a = A/2, b = B/2: even and odd steps until a factor is 1.
betacf(A, B, x) ==
    LET d0 == Over(Scale, Scale - ((A + B) * x) \div (A + 2))
        even(m) == (2 * m * (B - 2 * m) * x) \div ((A - 2 + 4 * m) * (A + 4 * m))
        odd(m)  == ((0 - (A + 2 * m)) * (A + B + 2 * m) * x) \div ((A + 4 * m) * (A + 2 + 4 * m))
        f[m \in 0..CF_MAX_ITER] ==
            IF m = 0 THEN [c |-> Scale, d |-> d0, delta |-> 0, h |-> d0]
            ELSE LET prev == f[m - 1] IN
                 IF prev.delta = Scale THEN prev
                 ELSE Lentz(Lentz(prev, even(m)), odd(m))
    IN  f[CF_MAX_ITER].h

\* betai(2, 1/2, x) with x = 1 - s^2: exp(lbeta + ...) is B(2, 1/2) x^2 s, and
\* B(2, 1/2) = 4/3.
betai(s) ==
    LET x  == Scale - Times(s, s)
        bt == (4 * Times(Times(x, x), s)) \div 3
    IN  IF x <= 0 THEN 0
        ELSE IF x >= Scale THEN Scale
        ELSE IF 3 * x < 2 * Scale THEN Times(bt, betacf(4, 1, x)) \div 2
        ELSE Scale - 2 * Times(bt, betacf(1, 4, Scale - x))

S == (i * Scale) \div Grid

student_t_cdf ==
    IF above THEN Scale - betai(S) \div 2 ELSE betai(S) \div 2

compute_likelihood ==
    IF defaults THEN Scale \div 2
    ELSE IF is_yes_side THEN student_t_cdf ELSE Scale - student_t_cdf

-----------------------------------------------------------------------------
Args ==
    /\ i \in 0..Grid - 1
    /\ above \in BOOLEAN /\ defaults \in BOOLEAN /\ is_yes_side \in BOOLEAN

Init == Args /\ likelihood = Scale \div 2

Call ==
    /\ likelihood' = compute_likelihood
    /\ UNCHANGED <<i, above, defaults, is_yes_side>>

Spec == Init /\ [][Call]_vars

-----------------------------------------------------------------------------
\* What the fixed-point operations may be off by.
Rounding == Scale \div 100

\* likelihood.cpp: "regularised incomplete beta function I(x; a, b) in [0, 1]", so
\* that the likelihood made from it is a probability.
LikelihoodIsProbability ==
    0 - Rounding <= likelihood /\ likelihood <= Scale + Rounding
=============================================================================
