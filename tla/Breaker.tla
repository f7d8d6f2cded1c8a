------------------------------- MODULE Breaker -------------------------------
(***************************************************************************)
(* The capability floor of the inner loop (youzi/loop/inner_loop.py,       *)
(* _mad, _fallback_trip, _shadow_eps_abs, _shadow_trip).                   *)
(*                                                                         *)
(* A daily advantage is an integer number of units, so that every test is  *)
(* exact: a division in the code is a multiplication of the other side.    *)
(* Med2 and Mad4 carry the factor a median of an even number of values     *)
(* brings with it.  The thresholds of a LoopConfig are integers too:       *)
(* mad_c and lambda as they are, eps_c in quarters, the floors in units.   *)
(***************************************************************************)
EXTENDS Filters, Integers, Sequences, FiniteSetsExt

\* The r-th smallest value of xs.
Ranked(xs, r) ==
    CHOOSE v \in {xs[i] : i \in DOMAIN xs} :
        /\ Cardinality({i \in DOMAIN xs : xs[i] < v}) < r
        /\ Cardinality({i \in DOMAIN xs : xs[i] <= v}) >= r

\* Twice statistics.median.
Med2(xs) == Ranked(xs, (Len(xs) + 1) \div 2) + Ranked(xs, Len(xs) \div 2 + 1)

\* Four times _mad.
Mad4(xs) == Med2([i \in DOMAIN xs |-> LET d == 2 * xs[i] - Med2(xs) IN IF d < 0 THEN -d ELSE d])

LastOf(xs, k) == SubSeq(xs, Len(xs) - k + 1, Len(xs))

Total(xs) == MapThenSumSet(LAMBDA i : xs[i], DOMAIN xs)

\* The mean of the last k days is below median - c * MAD, or below the
\* absolute floor when the whole history is one constant.
FallbackTrip(history, k, c, floor) ==
    LET rolling == Total(LastOf(history, k))
    IN  IF Mad4(history) = 0
        THEN rolling < k * floor
        ELSE 4 * rolling < k * (2 * Med2(history) - c * Mad4(history))

\* Sixteen times eps_abs.
ShadowEps16(shadow, c4, floor) ==
    LET nonzero == Only(shadow, Int \ {0})
    IN  IF nonzero = << >> THEN 16 * floor
        ELSE IF Mad4(nonzero) = 0 THEN 16 * floor
        ELSE c4 * Mad4(nonzero)

\* mean < -lambda * stdev over k days, both sides squared; one day has no spread.
BelowSpread(win, k, lambda) ==
    LET sum     == Total(win)
        squares == Total([i \in DOMAIN win |-> win[i] * win[i]])
    IN  /\ sum < 0
        /\ (k - 1) * sum * sum > lambda * lambda * k * (k * squares - sum * sum) \/ k = 1

\* Both gates on the mean, and more than half of the days strictly negative.
ShadowTrip(diffs, k, lambda, eps16) ==
    LET win == LastOf(diffs, k)
    IN  /\ BelowSpread(win, k, lambda)
        /\ 16 * Total(win) < -(k * eps16)
        /\ Cardinality({i \in DOMAIN win : win[i] < 0}) >= (k + 1) \div 2 + 1
=============================================================================
