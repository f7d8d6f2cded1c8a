------------------------------ MODULE Fractions ------------------------------
(***************************************************************************)
(* Exact fractions <<numerator, denominator>>, denominator positive, for   *)
(* the averages that the code keeps as floating point numbers.             *)
(***************************************************************************)
EXTENDS Integers, Sequences, SequencesExt

Whole(n) == <<n, 1>>

Plus(a, b) == IF a[2] = b[2] THEN <<a[1] + b[1], a[2]>>
              ELSE <<a[1] * b[2] + b[1] * a[2], a[2] * b[2]>>

Minus(a, b) == Plus(a, <<-b[1], b[2]>>)

Scale(a, n) == <<a[1] * n, a[2]>>

Over(a, n) == <<a[1], a[2] * n>>

SumOver(f, S) == FoldFunctionOnSet(Plus, Whole(0), f, S)

Same(a, b) == a[1] * b[2] = b[1] * a[2]

AtMost(a, b) == a[1] * b[2] <= b[1] * a[2]

=============================================================================
