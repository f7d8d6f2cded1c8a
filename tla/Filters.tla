------------------------------- MODULE Filters -------------------------------
(***************************************************************************)
(* A list comprehension with a condition: [x for x in s if x in S].  It is *)
(* SelectSeq for a set, as a recursive function, which can be proved about.*)
(***************************************************************************)
EXTENDS Integers, Sequences

\* The elements of s that are in S, in their order.
Only(s, S) ==
    LET F[i \in 0 .. Len(s)] ==
            IF i = 0 THEN << >> ELSE IF s[i] \in S THEN Append(F[i - 1], s[i]) ELSE F[i - 1]
    IN  F[Len(s)]
=============================================================================
