---------------------------- MODULE MCLiveDecision ----------------------------
(* A small instance of LiveDecision for TLC. *)
EXTENDS LiveDecision

CONSTANTS r1, r2, i1, o1, c1, x1

\* What is proposed does not matter before it is adopted.
MCPackages == {<< >>}

MCNone == {}
=============================================================================
