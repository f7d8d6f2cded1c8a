--------------------------- MODULE MCAgentRunStore ---------------------------
(* A small instance of AgentRunStore for TLC. *)
EXTENDS AgentRunStore, TLC

CONSTANTS r1, r2, i1, i2, c1, c2

\* A lot of Entry costs 110: the first context cannot pay it, the second can.
MCContexts == {[absolute |-> TRUE, cash |-> 5], [absolute |-> TRUE, cash |-> 200]}

Entry == [code |-> "600001", board |-> "main", st |-> FALSE, close |-> 1]

MCPackages == {<< >>, <<Entry>>}

MCSymmetry == Permutations({r1, r2}) \cup Permutations({i1, i2})
              \cup Permutations({c1, c2})
=============================================================================
