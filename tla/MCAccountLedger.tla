--------------------------- MODULE MCAccountLedger ---------------------------
(* A small instance of AccountFold for TLC. *)
EXTENDS AccountFold

CONSTANTS o1, o2, c1, c2

MCSymmetry == Permutations({o1, o2}) \cup Permutations({c1, c2})

MCBuy == [side |-> "buy", code |-> "X", price |-> 3, qty |-> 2, fee |-> 1,
          decision |-> ""]

MCSell == [side |-> "sell", code |-> "X", price |-> 5, qty |-> 2, fee |-> 1,
           decision |-> ""]

\* A trade of a decision that the store does not hold.
MCStray == [MCBuy EXCEPT !.decision = "lost"]

MCTrades == {MCBuy, MCSell, MCStray}

MCDangling == {MCStray}

MCBaseCash == [s \in BaselineSources |-> IF s = "opening" THEN 10 ELSE 20]

MCBaseHeld == [s \in BaselineSources |-> [c \in {"X"} |-> IF s = "manual" THEN 1 ELSE 0]]

MCLastClose == [c \in {"X"} |-> 4]
=============================================================================
