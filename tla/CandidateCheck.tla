--------------------------- MODULE CandidateCheck ---------------------------
(***************************************************************************)
(* The deterministic check of one proposed stock against a frozen account  *)
(* (youzi/application/live_decision.py, check_candidate), and the board    *)
(* rules it reads (youzi/eval/fill.py, limit_threshold).                   *)
(*                                                                         *)
(* A stock code is reduced to its board, a name to whether it carries ST,  *)
(* money to whole units and a limit to per cent.  A lot is a multiple of   *)
(* 100, so the cost of one lot at the limit price is exact here, and the   *)
(* roundings of the code (to 4 and 2 decimals) are without effect.         *)
(***************************************************************************)
EXTENDS Naturals

Boards == {"main", "growth", "star", "beijing"}

NoClose == 0     \* no usable close for day t: a missing price, or one <= 0

Verdicts == {"ok", "unknown", "blocked"}

LimitPercent(entry) ==
    CASE entry.board = "beijing"            -> 30
      [] entry.board \in {"growth", "star"} -> 20
      [] entry.board = "main"               -> IF entry.st THEN 5 ELSE 10

MinLot(entry) == IF entry.board = "star" THEN 200 ELSE 100

\* The most that one minimum lot can cost on day t+1.
LotCost(entry) == entry.close * (100 + LimitPercent(entry)) * (MinLot(entry) \div 100)

PricingVerdict(entry) == IF entry.close = NoClose THEN "unknown" ELSE "ok"

CashVerdict(entry, ctx) ==
    IF ~ctx.absolute \/ entry.close = NoClose THEN "unknown"
    ELSE IF ctx.cash < LotCost(entry) THEN "blocked" ELSE "ok"

\* Holding the stock already and a sealed limit-up are remarks: their own
\* verdict is "ok" in every case, so the total does not depend on them.
CheckCandidate(entry, ctx) ==
    LET verdicts == {PricingVerdict(entry), CashVerdict(entry, ctx)}
    IN  IF "blocked" \in verdicts THEN "blocked"
        ELSE IF "unknown" \in verdicts THEN "unknown" ELSE "ok"

=============================================================================
