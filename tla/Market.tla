------------------------------- MODULE Market -------------------------------
(***************************************************************************)
(* One trading day as the program sees it: the four pools of the data      *)
(* source, the candidate universe built from them (universe/universe.py),  *)
(* the memberships that outcomes are judged by (eval/oracle.py) and the    *)
(* market state with its sentiment (features/).                            *)
(*                                                                         *)
(* A pool frame is a set of rows, one per code.  Of a row's fields, those  *)
(* are kept that a decision, an outcome or the sentiment depends on: the   *)
(* number of boards (0: not given), the change in per cent and whether the *)
(* name says ST.  Averages are exact fractions.                            *)
(***************************************************************************)
EXTENDS Fractions

CONSTANTS
    Codes,       \* the stocks
    MinSamples   \* SENTIMENT_MIN_SAMPLES

Row == [code : Codes, boards : Nat, pct : Int, st : BOOLEAN]

\* The prices of a day; 0 where there is no usable one.
Bar == [open : Nat, high : Nat, low : Nat, close : Nat]

KindSeq == <<"zt", "prev", "blowup", "dt">>

Kinds == {KindSeq[i] : i \in DOMAIN KindSeq}

CodesOf(frame) == {r.code : r \in frame}

RowIn(frame, c) == CHOOSE r \in frame : r.code = c

------------------------------------------------------------------------------
(* build_universe *)

Statuses == {"limit_up", "blowup", "limit_down"}

PoolOf == [limit_up |-> "zt", blowup |-> "blowup", limit_down |-> "dt"]

Listed(pools) == UNION {CodesOf(pools[PoolOf[s]]) : s \in Statuses}

\* A slip: the pools are written in the other order, and a broken board wins.
StatusBlowupFirst(pools, c) ==
    CASE c \in CodesOf(pools.blowup)                              -> "blowup"
      [] c \in CodesOf(pools.zt) \ CodesOf(pools.blowup)          -> "limit_up"
      [] c \notin CodesOf(pools.zt) \cup CodesOf(pools.blowup)    -> "limit_down"

\* dt, then blowup, then zt: the last to write a code gives its status.
StatusOf(pools, c) ==
    CASE c \in CodesOf(pools.zt)                                  -> "limit_up"
      [] c \in CodesOf(pools.blowup) \ CodesOf(pools.zt)          -> "blowup"
      [] c \notin CodesOf(pools.zt) \cup CodesOf(pools.blowup)    -> "limit_down"

Snapshot(status, row) == [status |-> status, boards |-> row.boards, st |-> row.st]

BuildUniverse(pools) ==
    [c \in Listed(pools) |->
        LET s == StatusOf(pools, c) IN Snapshot(s, RowIn(pools[PoolOf[s]], c))]

ByStatus(universe, s) == {c \in DOMAIN universe : universe[c].status = s}

\* What PoolRecord keeps of a day.
Membership(universe) == [s \in Statuses |-> ByStatus(universe, s)]

------------------------------------------------------------------------------
(* build_market_state *)

MaxBoardHeight(zt) == Max({r.boards : r \in zt} \cup {0})

\* height -> how many stocks stand at it
Echelon(zt) == [h \in {r.boards : r \in zt} \ {0} |-> Cardinality({r \in zt : r.boards = h})]

MoneyEffect(prev) ==
    IF prev = {} THEN Whole(0)
    ELSE <<SumFunctionOnSet([r \in prev |-> r.pct], prev), Cardinality(prev)>>

BlowupRate(zt, blowup) ==
    IF zt \cup blowup = {} THEN Whole(0)
    ELSE <<Cardinality(blowup), Cardinality(zt) + Cardinality(blowup)>>

\* Ten times raw_sentiment: 2 height + 0.1 up + 1.5 effect - 8 rate - 0.3 down.
RawSentiment(pools) ==
    Plus(Whole(20 * MaxBoardHeight(pools.zt) + Cardinality(pools.zt)
               - 3 * Cardinality(pools.dt)),
         Minus(Scale(MoneyEffect(pools.prev), 15),
               Scale(BlowupRate(pools.zt, pools.blowup), 80)))

NoNorm == <<0, 0>>     \* too few samples to rank against

\* The rank of a value among those of the days before.
NormalizeSentiment(raw, history) ==
    IF Len(history) < MinSamples \/ Len(history) = 0 THEN NoNorm
    ELSE <<Cardinality({i \in DOMAIN history : AtMost(history[i], raw)}), Len(history)>>

MarketState(day, pools, history) ==
    LET raw == RawSentiment(pools)
    IN  [day |-> day, height |-> MaxBoardHeight(pools.zt),
         up |-> Cardinality(pools.zt), down |-> Cardinality(pools.dt),
         rate |-> BlowupRate(pools.zt, pools.blowup), echelon |-> Echelon(pools.zt),
         effect |-> MoneyEffect(pools.prev), raw |-> raw,
         norm |-> NormalizeSentiment(raw, history)]

=============================================================================
