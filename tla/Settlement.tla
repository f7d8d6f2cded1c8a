----------------------------- MODULE Settlement -----------------------------
(***************************************************************************)
(* How a decision is scored once its holding days are known: the filling   *)
(* of an entry (eval/fill.py), the outcomes (eval/oracle.py) and the two   *)
(* scorers (eval/scorer.py), the membership one and the one that settles   *)
(* returns.                                                                *)
(*                                                                         *)
(* Prices are whole numbers, and a return is a whole number of basis       *)
(* points, rounded down (the code keeps a float).  Averages are exact.     *)
(* The scorers' baseline caches are left out: their keys determine their   *)
(* values.                                                                 *)
(***************************************************************************)
EXTENDS Market, CandidateCheck

CONSTANTS BoardOf      \* code -> its board, of which its price limit follows

ASSUME BoardsAssumption == BoardOf \in [Codes -> Boards]

\* A bar without a usable price has 0 for it; NoBar has no row at all.
NoBar == [open |-> 0, high |-> 0, low |-> 0, close |-> 0]

------------------------------------------------------------------------------
(* fill_check and CostModel *)

Limit(c, st) == LimitPercent([board |-> BoardOf[c], st |-> st])

AtLimitOpen(bar, prev, limit) == bar.open * 1000 >= prev * (1000 + 10 * limit - 5)

Flat(bar, prev) == (bar.high - bar.low) * 1000 <= prev

Unfillable == 0

LimitPrice(prev, limit) == (prev * (100 + limit)) \div 100

\* The price one gets in at: not on a one-word board, at the limit on a board
\* that opened, else at the open.
FillPrice(bar, prev, limit) ==
    IF ~AtLimitOpen(bar, prev, limit) THEN bar.open
    ELSE IF Flat(bar, prev) THEN Unfillable
    ELSE LimitPrice(prev, limit)

RoundTripCost == 2 * 3 + 5 + 30

Net(fill, close) == ((close - fill) * 10000) \div fill - RoundTripCost

------------------------------------------------------------------------------
(* outcome and path_outcome *)

SCORE == [continued |-> 1, faded |-> 0, nuked |-> -1]

NonTrade == {"unfillable", "missing"}

Nuked(c, mem) == c \in mem.limit_down \cup mem.blowup

OutcomeOn(c, mem) == IF Nuked(c, mem) THEN "nuked"
                     ELSE IF c \in mem.limit_up THEN "continued" ELSE "faded"

NukedDays(c, mems) == {i \in DOMAIN mems : Nuked(c, mems[i])}

PathOutcome(c, mems) ==
    IF NukedDays(c, mems) # {} THEN "nuked"
    ELSE IF \A i \in DOMAIN mems : c \in mems[i].limit_up THEN "continued" ELSE "faded"

------------------------------------------------------------------------------
(* The scorers.  A candidate is [code, pattern, st]. *)

NoBase == <<0, 0>>     \* a day without a pool, or without a settled member

\* advantage falls back to the score where a day has no baseline.
Advantage(score, base) == IF base = NoBase THEN Whole(score) ELSE Minus(Whole(score), base)

Scored(cand, outcome, score, base) ==
    [code |-> cand.code, pattern |-> cand.pattern, outcome |-> outcome,
     score |-> score, advantage |-> Advantage(score, base)]

Untraded(cand, status) ==
    [code |-> cand.code, pattern |-> cand.pattern, outcome |-> status,
     score |-> 0, advantage |-> Whole(0)]

AverageOver(values, indices) ==
    IF indices = {} THEN NoBase
    ELSE <<SumFunctionOnSet(values, indices), Cardinality(indices)>>

\* PoolScorer: the last day decides, against the whole pool of the decision day.
PoolScores(decision, mems, decision_mem) ==
    LET mem  == mems[Len(mems)]
        pool == decision_mem.limit_up
        base == AverageOver([c \in pool |-> SCORE[OutcomeOn(c, mem)]], pool)
    IN  {Scored(cand, OutcomeOn(cand.code, mem), SCORE[OutcomeOn(cand.code, mem)], base) :
            cand \in decision}

\* A slip: a stock nuked on its entry day is sold that same day.
SettleDayAtOnce(nuked, path) == IF nuked = {} THEN path[Len(path)] ELSE path[Min(nuked)]

\* The day whose close settles: the first nuked day, but never the entry day.
SettleDay(nuked, path) ==
    IF nuked = {} THEN path[Len(path)]
    ELSE IF Min(nuked) = 1 THEN path[2] ELSE path[Min(nuked)]

\* _settle_one: `bars` gives the stored bar of every day from the decision to
\* the exit, `path` the days held, `mems` their memberships.
SettleOne(c, st, mems, day, path, bars) ==
    LET fill  == FillPrice(bars[path[1]], bars[day].close, Limit(c, st))
        close == bars[SettleDay(NukedDays(c, mems), path)].close
    IN  CASE bars[day].close = 0 \/ bars[path[1]].open = 0 -> [status |-> "missing", net |-> 0]
          [] OTHER ->
             IF fill = Unfillable THEN [status |-> "unfillable", net |-> 0]
             ELSE IF close = 0    THEN [status |-> "missing", net |-> 0]
             ELSE [status |-> PathOutcome(c, mems), net |-> Net(fill, close)]

\* A slip: what could not be bought counts in the baseline, as zero.
TradedInPool(settled, pool) == pool

\* The members of the pool that were bought and settled.
SettledInPool(settled, pool) == {c \in pool : settled[c].status \notin NonTrade}

\* ReturnScorer: `names` are the codes the entry day's pool shows as ST, the
\* names a pool member is settled under; a candidate carries its own.
ReturnScores(decision, mems, decision_mem, day, path, bars, names) ==
    LET pool    == decision_mem.limit_up
        settled == [c \in pool |-> SettleOne(c, c \in names, mems, day, path, bars[c])]
        base    == AverageOver([c \in pool |-> settled[c].net], SettledInPool(settled, pool))
        Judge(cand) ==
            LET r == SettleOne(cand.code, cand.st, mems, day, path, bars[cand.code])
            IN  IF r.status \in NonTrade THEN Untraded(cand, r.status)
                ELSE Scored(cand, r.status, r.net, base)
    IN  {Judge(cand) : cand \in decision}

=============================================================================
