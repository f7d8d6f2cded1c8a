----------------------------- MODULE MCInnerLoop -----------------------------
(* A small instance of InnerLoop for TLC. *)
EXTENDS InnerLoop

\* One unit of advantage is 0.05: the floors are the defaults of LoopConfig.
Base == [lastDay |-> 5, advantages |-> {-10, 10}, horizon |-> 1, refineEvery |-> 1,
         evidenceMin |-> 1, minDays |-> 1, kMax |-> 1, enableRefine |-> TRUE, madC |-> 2, floor |-> -4,
         paired |-> FALSE, shadow |-> << >>, lambda |-> 1, epsC4 |-> 1, epsFloor |-> 1]

MCAdvantages == {-10, 10}

\* One day compared; decisions scored two days late; two days compared and
\* sparse refines; a shadow that misses a day; no refiner at all.
MCConfigs ==
    {Base,
     [Base EXCEPT !.lastDay = 7, !.advantages = {-10}, !.horizon = 2],
     [Base EXCEPT !.lastDay = 7, !.advantages = {-10}, !.minDays = 2, !.kMax = 2, !.madC = 0,
                  !.evidenceMin = 2, !.refineEvery = 2],
     [Base EXCEPT !.lastDay = 6, !.advantages = {-10}, !.minDays = 2, !.kMax = 2,
                  !.paired = TRUE, !.shadow = [d \in Day \ {1} |-> IF d = 3 THEN 10 ELSE 0]],
     [Base EXCEPT !.enableRefine = FALSE]}
=============================================================================
