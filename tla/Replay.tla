------------------------------- MODULE Replay -------------------------------
(***************************************************************************)
(* The replay engine (replay/engine.py) with its as-of guard               *)
(* (replay/firewall.py): a cursor over trading days and the sentiment of   *)
(* the days behind it.  An engine is a record; history[k] is meant to      *)
(* belong to the k-th day.  The days of a window follow one another, so a  *)
(* window is its first and last day.                                       *)
(***************************************************************************)
EXTENDS Naturals, Sequences

\* trading_days_between: the window's days, in order.
TradingDays(window) == [k \in 1 .. (window[2] - window[1] + 1) |-> window[1] + k - 1]

InWindow(window, day) == window[1] <= day /\ day <= window[2]

NewEngine(window) == [days |-> TradingDays(window), i |-> 1, as_of |-> window[1],
                      history |-> << >>, recorded |-> {}]

Cursor(e) == e.days[e.i]

\* AsOfGuard.check, before every read of the guarded source.
Allows(e, day) == day <= e.as_of

\* A slip: a day that is looked at twice enters the history twice.
RecordEveryLook(e, raw) ==
    [e EXCEPT !.history = Append(@, raw), !.recorded = @ \cup {e.i}]

\* observe: the day enters the history once.
Record(e, raw) ==
    IF e.i \in e.recorded THEN e
    ELSE [e EXCEPT !.history = Append(@, raw), !.recorded = @ \cup {e.i}]

CanStep(e) == e.i < Len(e.days)

\* A slip: the guard stays behind.
StepWithoutGuard(e) == [e EXCEPT !.i = @ + 1]

Step(e) == [e EXCEPT !.i = @ + 1, !.as_of = e.days[e.i + 1]]

\* reset_to: back (or ahead) to a day of the window; the history keeps what is
\* strictly before it.
ResetTo(e, k) ==
    [e EXCEPT !.i = k, !.as_of = e.days[k],
              !.history = SubSeq(@, 1, IF Len(@) < k THEN Len(@) ELSE k - 1),
              !.recorded = {j \in @ : j < k}]

=============================================================================
