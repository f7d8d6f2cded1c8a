---------------------------- MODULE AccountTables ----------------------------
(***************************************************************************)
(* The account half of live.db: the tables fill and account_snapshot, the  *)
(* wall clock their rows are stamped with, and the reads and statements of *)
(* youzi/store/account_repo.py.                                            *)
(*                                                                         *)
(* fill is a sequence: its order is rowid order, which is commit order.    *)
(* account_snapshot is a function of its primary key (account, as_of).     *)
(* Time is counted in readings of the clock: microsecond stamps of two     *)
(* readings are taken to differ, and the clock not to be set back.  Time 0 *)
(* is before the first reading.                                            *)
(***************************************************************************)
EXTENDS Naturals, Sequences, LiveDb

CONSTANTS
    Ops,         \* operation_id
    Trades,      \* the fields of a fill but operation, account and created_at
    Dangling,    \* the trades whose decision_id names no decision
    HandSources, \* the sources of baselines put in by hand
    HandTimes,   \* bound: the moments such baselines are dated at
    MaxClock     \* bound: readings of the clock

Times == 0 .. MaxClock

ASSUME DanglingAssumption == Dangling \subseteq Trades

ASSUME HandAssumption == HandSources \subseteq {"manual", "broker"} /\ HandTimes \subseteq Times

ASSUME MaxClockAssumption == MaxClock \in Nat \ {0}

VARIABLES
    clock,       \* the next reading of the wall clock
    fill,        \* fill rows in rowid order
    snap         \* account_snapshot: <<account, as_of>> -> its source

Entrances == {"form", "api"}

\* `via` is history: the web form or the JSON API.
FillRow == [op : Ops, account : Accounts, trade : Trades, at : Times, via : Entrances]

BaselineSources == {"manual", "broker", "opening"}

Sources == BaselineSources \cup {"frozen"}

\* datetime.now()
ReadClock == clock < MaxClock /\ clock' = clock + 1

------------------------------------------------------------------------------
(* fill *)

\* fill_by_operation: the rows (at most one) of an operation.
FillsOf(op) == {i \in DOMAIN fill : fill[i].op = op}

\* INSERT INTO fill: UNIQUE (operation_id), and the foreign key of decision_id.
CanInsertFill(op, trade) == FillsOf(op) = {} /\ trade \notin Dangling

InsertFill(row) == fill' = Append(fill, row)

\* fills(account, since): the rows of an account stamped after `since`.
FillsAfter(account, since) ==
    {i \in DOMAIN fill : fill[i].account = account /\ fill[i].at > since}

HasFills(account) == \E i \in DOMAIN fill : fill[i].account = account

------------------------------------------------------------------------------
(* account_snapshot *)

\* A slip: any snapshot is a baseline, the frozen copies too.
BaselineTimesOfAnySource(account) == {t \in Times : <<account, t>> \in DOMAIN snap}

\* The snapshots that latest_baseline selects among.
BaselineTimes(account) ==
    {t \in Times : <<account, t>> \in DOMAIN snap /\ snap[<<account, t>>] \in BaselineSources}

HasBaseline(account) == BaselineTimes(account) # {}

\* A slip: the guard of the single statement forgets the baselines.
CanInsertOpeningTwice(account) == ~HasFills(account)

\* INSERT ... WHERE NOT EXISTS (a baseline) AND NOT EXISTS (a fill)
CanInsertOpening(account) == ~HasBaseline(account) /\ ~HasFills(account)

\* A slip: the source is left out, and the column takes its default.
PutSnapshotOfNoSource(account, as_of, source) == snap' = With(snap, <<account, as_of>>, "")

\* INSERT, or ON CONFLICT (account_id, as_of) DO UPDATE
PutSnapshot(account, as_of, source) == snap' = With(snap, <<account, as_of>>, source)

=============================================================================
