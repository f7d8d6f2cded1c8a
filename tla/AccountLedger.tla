---------------------------- MODULE AccountLedger ----------------------------
(***************************************************************************)
(* Reporting fills and opening accounts under concurrent requests:         *)
(* AccountRepo.record_fill behind its two entrances (the account form,     *)
(* which first asks for a baseline, and the JSON API, which does not),     *)
(* AccountRepo.open_baseline, and baselines put in by hand.                *)
(*                                                                         *)
(* created_at and as_of are read from the clock in Python, before the      *)
(* statement that carries them gets the write lock; other requests may     *)
(* commit in between.  Any request may die, or give up the lock, at any    *)
(* point, and a client that heard nothing may send it again.               *)
(***************************************************************************)
EXTENDS AccountTables, FiniteSets

CONSTANT MaxRepeats   \* bound: after so many answers to repeated reports none begins

ASSUME MaxRepeatsAssumption == MaxRepeats \in Nat

VARIABLES
    report,      \* slot -> a record_fill in progress
    opening,     \* slot -> an open_baseline between its checks and its INSERT
    created,     \* history: operation -> the answers "created" given for it
    existing,    \* history: the <<operation, report>> answered "existing"
    refused      \* history: the <<operation, report>> answered DuplicateError

answers == <<created, existing, refused>>

lvars == <<clock, fill, snap, report, opening, created, existing, refused>>

Stages == {"lookup", "insert", "reread", "reply"}

ReportCall == [op : Ops, account : Accounts, trade : Trades, via : Entrances,
               at : Times, stage : Stages]

OpeningCall == [account : Accounts, at : Times]

Idle(c) == c \in Slots \ (DOMAIN report \cup DOMAIN opening)

LedgerInit ==
    /\ clock = 1
    /\ fill = << >>
    /\ snap = << >>
    /\ report = << >>
    /\ opening = << >>
    /\ created = [o \in Ops |-> 0] /\ existing = {} /\ refused = {}

------------------------------------------------------------------------------
(* record_fill *)

\* A slip: the form does not ask whether the account is open.
FormWithoutBaselineCheck(account, via) == TRUE

\* The form refuses (409) an account without a baseline; the API does not ask.
EntranceAdmits(account, via) == via = "form" => HasBaseline(account)

BeginReport(c, op, account, trade, via) ==
    /\ Idle(c)
    /\ Cardinality(existing) + Cardinality(refused) < MaxRepeats
    /\ EntranceAdmits(account, via)
    /\ via = "form" => trade \notin Dangling     \* the form sends no decision_id
    /\ report' = With(report, c, [op |-> op, account |-> account, trade |-> trade,
                                  via |-> via, at |-> 0, stage |-> "lookup"])
    /\ UNCHANGED <<clock, fill, snap, opening, answers>>

Fields(row) == [account |-> row.account, trade |-> row.trade]

\* A slip: the answer for a known operation does not compare the fields.
SettleUnseen(call) ==
    /\ existing' = existing \cup {<<call.op, Fields(call)>>}
    /\ UNCHANGED refused

\* _settle: the operation is booked.  Equal fields are a retry, other fields a
\* reused key.
Settle(call) ==
    IF \E i \in FillsOf(call.op) : Fields(fill[i]) = Fields(call)
    THEN existing' = existing \cup {<<call.op, Fields(call)>>} /\ UNCHANGED refused
    ELSE refused' = refused \cup {<<call.op, Fields(call)>>} /\ UNCHANGED existing

\* fill_by_operation finds the operation: answer from the row.
SettleKnown(c) ==
    /\ c \in DOMAIN report /\ report[c].stage \in {"lookup", "reread"}
    /\ FillsOf(report[c].op) # {}
    /\ Settle(report[c])
    /\ report' = Without(report, c)
    /\ UNCHANGED <<clock, fill, snap, opening, created>>

\* It does not: draw created_at, the last argument of the INSERT to be computed.
StampReport(c) ==
    /\ c \in DOMAIN report /\ report[c].stage = "lookup"
    /\ FillsOf(report[c].op) = {}
    /\ ReadClock
    /\ report' = [report EXCEPT ![c].at = clock, ![c].stage = "insert"]
    /\ UNCHANGED <<fill, snap, opening, answers>>

\* The INSERT, or its IntegrityError.
InsertReport(c) ==
    /\ c \in DOMAIN report /\ report[c].stage = "insert"
    /\ \/ /\ CanInsertFill(report[c].op, report[c].trade)
          /\ InsertFill([op |-> report[c].op, account |-> report[c].account,
                         trade |-> report[c].trade, at |-> report[c].at,
                         via |-> report[c].via])
          /\ report' = [report EXCEPT ![c].stage = "reply"]
       \/ /\ ~CanInsertFill(report[c].op, report[c].trade)
          /\ report' = [report EXCEPT ![c].stage = "reread"]
          /\ UNCHANGED fill
    /\ UNCHANGED <<clock, snap, opening, answers>>

\* The IntegrityError was not about the operation: it is raised to the client.
RaiseIntegrityError(c) ==
    /\ c \in DOMAIN report /\ report[c].stage = "reread"
    /\ FillsOf(report[c].op) = {}
    /\ report' = Without(report, c)
    /\ UNCHANGED <<clock, fill, snap, opening, answers>>

ReplyCreated(c) ==
    /\ c \in DOMAIN report /\ report[c].stage = "reply"
    /\ created' = [created EXCEPT ![report[c].op] = @ + 1]
    /\ report' = Without(report, c)
    /\ UNCHANGED <<clock, fill, snap, opening, existing, refused>>

------------------------------------------------------------------------------
(* open_baseline and baselines by hand *)

\* latest_baseline and fills find nothing; then the clock is read.
BeginOpen(c, account) ==
    /\ Idle(c)
    /\ ~HasBaseline(account) /\ ~HasFills(account)
    /\ ReadClock
    /\ opening' = With(opening, c, [account |-> account, at |-> clock])
    /\ UNCHANGED <<fill, snap, report, answers>>

\* The guarded INSERT; a rowcount other than 1 is a DuplicateError.
InsertOpening(c) ==
    /\ c \in DOMAIN opening
    /\ \/ /\ CanInsertOpening(opening[c].account)
          /\ PutSnapshot(opening[c].account, opening[c].at, "opening")
       \/ /\ ~CanInsertOpening(opening[c].account)
          /\ UNCHANGED snap
    /\ opening' = Without(opening, c)
    /\ UNCHANGED <<clock, fill, report, answers>>

\* A person records what a broker or their own count says of some past moment.
PutBaseline(account, as_of, source) ==
    /\ as_of < clock
    /\ PutSnapshot(account, as_of, source)
    /\ UNCHANGED <<clock, fill, report, opening, answers>>

\* The process dies, the write lock times out, or the answer is lost.
AbortLedger(c) ==
    /\ c \in Slots /\ ~Idle(c)
    /\ report' = Without(report, c)
    /\ opening' = Without(opening, c)
    /\ UNCHANGED <<clock, fill, snap, answers>>

LedgerNext ==
    \/ \E c \in Slots, o \in Ops, a \in Accounts, x \in Trades, v \in Entrances :
          BeginReport(c, o, a, x, v)
    \/ \E c \in Slots : \/ SettleKnown(c) \/ StampReport(c) \/ InsertReport(c)
                        \/ RaiseIntegrityError(c) \/ ReplyCreated(c)
                        \/ InsertOpening(c) \/ AbortLedger(c)
    \/ \E c \in Slots, a \in Accounts : BeginOpen(c, a)
    \/ \E a \in Accounts, t \in HandTimes, s \in HandSources : PutBaseline(a, t, s)

LedgerSpec == LedgerInit /\ [][LedgerNext]_lvars

------------------------------------------------------------------------------
(* Properties *)

\* Rows and calls hold the columns and values the schema allows.
LedgerTypeOK ==
    /\ clock \in Times
    /\ fill \in Seq(FillRow)
    /\ snap \in [DOMAIN snap -> Sources] /\ DOMAIN snap \subseteq Accounts \X Times
    /\ report \in [DOMAIN report -> ReportCall] /\ DOMAIN report \subseteq Slots
    /\ opening \in [DOMAIN opening -> OpeningCall] /\ DOMAIN opening \subseteq Slots
    /\ created \in [Ops -> Nat]
    /\ existing \subseteq Ops \X [account : Accounts, trade : Trades]
    /\ refused \subseteq Ops \X [account : Accounts, trade : Trades]

Openings(account) == {t \in Times : <<account, t>> \in DOMAIN snap
                                    /\ snap[<<account, t>>] = "opening"}

\* Two requests that open one account at the same time, and both find it
\* unopened, leave one opening: the starting cash is not put in twice
\* (open_baseline: the guard is in the statement).
OneOpening == \A a \in Accounts : \A s, t \in Openings(a) : s = t

\* A fill reported through the form counts: no opening, whatever the order in
\* which the requests read the clock and commit, is dated at or after it and
\* hides it from the fold (fill_form's check and open_baseline's guard together).
FormFillsCount ==
    \A i \in DOMAIN fill : fill[i].via = "form" =>
        \A t \in Openings(fill[i].account) : fill[i].at > t

\* The book that the fill table is, by operation.
Booked == {fill[i].op : i \in DOMAIN fill}

RowOf(op) == CHOOSE i \in DOMAIN fill : fill[i].op = op

Promise == INSTANCE IdempotentBook
              WITH Reports <- [account : Accounts, trade : Trades],
                   book    <- [o \in Booked |-> Fields(fill[RowOf(o)])]

\* Reporting keeps the promise of IdempotentBook under races, lost answers and
\* retries: the book is the fill table by operation.
KeepsPromise == Promise!Spec

\* open_baseline's docstring: an opening must not hide existing fills from the
\* fold for good ("money vanishing"), and the statement's guard sees to it.
OpeningHidesNoFill ==
    \A i \in DOMAIN fill : \A t \in Openings(fill[i].account) : fill[i].at > t

\* fills' docstring: rowid order and created_at order agree.
RowidFollowsClock ==
    \A i, j \in DOMAIN fill : i < j => fill[i].at <= fill[j].at

=============================================================================
