------------------------- MODULE AccountLedger_proofs -------------------------
(***************************************************************************)
(* The safety properties of AccountLedger hold for every set of accounts,  *)
(* operations and trades, every number of requests and of clock readings,  *)
(* and reporting a fill implements IdempotentBook.                         *)
(*                                                                         *)
(* The argument: whatever is stamped is stamped in the past (PastOnly); an *)
(* account that has a baseline keeps one, so the form's check still holds  *)
(* when its INSERT comes (FormIsOpen), an opening is inserted into an      *)
(* account without any (the guard of the statement), and the stamp of a    *)
(* form report is drawn after every opening there is (FormStampedAfter).   *)
(* The UNIQUE on operation_id makes the row of an operation the answer to  *)
(* every retry (OneRowPerOperation, ReplyIsOwn).                           *)
(***************************************************************************)
EXTENDS AccountLedger, TLAPS

\* Nothing bears a time that the clock has not shown yet.
PastOnly ==
    /\ 0 < clock
    /\ \A i \in DOMAIN fill : fill[i].at < clock
    /\ \A a \in Accounts, t \in Times : <<a, t>> \in DOMAIN snap => t < clock
    /\ \A c \in DOMAIN report : report[c].at < clock
    /\ \A c \in DOMAIN opening : opening[c].at < clock

\* Whatever comes through the form comes to an account with a baseline.
FormIsOpen ==
    /\ \A c \in DOMAIN report : report[c].via = "form" => HasBaseline(report[c].account)
    /\ \A i \in DOMAIN fill : fill[i].via = "form" => HasBaseline(fill[i].account)

\* A report through the form that has its stamp is younger than every opening.
FormStampedAfter ==
    \A c \in DOMAIN report : report[c].via = "form" /\ report[c].stage = "insert" =>
        \A t \in Openings(report[c].account) : report[c].at > t

\* UNIQUE (operation_id)
OneRowPerOperation == \A i, j \in DOMAIN fill : fill[i].op = fill[j].op => i = j

\* Whoever is about to answer "created" inserted the row, and nobody else says so.
ReplyIsOwn ==
    /\ \A c \in DOMAIN report : report[c].stage = "reply" =>
          /\ report[c].op \in Booked
          /\ created[report[c].op] = 0
          /\ \A d \in DOMAIN report :
                report[d].stage = "reply" /\ report[d].op = report[c].op => d = c
    /\ \A o \in Ops : created[o] # 0 => o \in Booked

IInv ==
    /\ LedgerTypeOK
    /\ PastOnly
    /\ OneOpening
    /\ FormIsOpen
    /\ FormStampedAfter
    /\ FormFillsCount
    /\ OneRowPerOperation
    /\ ReplyIsOwn

------------------------------------------------------------------------------

USE MaxClockAssumption, HandAssumption, DanglingAssumption

\* A new row comes last and leaves the others where they are.
LEMMA InsertEffect ==
    ASSUME fill \in Seq(FillRow), NEW row \in FillRow, InsertFill(row)
    PROVE  /\ fill' \in Seq(FillRow)
           /\ DOMAIN fill' = DOMAIN fill \cup {Len(fill) + 1}
           /\ Len(fill) + 1 \notin DOMAIN fill
           /\ \A i \in DOMAIN fill : fill'[i] = fill[i]
           /\ fill'[Len(fill) + 1] = row
BY DEF InsertFill

LEMMA FillTyped ==
    ASSUME fill \in Seq(FillRow)
    PROVE  \A i \in DOMAIN fill : fill[i] \in FillRow /\ fill[i].account \in Accounts
                                  /\ fill[i].op \in Ops /\ fill[i].at \in Nat
<1>1. \A i \in DOMAIN fill : fill[i] \in FillRow
  OBVIOUS
<1> QED BY <1>1 DEF FillRow, Times

\* A baseline once there is replaced by a baseline at most.
LEMMA BaselineStays ==
    ASSUME snap \in [DOMAIN snap -> Sources],
           NEW a \in Accounts, NEW t \in Times, NEW s \in BaselineSources,
           PutSnapshot(a, t, s)
    PROVE  /\ \A b \in Accounts : HasBaseline(b) => HasBaseline(b)'
           /\ HasBaseline(a)'
           /\ s # "opening" => \A b \in Accounts : Openings(b)' \subseteq Openings(b)
           /\ \A b \in Accounts : Openings(b)' \subseteq Openings(b) \cup (IF b = a THEN {t} ELSE {})
<1>1. snap' = [x \in DOMAIN snap \cup {<<a, t>>} |-> IF x = <<a, t>> THEN s ELSE snap[x]]
  BY DEF PutSnapshot, With
<1>2. <<a, t>> \in DOMAIN snap' /\ snap'[<<a, t>>] = s
  BY <1>1
<1>3. t \in BaselineTimes(a)'
  BY <1>2 DEF BaselineTimes
<1>4. \A b \in Accounts : BaselineTimes(b) \subseteq BaselineTimes(b)'
  BY <1>1 DEF BaselineTimes
<1>5. \A b \in Accounts : Openings(b)' \subseteq Openings(b) \cup (IF b = a THEN {t} ELSE {})
  BY <1>1 DEF Openings
<1>6. s # "opening" => \A b \in Accounts : Openings(b)' \subseteq Openings(b)
  BY <1>1 DEF Openings
<1> QED BY <1>3, <1>4, <1>5, <1>6 DEF HasBaseline

\* An account without a baseline has no opening.
LEMMA OpeningIsBaseline == \A a : Openings(a) \subseteq BaselineTimes(a)
BY DEF Openings, BaselineTimes, BaselineSources

LEMMA InitIInv == LedgerInit => IInv
<1> SUFFICES ASSUME LedgerInit PROVE IInv
    OBVIOUS
<1>1. \A S : << >> \in [DOMAIN << >> -> S] /\ DOMAIN << >> = {} /\ << >> \in Seq(S)
    OBVIOUS
<1>2. /\ DOMAIN fill = {} /\ DOMAIN snap = {} /\ DOMAIN report = {} /\ DOMAIN opening = {}
      /\ \A o \in Ops : created[o] = 0
    BY <1>1 DEF LedgerInit
<1>3. 1 \in Times
    BY DEF Times
<1>4. LedgerTypeOK
    BY <1>1, <1>2, <1>3 DEF LedgerInit, LedgerTypeOK
<1>5. ReplyIsOwn
    BY <1>2 DEF ReplyIsOwn
<1>6. PastOnly /\ OneOpening /\ FormFillsCount
    BY <1>2 DEF LedgerInit, PastOnly, OneOpening, FormFillsCount, Openings
<1> QED BY <1>2, <1>4, <1>5, <1>6 DEF IInv, FormIsOpen, FormStampedAfter, OneRowPerOperation

\* The clock shows a time of the model and moves on.
LEMMA ClockEffect ==
    ASSUME clock \in Times, ReadClock
    PROVE  clock' \in Times /\ clock' = clock + 1
BY DEF ReadClock, Times

LEMMA NextType == LedgerTypeOK /\ [LedgerNext]_lvars => LedgerTypeOK'
<1> SUFFICES ASSUME LedgerTypeOK, [LedgerNext]_lvars PROVE LedgerTypeOK'
    OBVIOUS
<1> USE DEF LedgerTypeOK
<1>1. ASSUME NEW c \in Slots, NEW o \in Ops, NEW a \in Accounts, NEW x \in Trades,
             NEW v \in Entrances, BeginReport(c, o, a, x, v)
      PROVE  LedgerTypeOK'
  <2>1. [op |-> o, account |-> a, trade |-> x, via |-> v, at |-> 0, stage |-> "lookup"]
            \in ReportCall
    BY DEF ReportCall, Stages, Times
  <2>2. report' \in [DOMAIN report' -> ReportCall] /\ DOMAIN report' \subseteq Slots
    BY <1>1, <2>1 DEF BeginReport, With
  <2> QED BY <1>1, <2>2 DEF BeginReport, answers
<1>2. ASSUME NEW c \in Slots, SettleKnown(c) PROVE LedgerTypeOK'
  <2>1. report[c] \in ReportCall
    BY <1>2 DEF SettleKnown
  <2>2. <<report[c].op, Fields(report[c])>> \in Ops \X [account : Accounts, trade : Trades]
    BY <2>1 DEF ReportCall, Fields
  <2>3. /\ existing' \subseteq Ops \X [account : Accounts, trade : Trades]
        /\ refused' \subseteq Ops \X [account : Accounts, trade : Trades]
    BY <1>2, <2>2 DEF SettleKnown, Settle
  <2>4. report' \in [DOMAIN report' -> ReportCall] /\ DOMAIN report' \subseteq Slots
    BY <1>2 DEF SettleKnown, Without
  <2> QED BY <1>2, <2>3, <2>4 DEF SettleKnown
<1>3. ASSUME NEW c \in Slots, StampReport(c) PROVE LedgerTypeOK'
  <2>1. clock' \in Times
    BY <1>3, ClockEffect DEF StampReport
  <2> DEFINE stamped == [report[c] EXCEPT !.at = clock, !.stage = "insert"]
  <2>2. stamped \in ReportCall
    BY <1>3 DEF StampReport, ReportCall, Stages
  <2>3. report' = [report EXCEPT ![c] = stamped]
    BY <1>3 DEF StampReport
  <2>4. report' \in [DOMAIN report' -> ReportCall] /\ DOMAIN report' \subseteq Slots
    BY <1>3, <2>2, <2>3 DEF StampReport
  <2> QED BY <1>3, <2>1, <2>4 DEF StampReport, answers
<1>4. ASSUME NEW c \in Slots, InsertReport(c) PROVE LedgerTypeOK'
  <2>1. report[c] \in ReportCall
    BY <1>4 DEF InsertReport
  <2>2. [op |-> report[c].op, account |-> report[c].account, trade |-> report[c].trade,
         at |-> report[c].at, via |-> report[c].via] \in FillRow
    BY <2>1 DEF ReportCall, FillRow
  <2>3. fill' \in Seq(FillRow)
    BY <1>4, <2>2, InsertEffect DEF InsertReport
  <2>4. PICK st \in Stages : report' = [report EXCEPT ![c].stage = st]
    BY <1>4 DEF InsertReport, Stages
  <2>5. report' \in [DOMAIN report' -> ReportCall] /\ DOMAIN report' \subseteq Slots
    BY <2>1, <2>4 DEF ReportCall
  <2> QED BY <1>4, <2>3, <2>5 DEF InsertReport, answers
<1>5. ASSUME NEW c \in Slots, RaiseIntegrityError(c) PROVE LedgerTypeOK'
  BY <1>5 DEF RaiseIntegrityError, Without, answers
<1>6. ASSUME NEW c \in Slots, ReplyCreated(c) PROVE LedgerTypeOK'
  <2>1. report[c].op \in Ops
    BY <1>6 DEF ReplyCreated, ReportCall
  <2> QED BY <1>6, <2>1 DEF ReplyCreated, Without
<1>7. ASSUME NEW c \in Slots, NEW a \in Accounts, BeginOpen(c, a) PROVE LedgerTypeOK'
  <2>1. clock' \in Times
    BY <1>7, ClockEffect DEF BeginOpen
  <2>2. opening' \in [DOMAIN opening' -> OpeningCall] /\ DOMAIN opening' \subseteq Slots
    BY <1>7 DEF BeginOpen, With, OpeningCall
  <2> QED BY <1>7, <2>1, <2>2 DEF BeginOpen, answers
<1>8. ASSUME NEW c \in Slots, InsertOpening(c) PROVE LedgerTypeOK'
  <2>1. opening[c] \in OpeningCall
    BY <1>8 DEF InsertOpening
  <2>2. snap' \in [DOMAIN snap' -> Sources] /\ DOMAIN snap' \subseteq Accounts \X Times
    BY <1>8, <2>1 DEF InsertOpening, PutSnapshot, With, OpeningCall, Sources, BaselineSources
  <2> QED BY <1>8, <2>2 DEF InsertOpening, Without, answers
<1>9. ASSUME NEW a \in Accounts, NEW t \in HandTimes, NEW s \in HandSources,
             PutBaseline(a, t, s)
      PROVE  LedgerTypeOK'
  <2>1. snap' \in [DOMAIN snap' -> Sources] /\ DOMAIN snap' \subseteq Accounts \X Times
    BY <1>9 DEF PutBaseline, PutSnapshot, With, Sources, BaselineSources
  <2> QED BY <1>9, <2>1 DEF PutBaseline, answers
<1>10. ASSUME NEW c \in Slots, AbortLedger(c) PROVE LedgerTypeOK'
  BY <1>10 DEF AbortLedger, Without, answers
<1>11. ASSUME UNCHANGED lvars PROVE LedgerTypeOK'
  BY <1>11 DEF lvars, answers
<1> QED BY <1>1, <1>2, <1>3, <1>4, <1>5, <1>6, <1>7, <1>8, <1>9, <1>10, <1>11 DEF LedgerNext

------------------------------------------------------------------------------
(* What one step can do to each table, whichever action it is *)

\* The row that a report inserts.
RowFor(c) == [op |-> report[c].op, account |-> report[c].account, trade |-> report[c].trade,
              at |-> report[c].at, via |-> report[c].via]

\* The fill table is appended to by a report that has its stamp, and by nothing else.
Appends(c) ==
    /\ c \in DOMAIN report /\ report[c].stage = "insert"
    /\ FillsOf(report[c].op) = {}
    /\ InsertFill(RowFor(c))
    /\ report' = [report EXCEPT ![c].stage = "reply"]
    /\ UNCHANGED <<clock, snap, opening, answers>>

LEMMA FillSteps ==
    ASSUME LedgerTypeOK, [LedgerNext]_lvars
    PROVE  fill' = fill \/ \E c \in Slots : Appends(c)
<1>1. ASSUME NEW c \in Slots, InsertReport(c)
      PROVE  fill' = fill \/ Appends(c)
  BY <1>1 DEF InsertReport, CanInsertFill, Appends, RowFor
<1> QED BY <1>1 DEF LedgerNext, lvars, BeginReport, SettleKnown, StampReport,
           RaiseIntegrityError, ReplyCreated, BeginOpen, InsertOpening, PutBaseline,
           AbortLedger

\* The snapshots change by an opening of an account that has neither a baseline
\* nor fills, or by a baseline put in by hand.
Opens(c) ==
    /\ c \in DOMAIN opening
    /\ ~HasBaseline(opening[c].account) /\ ~HasFills(opening[c].account)
    /\ PutSnapshot(opening[c].account, opening[c].at, "opening")

PutsByHand ==
    \E a \in Accounts, t \in Times, s \in {"manual", "broker"} : t < clock /\ PutSnapshot(a, t, s)

LEMMA SnapSteps ==
    ASSUME LedgerTypeOK, [LedgerNext]_lvars
    PROVE  \/ snap' = snap
           \/ UNCHANGED <<clock, fill, report>> /\ (PutsByHand \/ \E c \in Slots : Opens(c))
<1>1. ASSUME NEW c \in Slots, InsertOpening(c)
      PROVE  snap' = snap \/ (UNCHANGED <<clock, fill, report>> /\ Opens(c))
  BY <1>1 DEF InsertOpening, CanInsertOpening, Opens
<1>2. ASSUME NEW a \in Accounts, NEW t \in HandTimes, NEW s \in HandSources,
             PutBaseline(a, t, s)
      PROVE  UNCHANGED <<clock, fill, report>> /\ PutsByHand
  BY <1>2 DEF PutBaseline, PutsByHand
<1> QED BY <1>1, <1>2 DEF LedgerNext, lvars, BeginReport, SettleKnown, StampReport,
           InsertReport, RaiseIntegrityError, ReplyCreated, BeginOpen, AbortLedger

\* A report in progress is new, or what it was, or one stage further; it draws its
\* stamp on the way to its INSERT.
LEMMA ReportSteps ==
    ASSUME LedgerTypeOK, [LedgerNext]_lvars, NEW c \in DOMAIN report'
    PROVE  \/ /\ report'[c].stage = "lookup" /\ report'[c].at = 0
              /\ report'[c].account \in Accounts
              /\ report'[c].via = "form" => HasBaseline(report'[c].account)
           \/ /\ c \in DOMAIN report
              /\ report'[c].op = report[c].op
              /\ report'[c].account = report[c].account
              /\ report'[c].via = report[c].via
              /\ \/ report'[c] = report[c]
                 \/ /\ report'[c].stage = "insert" /\ report'[c].at = clock
                    /\ clock' = clock + 1
                 \/ report'[c].stage = "reread" /\ report'[c].at = report[c].at
                 \/ /\ report'[c].stage = "reply" /\ report'[c].at = report[c].at
                    /\ Appends(c)
<1> USE DEF LedgerTypeOK
<1>1. ASSUME NEW d \in Slots, NEW o \in Ops, NEW a \in Accounts, NEW x \in Trades,
             NEW v \in Entrances, BeginReport(d, o, a, x, v), c # d
      PROVE  c \in DOMAIN report /\ report'[c] = report[c]
  BY <1>1 DEF BeginReport, With
<1>2. ASSUME NEW o \in Ops, NEW a \in Accounts, NEW x \in Trades,
             NEW v \in Entrances, BeginReport(c, o, a, x, v)
      PROVE  /\ report'[c].stage = "lookup" /\ report'[c].at = 0
             /\ report'[c].account \in Accounts
             /\ report'[c].via = "form" => HasBaseline(report'[c].account)
  <2>1. report'[c] = [op |-> o, account |-> a, trade |-> x, via |-> v, at |-> 0,
                      stage |-> "lookup"]
    BY <1>2 DEF BeginReport, With
  <2>2. v = "form" => HasBaseline(a)
    BY <1>2 DEF BeginReport, EntranceAdmits
  <2> QED BY <2>1, <2>2
<1>3. ASSUME NEW d \in Slots, SettleKnown(d) \/ RaiseIntegrityError(d) \/ ReplyCreated(d)
                              \/ AbortLedger(d)
      PROVE  c \in DOMAIN report /\ report'[c] = report[c]
  BY <1>3 DEF SettleKnown, RaiseIntegrityError, ReplyCreated, AbortLedger, Without
<1>4. ASSUME NEW d \in Slots, StampReport(d) \/ InsertReport(d), c # d
      PROVE  c \in DOMAIN report /\ report'[c] = report[c]
  BY <1>4 DEF StampReport, InsertReport
<1>5. ASSUME StampReport(c)
      PROVE  /\ c \in DOMAIN report
             /\ report'[c] = [report[c] EXCEPT !.at = clock, !.stage = "insert"]
             /\ clock' = clock + 1
  BY <1>5, ClockEffect DEF StampReport
<1>6. ASSUME InsertReport(c)
      PROVE  /\ c \in DOMAIN report
             /\ \/ report'[c] = [report[c] EXCEPT !.stage = "reread"]
                \/ report'[c] = [report[c] EXCEPT !.stage = "reply"] /\ Appends(c)
  BY <1>6 DEF InsertReport, CanInsertFill, Appends, RowFor
<1>7. c \in DOMAIN report => report[c] \in ReportCall
  OBVIOUS
<1>8. ASSUME StampReport(c)
      PROVE  /\ c \in DOMAIN report
             /\ report'[c].op = report[c].op
             /\ report'[c].account = report[c].account
             /\ report'[c].via = report[c].via
             /\ report'[c].stage = "insert" /\ report'[c].at = clock
             /\ clock' = clock + 1
  BY <1>5, <1>7, <1>8 DEF ReportCall
<1>9. ASSUME InsertReport(c)
      PROVE  /\ c \in DOMAIN report
             /\ report'[c].op = report[c].op
             /\ report'[c].account = report[c].account
             /\ report'[c].via = report[c].via
             /\ report'[c].at = report[c].at
             /\ report'[c].stage = "reread" \/ (report'[c].stage = "reply" /\ Appends(c))
  BY <1>6, <1>7, <1>9 DEF ReportCall
<1>10. ASSUME UNCHANGED report
       PROVE  c \in DOMAIN report /\ report'[c] = report[c]
  BY <1>10
<1>11. ASSUME \/ \E d \in Slots, a \in Accounts : BeginOpen(d, a)
              \/ \E d \in Slots : InsertOpening(d)
              \/ \E a \in Accounts, t \in HandTimes, s \in HandSources : PutBaseline(a, t, s)
              \/ UNCHANGED lvars
       PROVE  UNCHANGED report
  BY <1>11 DEF BeginOpen, InsertOpening, PutBaseline, lvars
<1>12. CASE \E d \in Slots, o \in Ops, a \in Accounts, x \in Trades, v \in Entrances :
               BeginReport(d, o, a, x, v)
  <2>1. PICK d \in Slots, o \in Ops, a \in Accounts, x \in Trades, v \in Entrances :
               BeginReport(d, o, a, x, v)
    BY <1>12
  <2> QED BY <1>1, <1>2, <2>1
<1>13. CASE \E d \in Slots : StampReport(d) \/ InsertReport(d)
  <2>1. PICK d \in Slots : StampReport(d) \/ InsertReport(d)
    BY <1>13
  <2>2. CASE c # d
    BY <1>4, <2>1, <2>2
  <2>3. CASE c = d
    BY <1>8, <1>9, <2>1, <2>3
  <2> QED BY <2>2, <2>3
<1>14. CASE \E d \in Slots : SettleKnown(d) \/ RaiseIntegrityError(d) \/ ReplyCreated(d)
                             \/ AbortLedger(d)
  BY <1>3, <1>14
<1>15. CASE UNCHANGED report
  BY <1>10, <1>15
<1> QED BY <1>11, <1>12, <1>13, <1>14, <1>15 DEF LedgerNext

\* An open_baseline in progress is what it was, or has just read the clock.
LEMMA OpeningSteps ==
    ASSUME LedgerTypeOK, [LedgerNext]_lvars, NEW c \in DOMAIN opening'
    PROVE  \/ c \in DOMAIN opening /\ opening'[c] = opening[c]
           \/ opening'[c].at = clock /\ ReadClock
<1>1. ASSUME NEW d \in Slots, NEW a \in Accounts, BeginOpen(d, a)
      PROVE  \/ c \in DOMAIN opening /\ opening'[c] = opening[c]
             \/ opening'[c].at = clock /\ ReadClock
  <2>1. CASE c = d
    <3>1. opening'[c] = [account |-> a, at |-> clock]
      BY <1>1, <2>1 DEF BeginOpen, With
    <3> QED BY <1>1, <3>1 DEF BeginOpen
  <2>2. CASE c # d
    BY <1>1, <2>2 DEF BeginOpen, With
  <2> QED BY <2>1, <2>2
<1>2. ASSUME NEW d \in Slots, InsertOpening(d) \/ AbortLedger(d)
      PROVE  c \in DOMAIN opening /\ opening'[c] = opening[c]
  BY <1>2 DEF InsertOpening, AbortLedger, Without
<1>3. CASE UNCHANGED opening
  BY <1>3
<1> QED BY <1>1, <1>2, <1>3 DEF LedgerNext, lvars, BeginReport, SettleKnown, StampReport,
           InsertReport, RaiseIntegrityError, ReplyCreated, PutBaseline

------------------------------------------------------------------------------
(* The invariant is inductive *)

\* The row that a report with a stamp inserts is well typed and comes last.
LEMMA AppendEffect ==
    ASSUME LedgerTypeOK, NEW c, Appends(c)
    PROVE  /\ RowFor(c) \in FillRow
           /\ DOMAIN fill' = DOMAIN fill \cup {Len(fill) + 1}
           /\ Len(fill) + 1 \notin DOMAIN fill
           /\ \A i \in DOMAIN fill : fill'[i] = fill[i]
           /\ fill'[Len(fill) + 1] = RowFor(c)
           /\ report[c] \in ReportCall
<1>1. report[c] \in ReportCall
  BY DEF Appends, LedgerTypeOK
<1>2. RowFor(c) \in FillRow
  BY <1>1 DEF RowFor, ReportCall, FillRow
<1> QED BY <1>1, <1>2, InsertEffect DEF Appends, LedgerTypeOK

LEMMA ClockMoves == LedgerTypeOK /\ [LedgerNext]_lvars => clock' = clock \/ clock' = clock + 1
BY ClockEffect DEF LedgerTypeOK, LedgerNext, lvars, BeginReport, SettleKnown, StampReport,
   InsertReport, RaiseIntegrityError, ReplyCreated, BeginOpen, InsertOpening, PutBaseline,
   AbortLedger

LEMMA NextPast == IInv /\ [LedgerNext]_lvars => PastOnly'
<1> SUFFICES ASSUME IInv, [LedgerNext]_lvars PROVE PastOnly'
    OBVIOUS
<1>1. LedgerTypeOK /\ PastOnly /\ LedgerTypeOK'
  BY NextType DEF IInv
<1>2. clock \in Nat /\ clock' \in Nat /\ (clock' = clock \/ clock' = clock + 1)
  BY <1>1, ClockMoves DEF LedgerTypeOK, Times
<1>3. \A i \in DOMAIN fill' : fill'[i].at < clock'
  <2>1. \A i \in DOMAIN fill : fill[i].at \in Nat
    BY <1>1, FillTyped DEF LedgerTypeOK
  <2>2. CASE fill' = fill
    BY <1>1, <1>2, <2>1, <2>2 DEF PastOnly
  <2>3. CASE \E c \in Slots : Appends(c)
    <3>1. PICK c \in Slots : Appends(c)
      BY <2>3
    <3>2. report[c].at < clock /\ RowFor(c).at = report[c].at
      BY <1>1, <3>1 DEF PastOnly, Appends, RowFor
    <3>3. clock' = clock
      BY <3>1 DEF Appends
    <3> QED BY <1>1, <3>1, <3>2, <3>3, AppendEffect DEF PastOnly
  <2> QED BY <1>1, <2>2, <2>3, FillSteps
<1>4. \A a \in Accounts, t \in Times : <<a, t>> \in DOMAIN snap' => t < clock'
  <2>1. CASE snap' = snap
    BY <1>1, <1>2, <2>1 DEF PastOnly, Times
  <2>2. CASE UNCHANGED clock /\ PutsByHand
    BY <1>1, <2>2 DEF PastOnly, PutsByHand, PutSnapshot, With
  <2>3. CASE UNCHANGED clock /\ \E c \in Slots : Opens(c)
    BY <1>1, <2>3 DEF PastOnly, Opens, PutSnapshot, With
  <2> QED BY <1>1, <2>1, <2>2, <2>3, SnapSteps
<1>5. ASSUME NEW c \in DOMAIN report' PROVE report'[c].at < clock'
  <2>1. c \in DOMAIN report => report[c].at \in Nat /\ report[c].at < clock
    BY <1>1 DEF LedgerTypeOK, PastOnly, ReportCall, Times
  <2>2. 0 < clock
    BY <1>1 DEF PastOnly
  <2> QED BY <1>1, <1>2, <2>1, <2>2, ReportSteps
<1>6. ASSUME NEW c \in DOMAIN opening' PROVE opening'[c].at < clock'
  <2>1. CASE c \in DOMAIN opening /\ opening'[c] = opening[c]
    BY <1>1, <1>2, <2>1 DEF PastOnly, LedgerTypeOK, OpeningCall, Times
  <2>2. CASE opening'[c].at = clock /\ ReadClock
    BY <1>2, <2>2 DEF ReadClock
  <2>3. \/ c \in DOMAIN opening /\ opening'[c] = opening[c]
        \/ opening'[c].at = clock /\ ReadClock
    BY <1>1, OpeningSteps
  <2> QED BY <2>1, <2>2, <2>3
<1>7. 0 < clock'
  BY <1>1, <1>2 DEF PastOnly
<1> QED BY <1>3, <1>4, <1>5, <1>6, <1>7 DEF PastOnly

\* A baseline is never taken away.
LEMMA BaselineForGood ==
    ASSUME LedgerTypeOK, [LedgerNext]_lvars
    PROVE  \A a \in Accounts : HasBaseline(a) => HasBaseline(a)'
<1>1. CASE snap' = snap
  BY <1>1 DEF HasBaseline, BaselineTimes
<1>2. CASE PutsByHand
  <2>1. PICK a \in Accounts, t \in Times, s \in BaselineSources : PutSnapshot(a, t, s)
    BY <1>2 DEF PutsByHand, BaselineSources
  <2> QED BY <2>1, BaselineStays DEF LedgerTypeOK
<1>3. CASE \E c \in Slots : Opens(c)
  <2>1. PICK c \in Slots : Opens(c)
    BY <1>3
  <2>2. opening[c] \in OpeningCall
    BY <2>1 DEF Opens, LedgerTypeOK
  <2>3. opening[c].account \in Accounts /\ opening[c].at \in Times
    BY <2>2 DEF OpeningCall
  <2> QED BY <2>1, <2>3, BaselineStays DEF Opens, LedgerTypeOK, BaselineSources
<1> QED BY <1>1, <1>2, <1>3, SnapSteps

LEMMA NextFormIsOpen == IInv /\ [LedgerNext]_lvars => FormIsOpen'
<1> SUFFICES ASSUME IInv, [LedgerNext]_lvars PROVE FormIsOpen'
    OBVIOUS
<1>1. LedgerTypeOK /\ FormIsOpen /\ \A a \in Accounts : HasBaseline(a) => HasBaseline(a)'
  BY BaselineForGood DEF IInv
<1>2. \A c \in DOMAIN report' : report'[c].via = "form" =>
          report'[c].account \in Accounts /\ HasBaseline(report'[c].account)
  <2>1. \A c \in DOMAIN report : report[c].account \in Accounts
    BY <1>1 DEF LedgerTypeOK, ReportCall
  <2> QED BY <1>1, <2>1, ReportSteps DEF FormIsOpen
<1>3. \A i \in DOMAIN fill' : fill'[i].via = "form" =>
          fill'[i].account \in Accounts /\ HasBaseline(fill'[i].account)
  <2>1. CASE fill' = fill
    <3>1. \A i \in DOMAIN fill : fill[i].account \in Accounts
      BY <1>1, FillTyped DEF LedgerTypeOK
    <3> QED BY <1>1, <2>1, <3>1 DEF FormIsOpen
  <2>2. CASE \E c \in Slots : Appends(c)
    <3>1. PICK c \in Slots : Appends(c)
      BY <2>2
    <3>2. RowFor(c).via = "form" => HasBaseline(RowFor(c).account)
      BY <1>1, <3>1 DEF FormIsOpen, Appends, RowFor
    <3>3. RowFor(c).account \in Accounts
      BY <1>1, <3>1, AppendEffect DEF FillRow
    <3>4. \A i \in DOMAIN fill : fill[i].account \in Accounts
      BY <1>1, FillTyped DEF LedgerTypeOK
    <3> QED BY <1>1, <3>1, <3>2, <3>3, <3>4, AppendEffect DEF FormIsOpen
  <2> QED BY <1>1, <2>1, <2>2, FillSteps
<1> QED BY <1>1, <1>2, <1>3 DEF FormIsOpen, HasBaseline, BaselineTimes

\* One opening at most, and fills through the form younger than it.
LEMMA NextOpenings ==
    IInv /\ [LedgerNext]_lvars => OneOpening' /\ FormStampedAfter' /\ FormFillsCount'
<1> SUFFICES ASSUME IInv, [LedgerNext]_lvars
             PROVE  OneOpening' /\ FormStampedAfter' /\ FormFillsCount'
    OBVIOUS
<1> USE DEF IInv
<1>1. /\ LedgerTypeOK /\ PastOnly /\ clock \in Nat
      /\ \A i \in DOMAIN fill : fill[i].account \in Accounts
      /\ \A c \in DOMAIN report : report[c].account \in Accounts
  BY FillTyped DEF LedgerTypeOK, ReportCall, Times
<1>2. CASE snap' = snap
  <2>1. OneOpening'
    BY <1>2 DEF OneOpening, Openings
  <2>2. \A a \in Accounts : \A t \in Openings(a) : t < clock
    BY <1>1 DEF Openings, PastOnly
  <2>3. ASSUME NEW c \in DOMAIN report', report'[c].via = "form", report'[c].stage = "insert",
               NEW t \in Openings(report'[c].account)
        PROVE  report'[c].at > t
    <3>1. c \in DOMAIN report /\ report'[c].account = report[c].account
      BY <1>1, <2>3, ReportSteps
    <3>2. CASE report'[c].at = clock
      BY <1>1, <2>2, <2>3, <3>1, <3>2 DEF Openings, Times
    <3>3. CASE report'[c] = report[c]
      BY <2>3, <3>1, <3>3 DEF FormStampedAfter
    <3> QED BY <1>1, <2>3, <3>1, <3>2, <3>3, ReportSteps
  <2>4. FormStampedAfter'
    BY <1>2, <2>3 DEF FormStampedAfter, Openings
  <2>5. ASSUME NEW i \in DOMAIN fill', fill'[i].via = "form", NEW t \in Openings(fill'[i].account)
        PROVE  fill'[i].at > t
    <3>1. CASE fill' = fill
      BY <2>5, <3>1 DEF FormFillsCount
    <3>2. CASE \E c \in Slots : Appends(c)
      <4>1. PICK c \in Slots : Appends(c)
        BY <3>2
      <4>2. RowFor(c).via = "form" =>
                \A s \in Openings(RowFor(c).account) : RowFor(c).at > s
        BY <4>1 DEF FormStampedAfter, Appends, RowFor
      <4>3. i \in DOMAIN fill \/ i = Len(fill) + 1
        BY <1>1, <4>1, AppendEffect
      <4>4. CASE i \in DOMAIN fill
        <5>1. fill'[i] = fill[i]
          BY <1>1, <4>1, <4>4, AppendEffect
        <5> QED BY <2>5, <4>4, <5>1 DEF FormFillsCount
      <4>5. CASE i = Len(fill) + 1
        <5>1. fill'[i] = RowFor(c)
          BY <1>1, <4>1, <4>5, AppendEffect
        <5> QED BY <2>5, <4>2, <5>1
      <4> QED BY <4>3, <4>4, <4>5
    <3> QED BY <1>1, <3>1, <3>2, FillSteps
  <2>6. FormFillsCount'
    BY <1>2, <2>5 DEF FormFillsCount, Openings
  <2> QED BY <2>1, <2>4, <2>6
<1>3. CASE UNCHANGED <<clock, fill, report>> /\ PutsByHand
  <2>1. PICK a \in Accounts, t \in Times, s \in BaselineSources \ {"opening"} :
            PutSnapshot(a, t, s)
    BY <1>3 DEF PutsByHand, BaselineSources
  <2>2. \A b \in Accounts : Openings(b)' \subseteq Openings(b)
    BY <1>1, <2>1, BaselineStays DEF LedgerTypeOK
  <2>3. OneOpening'
    BY <2>2 DEF OneOpening
  <2>4. FormStampedAfter'
    BY <1>1, <1>3, <2>2 DEF FormStampedAfter, Openings
  <2>5. FormFillsCount'
    BY <1>1, <1>3, <2>2 DEF FormFillsCount, Openings
  <2> QED BY <2>3, <2>4, <2>5
<1>4. CASE UNCHANGED <<clock, fill, report>> /\ \E c \in Slots : Opens(c)
  <2>1. PICK c \in Slots : Opens(c)
    BY <1>4
  <2> DEFINE a == opening[c].account
             t == opening[c].at
  <2>2. a \in Accounts /\ t \in Times
    BY <1>1, <2>1 DEF Opens, LedgerTypeOK, OpeningCall
  <2>3. \A b \in Accounts : Openings(b)' \subseteq Openings(b) \cup (IF b = a THEN {t} ELSE {})
    BY <1>1, <2>1, <2>2, BaselineStays DEF Opens, LedgerTypeOK, BaselineSources
  <2>4. ~HasBaseline(a) /\ Openings(a) = {}
    BY <2>1, OpeningIsBaseline DEF Opens, HasBaseline
  <2>5. OneOpening'
    BY <2>2, <2>3, <2>4 DEF OneOpening
  <2>6. /\ \A d \in DOMAIN report : report[d].via = "form" => report[d].account # a
        /\ \A i \in DOMAIN fill : fill[i].via = "form" => fill[i].account # a
    BY <2>4 DEF FormIsOpen
  <2>7. \A b \in Accounts \ {a} : Openings(b)' \subseteq Openings(b)
    BY <2>3
  <2>8. FormStampedAfter'
    BY <1>1, <1>4, <2>6, <2>7 DEF FormStampedAfter, Openings
  <2>9. FormFillsCount'
    BY <1>1, <1>4, <2>6, <2>7 DEF FormFillsCount, Openings
  <2> QED BY <2>5, <2>8, <2>9
<1> QED BY <1>1, <1>2, <1>3, <1>4, SnapSteps

\* An operation that a report appends was in no row before.
LEMMA AppendIsNew ==
    ASSUME LedgerTypeOK, NEW c, Appends(c)
    PROVE  report[c].op \notin Booked /\ Booked' = Booked \cup {report[c].op}
<1>1. report[c].op \notin Booked
  BY DEF Appends, FillsOf, Booked
<1>2. RowFor(c).op = report[c].op
  BY DEF RowFor
<1>3. Booked' = Booked \cup {RowFor(c).op}
  BY AppendEffect DEF Booked
<1> QED BY <1>1, <1>2, <1>3

LEMMA NextOneRow == IInv /\ [LedgerNext]_lvars => OneRowPerOperation'
<1> SUFFICES ASSUME IInv, [LedgerNext]_lvars PROVE OneRowPerOperation'
    OBVIOUS
<1> USE DEF IInv
<1>1. CASE fill' = fill
  BY <1>1 DEF OneRowPerOperation
<1>2. CASE \E c \in Slots : Appends(c)
  <2>1. PICK c \in Slots : Appends(c)
    BY <1>2
  <2>2. \A i \in DOMAIN fill : fill[i].op # RowFor(c).op
    BY <2>1, AppendIsNew DEF Booked, RowFor
  <2> QED BY <2>1, <2>2, AppendEffect DEF OneRowPerOperation
<1> QED BY <1>1, <1>2, FillSteps

LEMMA NextReply == IInv /\ [LedgerNext]_lvars => ReplyIsOwn'
<1> SUFFICES ASSUME IInv, [LedgerNext]_lvars PROVE ReplyIsOwn'
    OBVIOUS
<1> USE DEF IInv
<1>1. LedgerTypeOK /\ \A c \in DOMAIN report : report[c].op \in Ops
  BY DEF LedgerTypeOK, ReportCall
<1>2. CASE \E c \in Slots : Appends(c)
  <2>1. PICK c \in Slots : Appends(c)
    BY <1>2
  <2>2. report[c].op \notin Booked /\ Booked' = Booked \cup {report[c].op} /\ created' = created
    BY <1>1, <2>1, AppendIsNew DEF Appends, answers
  <2>3. /\ DOMAIN report' = DOMAIN report
        /\ \A d \in DOMAIN report : /\ report'[d].op = report[d].op
                                    /\ d # c => report'[d] = report[d]
    <3>1. report[c] \in ReportCall
      BY <2>1, AppendEffect
    <3>2. report' = [report EXCEPT ![c] = [report[c] EXCEPT !.stage = "reply"]]
      BY <2>1 DEF Appends
    <3>3. [report[c] EXCEPT !.stage = "reply"].op = report[c].op
      BY <3>1 DEF ReportCall
    <3> QED BY <1>1, <2>1, <3>2, <3>3 DEF Appends, LedgerTypeOK
  <2>4. created[report[c].op] = 0
    BY <1>1, <2>1, <2>2 DEF ReplyIsOwn, Appends
  <2>5. \A d \in DOMAIN report \ {c} : report[d].stage = "reply" => report[d].op # report[c].op
    BY <2>2 DEF ReplyIsOwn
  <2>6. ASSUME NEW d \in DOMAIN report', report'[d].stage = "reply"
        PROVE  /\ report'[d].op \in Booked'
               /\ created'[report'[d].op] = 0
               /\ \A e \in DOMAIN report' :
                     report'[e].stage = "reply" /\ report'[e].op = report'[d].op => e = d
    BY <2>2, <2>3, <2>4, <2>5, <2>6 DEF ReplyIsOwn
  <2>7. \A o \in Ops : created'[o] # 0 => o \in Booked'
    BY <2>2 DEF ReplyIsOwn
  <2> QED BY <2>6, <2>7 DEF ReplyIsOwn
<1>3. CASE fill' = fill /\ \A c \in Slots : ~Appends(c)
  <2>1. Booked' = Booked
    BY <1>3 DEF Booked
  <2>2. ASSUME NEW d \in DOMAIN report', report'[d].stage = "reply"
        PROVE  d \in DOMAIN report /\ report'[d] = report[d]
    <3>1. d \in Slots
      BY <1>1, NextType DEF LedgerTypeOK
    <3> QED BY <1>1, <1>3, <2>2, <3>1, ReportSteps
  <2>3. CASE created' = created
    BY <2>1, <2>2, <2>3 DEF ReplyIsOwn
  <2>4. CASE \E c \in Slots : ReplyCreated(c)
    <3>1. PICK c \in Slots : ReplyCreated(c)
      BY <2>4
    <3>2. /\ c \in DOMAIN report /\ report[c].stage = "reply"
          /\ created' = [created EXCEPT ![report[c].op] = @ + 1]
          /\ c \notin DOMAIN report'
      BY <3>1 DEF ReplyCreated, Without
    <3>3. report[c].op \in Booked
      BY <3>2 DEF ReplyIsOwn
    <3>4. \A o \in Ops : o # report[c].op => created'[o] = created[o]
      BY <1>1, <3>2 DEF LedgerTypeOK
    <3>5. \A d \in DOMAIN report' : report'[d].stage = "reply" => report'[d].op # report[c].op
      BY <2>2, <3>2 DEF ReplyIsOwn
    <3> QED BY <1>1, <2>1, <2>2, <3>2, <3>3, <3>4, <3>5 DEF ReplyIsOwn
  <2>5. created' = created \/ \E c \in Slots : ReplyCreated(c)
    BY DEF LedgerNext, lvars, answers, BeginReport, SettleKnown, StampReport, InsertReport,
       RaiseIntegrityError, BeginOpen, InsertOpening, PutBaseline, AbortLedger
  <2> QED BY <2>3, <2>4, <2>5
<1> QED BY <1>1, <1>2, <1>3, FillSteps DEF Appends

LEMMA NextIInv == IInv /\ [LedgerNext]_lvars => IInv'
BY NextType, NextPast, NextFormIsOpen, NextOpenings, NextOneRow, NextReply DEF IInv

------------------------------------------------------------------------------
(* Reporting implements IdempotentBook *)

Book == [o \in Booked |-> Fields(fill[RowOf(o)])]

\* The book holds the fields of the only row of an operation.
BookIsRows ==
    \A i \in DOMAIN fill : fill[i].op \in Booked /\ Book[fill[i].op] = Fields(fill[i])

LEMMA BookOfRow == OneRowPerOperation => BookIsRows
<1> SUFFICES ASSUME OneRowPerOperation, NEW i \in DOMAIN fill
             PROVE  fill[i].op \in Booked /\ Book[fill[i].op] = Fields(fill[i])
    BY DEF BookIsRows
<1>1. fill[i].op \in Booked
  BY DEF Booked
<1>2. RowOf(fill[i].op) \in DOMAIN fill /\ fill[RowOf(fill[i].op)].op = fill[i].op
  BY DEF RowOf
<1>3. RowOf(fill[i].op) = i
  BY <1>2 DEF OneRowPerOperation
<1> QED BY <1>1, <1>3 DEF Book

\* Appending a row books its operation and leaves the rest of the book alone.
LEMMA AppendBooks ==
    ASSUME LedgerTypeOK, OneRowPerOperation, OneRowPerOperation', NEW c, Appends(c)
    PROVE  Book' = [o \in Booked \cup {report[c].op} |->
                      IF o = report[c].op THEN Fields(report[c]) ELSE Book[o]]
<1>1. report[c].op \notin Booked /\ Booked' = Booked \cup {report[c].op}
  BY AppendIsNew
<1>2. BookIsRows /\ BookIsRows'
  BY BookOfRow, PTL
<1>3. Fields(RowFor(c)) = Fields(report[c]) /\ RowFor(c).op = report[c].op
  BY DEF Fields, RowFor
<1>4. Book'[report[c].op] = Fields(report[c])
  BY <1>2, <1>3, AppendEffect DEF BookIsRows
<1>5. \A o \in Booked : Book'[o] = Book[o]
  <2> SUFFICES ASSUME NEW o \in Booked PROVE Book'[o] = Book[o]
    OBVIOUS
  <2>1. PICK i \in DOMAIN fill : fill[i].op = o
    BY DEF Booked
  <2>2. i \in DOMAIN fill' /\ fill'[i] = fill[i]
    BY <2>1, AppendEffect
  <2> QED BY <1>2, <2>1, <2>2 DEF BookIsRows
<1>6. Book' = [o \in Booked' |-> Book'[o]]
  BY DEF Book
<1> QED BY <1>1, <1>4, <1>5, <1>6

LEMMA PromiseInit == LedgerInit => Promise!Init
<1> SUFFICES ASSUME LedgerInit PROVE Promise!Init
    OBVIOUS
<1>1. DOMAIN fill = {}
  BY DEF LedgerInit
<1>2. Booked = {}
  BY <1>1 DEF Booked
<1>3. [o \in Booked |-> Fields(fill[RowOf(o)])] = << >>
  BY <1>2
<1> QED BY <1>3 DEF LedgerInit, Promise!Init

LEMMA PromiseStep ==
    IInv /\ IInv' /\ [LedgerNext]_lvars => [Promise!Next]_(Promise!bvars)
<1> SUFFICES ASSUME IInv, IInv', [LedgerNext]_lvars
             PROVE  [Promise!Next]_<<Book, created, existing, refused>>
    BY DEF Promise!bvars, Book
<1> USE DEF IInv
<1>1. BookIsRows
  BY BookOfRow
<1> DEFINE Reports == [account : Accounts, trade : Trades]
<1>2. ASSUME UNCHANGED fill PROVE UNCHANGED Book
  BY <1>2 DEF Book, Booked, RowOf
<1>3. ASSUME NEW c \in DOMAIN report
      PROVE  report[c].op \in Ops /\ Fields(report[c]) \in Reports
  BY DEF LedgerTypeOK, ReportCall, Fields
<1>4. CASE \E c \in Slots : Appends(c)
  <2>1. PICK c \in Slots : Appends(c)
    BY <1>4
  <2>2. Book' = [o \in Booked \cup {report[c].op} |->
                   IF o = report[c].op THEN Fields(report[c]) ELSE Book[o]]
    BY <2>1, AppendBooks
  <2>3. report[c].op \notin Booked
    BY <2>1, AppendIsNew
  <2>4. DOMAIN Book = Booked /\ c \in DOMAIN report /\ UNCHANGED <<created, existing, refused>>
    BY <2>1 DEF Book, Appends, answers
  <2>5. Promise!Book(report[c].op, Fields(report[c]))
    BY <2>2, <2>3, <2>4 DEF Promise!Book, Book
  <2> QED BY <1>3, <2>4, <2>5 DEF Promise!Next
<1>5. CASE UNCHANGED fill /\ \E c \in Slots : SettleKnown(c)
  <2>1. PICK c \in Slots : SettleKnown(c)
    BY <1>5
  <2>2. c \in DOMAIN report /\ UNCHANGED <<Book, created>>
    BY <1>2, <1>5, <2>1 DEF SettleKnown
  <2>3. PICK i \in DOMAIN fill : fill[i].op = report[c].op
    BY <2>1 DEF SettleKnown, FillsOf
  <2>4. FillsOf(report[c].op) = {i}
    BY <2>3 DEF FillsOf, OneRowPerOperation
  <2>5. report[c].op \in DOMAIN Book /\ Book[report[c].op] = Fields(fill[i])
    BY <1>1, <2>3 DEF BookIsRows, Book
  <2>6. CASE Fields(fill[i]) = Fields(report[c])
    <3>1. existing' = existing \cup {<<report[c].op, Fields(report[c])>>} /\ UNCHANGED refused
      BY <2>1, <2>4, <2>6 DEF SettleKnown, Settle
    <3>2. Promise!AnswerExisting(report[c].op, Fields(report[c]))
      BY <2>2, <2>5, <2>6, <3>1 DEF Promise!AnswerExisting, Book
    <3> QED BY <1>3, <2>2, <3>2 DEF Promise!Next
  <2>7. CASE Fields(fill[i]) # Fields(report[c])
    <3>1. refused' = refused \cup {<<report[c].op, Fields(report[c])>>} /\ UNCHANGED existing
      BY <2>1, <2>4, <2>7 DEF SettleKnown, Settle
    <3>2. Promise!Refuse(report[c].op, Fields(report[c]))
      BY <2>2, <2>5, <2>7, <3>1 DEF Promise!Refuse, Book
    <3> QED BY <1>3, <2>2, <3>2 DEF Promise!Next
  <2> QED BY <2>6, <2>7
<1>6. CASE UNCHANGED fill /\ \E c \in Slots : ReplyCreated(c)
  <2>1. PICK c \in Slots : ReplyCreated(c)
    BY <1>6
  <2>2. /\ c \in DOMAIN report /\ report[c].stage = "reply" /\ UNCHANGED <<Book, existing, refused>>
        /\ created' = [created EXCEPT ![report[c].op] = @ + 1]
    BY <1>2, <1>6, <2>1 DEF ReplyCreated
  <2>3. report[c].op \in DOMAIN Book /\ created[report[c].op] = 0
    BY <2>2 DEF ReplyIsOwn, Book
  <2>4. Promise!AnswerCreated(report[c].op)
    BY <2>2, <2>3 DEF Promise!AnswerCreated, Book
  <2> QED BY <1>3, <2>2, <2>4 DEF Promise!Next
<1>7. CASE UNCHANGED <<fill, answers>>
  BY <1>2, <1>7 DEF answers
<1>8. \/ UNCHANGED <<fill, answers>>
      \/ UNCHANGED fill /\ \E c \in Slots : SettleKnown(c) \/ ReplyCreated(c)
      \/ \E c \in Slots : Appends(c)
  <2>1. ASSUME UNCHANGED fill
        PROVE  UNCHANGED answers \/ \E c \in Slots : SettleKnown(c) \/ ReplyCreated(c)
    BY DEF LedgerNext, lvars, answers, BeginReport, StampReport, InsertReport,
       RaiseIntegrityError, BeginOpen, InsertOpening, PutBaseline, AbortLedger
  <2> QED BY <2>1, FillSteps
<1> QED BY <1>4, <1>5, <1>6, <1>7, <1>8

------------------------------------------------------------------------------
(* The theorems *)

\* The invariant behind the properties below holds.
THEOREM Invariance == LedgerSpec => []IInv
BY InitIInv, NextIInv, PTL DEF LedgerSpec

\* Rows and calls are well typed, for any number of requests.
THEOREM TypeCorrect == LedgerSpec => []LedgerTypeOK
<1>1. IInv => LedgerTypeOK
  BY DEF IInv
<1> QED BY <1>1, Invariance, PTL

\* Two requests that open one account leave one opening.
THEOREM OpenedOnce == LedgerSpec => []OneOpening
<1>1. IInv => OneOpening
  BY DEF IInv
<1> QED BY <1>1, Invariance, PTL

\* No opening hides a fill that came through the form.
THEOREM FormFillsAreFolded == LedgerSpec => []FormFillsCount
<1>1. IInv => FormFillsCount
  BY DEF IInv
<1> QED BY <1>1, Invariance, PTL

\* Reporting fills implements IdempotentBook: an operation is booked once and
\* answered from what is booked, whatever is lost, repeated or raced.
THEOREM ReportingIsIdempotent == LedgerSpec => KeepsPromise
<1>1. LedgerInit => Promise!Init
  BY PromiseInit
<1>2. IInv /\ IInv' /\ [LedgerNext]_lvars => [Promise!Next]_(Promise!bvars)
  BY PromiseStep
<1> QED BY <1>1, <1>2, Invariance, PTL DEF LedgerSpec, KeepsPromise, Promise!Spec
=============================================================================
