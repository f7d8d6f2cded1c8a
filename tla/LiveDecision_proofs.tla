------------------------- MODULE LiveDecision_proofs -------------------------
(***************************************************************************)
(* Whatever other requests do to the ledger meanwhile, a run() freezes a   *)
(* complete account and leaves a record of its outcome, for any number of  *)
(* runs, requests, accounts, fills and baselines put in by hand.           *)
(*                                                                         *)
(* The argument: nobody else writes the row of a run, so its status is the *)
(* place of its run() (RowFollowsCall).  Fills are only appended, so those *)
(* that were booked when frozen_at was read are there when the fold reads  *)
(* fills, and each is after the baseline it has read before or not         *)
(* (FoldIsComplete).                                                       *)
(***************************************************************************)
EXTENDS LiveDecision, AccountLedger_proofs, DataLemmas

\* The status of a run is what its run() has written so far.
RowFollowsCall ==
    \A r \in DOMAIN call :
        /\ call[r].stage \in {"baseline", "fills", "snapshot", "create"} => r \notin DOMAIN run
        /\ call[r].stage \notin {"baseline", "fills", "snapshot", "create", "lost"} =>
              r \in DOMAIN run
        /\ call[r].stage = "start" => run[r].status = "pending"
        /\ call[r].stage \in {"observe", "answer", "fail", "fingerprint", "finish"} =>
              run[r].status = "running"
        /\ call[r].stage = "finish" => run[r].fingerprint
        /\ call[r].stage = "returned" => run[r].status \in Terminal

SuccessNamesPrompt == \A r \in DOMAIN run : run[r].status = "succeeded" => run[r].fingerprint

\* The fold is done.
HasFolded(r) == call[r].stage \in {"snapshot", "create"} \/ r \in DOMAIN run

\* The fills that were booked before are in the fold, or under its baseline.
FoldIsComplete ==
    \A r \in DOMAIN call :
        /\ call[r].known <= Len(fill)
        /\ call[r].base # NoBaseline => call[r].source \in BaselineSources
        /\ HasFolded(r) =>
              \A i \in 1 .. call[r].known : fill[i].account = call[r].account =>
                  i \in call[r].fills \/ fill[i].at <= call[r].base

RowNamesAccount == \A r \in DOMAIN run : run[r].account = call[r].account

DInv ==
    /\ DecisionTypeOK
    /\ RowFollowsCall
    /\ SuccessNamesPrompt
    /\ FoldIsComplete
    /\ RowNamesAccount

Early == {"baseline", "fills", "snapshot", "create"}

------------------------------------------------------------------------------
(* What moves, and what stays *)

\* The ledger keeps its type, and fills are only appended.
LEMMA LedgerEffect ==
    ASSUME LedgerTypeOK, [LedgerNext]_lvars
    PROVE  /\ LedgerTypeOK'
           /\ Len(fill) <= Len(fill)'
           /\ \A i \in 1 .. Len(fill) : fill'[i] = fill[i]
<1>1. LedgerTypeOK'
  BY NextType
<1>2. fill' = fill \/ \E row \in FillRow : InsertFill(row)
  <2>1. ASSUME NEW c \in Slots, InsertReport(c)
        PROVE  fill' = fill \/ \E row \in FillRow : InsertFill(row)
    <3>1. report[c] \in ReportCall
      BY <2>1 DEF LedgerTypeOK, InsertReport
    <3>2. [op |-> report[c].op, account |-> report[c].account, trade |-> report[c].trade,
           at |-> report[c].at, via |-> report[c].via] \in FillRow
      BY <3>1 DEF ReportCall, FillRow
    <3> QED BY <2>1, <3>2 DEF InsertReport
  <2>2. CASE ~ \E c \in Slots : InsertReport(c)
    <3>1. ASSUME LedgerNext PROVE fill' = fill
      BY <2>2, <3>1 DEF LedgerNext, BeginReport, SettleKnown, StampReport, RaiseIntegrityError,
         ReplyCreated, BeginOpen, InsertOpening, PutBaseline, AbortLedger
    <3> QED BY <3>1 DEF lvars
  <2> QED BY <2>1, <2>2
<1>3. fill \in Seq(FillRow)
  BY DEF LedgerTypeOK
<1>4. ASSUME NEW row \in FillRow, InsertFill(row)
      PROVE  Len(fill) <= Len(fill)' /\ \A i \in 1 .. Len(fill) : fill'[i] = fill[i]
  BY <1>3, <1>4 DEF InsertFill
<1> QED BY <1>1, <1>2, <1>3, <1>4

\* What a run() knows, its stage left aside.
Kept(r) ==
    /\ call'[r].account = call[r].account /\ call'[r].day = call[r].day
    /\ call'[r].as_of = call[r].as_of /\ call'[r].base = call[r].base
    /\ call'[r].source = call[r].source /\ call'[r].fills = call[r].fills
    /\ call'[r].known = call[r].known

LEMMA GoEffect ==
    ASSUME call \in [DOMAIN call -> RunCall], NEW r \in DOMAIN call, NEW s \in RunStages,
           Go(r, s)
    PROVE  /\ call' \in [DOMAIN call -> RunCall] /\ DOMAIN call' = DOMAIN call
           /\ call'[r].stage = s
           /\ \A q \in DOMAIN call : q # r => call'[q] = call[q]
           /\ \A q \in DOMAIN call : Kept(q)
<1>1. call' = [call EXCEPT ![r] = [call[r] EXCEPT !.stage = s]]
  BY DEF Go
<1>2. [call[r] EXCEPT !.stage = s] \in RunCall
  BY DEF RunCall
<1>3. /\ call' \in [DOMAIN call -> RunCall] /\ DOMAIN call' = DOMAIN call
      /\ \A q \in DOMAIN call : q # r => call'[q] = call[q]
      /\ call'[r] = [call[r] EXCEPT !.stage = s]
  BY <1>1, <1>2
<1>4. call[r] \in RunCall
  OBVIOUS
<1>5. call'[r].stage = s /\ Kept(r)
  BY <1>3, <1>4 DEF RunCall, Kept
<1> QED BY <1>3, <1>5 DEF Kept

Row == RowsOver(FrozenContext)

\* UPDATE ... SET status: account, context and fingerprint of the row stay.
LEMMA StatusEffect ==
    ASSUME run \in [DOMAIN run -> Row], NEW r \in DOMAIN run, NEW target \in Statuses,
           NEW package \in Packages, UpdateStatus(r, target, package)
    PROVE  /\ run' \in [DOMAIN run -> Row] /\ DOMAIN run' = DOMAIN run
           /\ run'[r].status = target
           /\ \A q \in DOMAIN run : q # r => run'[q] = run[q]
           /\ \A q \in DOMAIN run : /\ run'[q].account = run[q].account
                                    /\ run'[q].ctx = run[q].ctx
                                    /\ run'[q].fingerprint = run[q].fingerprint
<1> DEFINE p == IF target = "succeeded" THEN package ELSE run[r].parsed
           new == [[run[r] EXCEPT !.status = target] EXCEPT !.parsed = p]
<1>1. run[r] \in Row
  OBVIOUS
<1>2. p \in Packages
  BY <1>1 DEF Row, RowsOver
<1>3. /\ new \in Row /\ new.status = target
      /\ new.account = run[r].account /\ new.ctx = run[r].ctx
      /\ new.fingerprint = run[r].fingerprint
  <2> HIDE DEF p
  <2> QED BY <1>1, <1>2 DEF Row, RowsOver
<1>4. run' = [run EXCEPT ![r] = new]
  BY <1>1 DEF UpdateStatus, Row, RowsOver
<1> HIDE DEF new
<1>5. /\ run' \in [DOMAIN run -> Row] /\ DOMAIN run' = DOMAIN run /\ run'[r] = new
      /\ \A q \in DOMAIN run : q # r => run'[q] = run[q]
  BY <1>3, <1>4
<1> QED BY <1>3, <1>5

\* UPDATE ... SET prompt_fingerprint: nothing else of the row changes.
LEMMA FingerprintEffect ==
    ASSUME run \in [DOMAIN run -> Row], NEW r \in DOMAIN run, SetPromptFingerprint(r)
    PROVE  /\ run' \in [DOMAIN run -> Row] /\ DOMAIN run' = DOMAIN run
           /\ run'[r].fingerprint
           /\ \A q \in DOMAIN run : q # r => run'[q] = run[q]
           /\ \A q \in DOMAIN run : /\ run'[q].account = run[q].account
                                    /\ run'[q].ctx = run[q].ctx
                                    /\ run'[q].status = run[q].status
<1> DEFINE new == [run[r] EXCEPT !.fingerprint = TRUE]
<1>1. run[r] \in Row
  OBVIOUS
<1>2. /\ new \in Row /\ new.fingerprint
      /\ new.account = run[r].account /\ new.ctx = run[r].ctx /\ new.status = run[r].status
  BY <1>1 DEF Row, RowsOver
<1>3. run' = [run EXCEPT ![r] = new]
  BY DEF SetPromptFingerprint
<1> HIDE DEF new
<1>4. /\ run' \in [DOMAIN run -> Row] /\ DOMAIN run' = DOMAIN run /\ run'[r] = new
      /\ \A q \in DOMAIN run : q # r => run'[q] = run[q]
  BY <1>2, <1>3
<1> QED BY <1>2, <1>4

\* A fold that was complete stays complete while fills are appended.
LEMMA FoldKept ==
    ASSUME FoldIsComplete, call \in [DOMAIN call -> RunCall], DOMAIN call' = DOMAIN call,
           \A q \in DOMAIN call : Kept(q) /\ (HasFolded(q)' => HasFolded(q)),
           Len(fill) \in Nat, Len(fill)' \in Nat, Len(fill) <= Len(fill)',
           \A i \in 1 .. Len(fill) : fill'[i] = fill[i]
    PROVE  FoldIsComplete'
<1> SUFFICES ASSUME NEW q \in DOMAIN call
             PROVE  /\ call'[q].known <= Len(fill)'
                    /\ call'[q].base # NoBaseline => call'[q].source \in BaselineSources
                    /\ HasFolded(q)' =>
                          \A i \in 1 .. call'[q].known : fill'[i].account = call'[q].account =>
                              i \in call'[q].fills \/ fill'[i].at <= call'[q].base
    BY DEF FoldIsComplete
<1>1. Kept(q) /\ call[q].known \in Nat /\ call[q].known <= Len(fill)
  BY DEF RunCall, FoldIsComplete
<1>2. call'[q].known <= Len(fill)'
  BY <1>1 DEF Kept
<1>3. call'[q].base # NoBaseline => call'[q].source \in BaselineSources
  BY <1>1 DEF Kept, FoldIsComplete
<1>4. ASSUME HasFolded(q)', NEW i \in 1 .. call'[q].known, fill'[i].account = call'[q].account
      PROVE  i \in call'[q].fills \/ fill'[i].at <= call'[q].base
  <2>1. i \in 1 .. call[q].known /\ i \in 1 .. Len(fill) /\ fill'[i] = fill[i]
    BY <1>1, <1>4 DEF Kept
  <2>2. i \in call[q].fills \/ fill[i].at <= call[q].base
    BY <1>1, <1>4, <2>1 DEF Kept, FoldIsComplete
  <2> QED BY <1>1, <2>1, <2>2 DEF Kept
<1> QED BY <1>2, <1>3, <1>4

------------------------------------------------------------------------------
(* The steps of run() *)

\* The row of r, if any, is what a run() at this stage has written.
RowAt(r, stage) ==
    /\ stage \in Early => r \notin DOMAIN run
    /\ stage \notin Early \cup {"lost"} => r \in DOMAIN run
    /\ stage = "start" => run[r].status = "pending"
    /\ stage \in {"observe", "answer", "fail", "fingerprint", "finish"} => run[r].status = "running"
    /\ stage = "finish" => run[r].fingerprint
    /\ stage = "returned" => run[r].status \in Terminal

LEMMA RowsFollow == RowFollowsCall <=> \A r \in DOMAIN call : RowAt(r, call[r].stage)
BY DEF RowFollowsCall, RowAt, Early

\* Any step that takes the run() of r to another stage, and of its row changes
\* the status and the fingerprint at most.
LEMMA StageStep ==
    ASSUME DInv, LedgerTypeOK', Len(fill) <= Len(fill)',
           \A i \in 1 .. Len(fill) : fill'[i] = fill[i],
           NEW r \in DOMAIN call,
           call' \in [DOMAIN call -> RunCall],
           \A q \in DOMAIN call : q # r => call'[q] = call[q],
           \A q \in DOMAIN call : Kept(q),
           run' \in [DOMAIN run -> Row],
           \A q \in DOMAIN run : q # r => run'[q] = run[q],
           \A q \in DOMAIN run : run'[q].account = run[q].account /\ run'[q].ctx = run[q].ctx,
           call'[r].stage \in {"snapshot", "create"} => call[r].stage \in {"snapshot", "create"},
           RowAt(r, call[r].stage)',
           r \in DOMAIN run /\ run'[r].status = "succeeded" => run'[r].fingerprint
    PROVE  DInv'
<1>1. DOMAIN call' = DOMAIN call /\ DOMAIN run' = DOMAIN run
  OBVIOUS
<1>2. DecisionTypeOK'
  <2>1. \A q \in DOMAIN run : q \in DOMAIN call /\ run'[q].ctx = ContextOf(q)
    BY DEF DInv, DecisionTypeOK
  <2>2. \A q \in DOMAIN run : ContextOf(q)' = ContextOf(q)
    BY <2>1 DEF ContextOf, Kept
  <2> QED BY <1>1, <2>1, <2>2 DEF DInv, DecisionTypeOK, Row
<1>3. RowFollowsCall'
  <2>1. ASSUME NEW q \in DOMAIN call, q # r PROVE RowAt(q, call[q].stage)'
    <3>1. RowAt(q, call[q].stage) /\ call'[q] = call[q]
      BY <2>1, RowsFollow DEF DInv
    <3>2. q \in DOMAIN run => run'[q] = run[q]
      BY <2>1
    <3> QED BY <1>1, <3>1, <3>2 DEF RowAt, Early
  <2>2. \A q \in DOMAIN call' : RowAt(q, call[q].stage)'
    BY <1>1, <2>1
  <2> QED BY <1>1, <2>2 DEF RowFollowsCall, RowAt, Early
<1>4. SuccessNamesPrompt'
  BY <1>1 DEF DInv, SuccessNamesPrompt
<1>5. FoldIsComplete'
  <2>1. \A q \in DOMAIN call : HasFolded(q)' => HasFolded(q)
    BY <1>1 DEF HasFolded
  <2>2. Len(fill) \in Nat /\ Len(fill)' \in Nat
    BY DEF DInv, DecisionTypeOK, LedgerTypeOK
  <2> QED BY <1>1, <2>1, <2>2, FoldKept DEF DInv, DecisionTypeOK
<1>6. RowNamesAccount'
  BY <1>1 DEF DInv, RowNamesAccount, DecisionTypeOK, Kept
<1> QED BY <1>2, <1>3, <1>4, <1>5, <1>6 DEF DInv

\* Where nothing happens to the ledger, it is what it was.
LEMMA LedgerStays ==
    ASSUME DInv, UNCHANGED lvars
    PROVE  /\ LedgerTypeOK' /\ Len(fill) <= Len(fill)'
           /\ \A i \in 1 .. Len(fill) : fill'[i] = fill[i]
BY LedgerEffect DEF DInv, DecisionTypeOK

\* The row of a run() before a step, and the type of what it knows.
LEMMA AtStage ==
    ASSUME DInv, NEW r, NEW stage, At(r, stage)
    PROVE  /\ r \in DOMAIN call /\ call[r] \in RunCall /\ call[r].stage = stage
           /\ RowAt(r, stage)
           /\ call \in [DOMAIN call -> RunCall] /\ run \in [DOMAIN run -> Row]
BY RowsFollow DEF DInv, DecisionTypeOK, At, Row

LEMMA StepBeginRun ==
    ASSUME DInv, NEW r \in Runs, NEW a \in Accounts, NEW d \in Days, BeginRun(r, a, d)
    PROVE  DInv'
<1> DEFINE row == [account |-> a, day |-> d, stage |-> "baseline",
                   as_of |-> clock, base |-> NoBaseline, source |-> NoSource,
                   fills |-> {}, prompted |-> FALSE, package |-> << >>, known |-> Len(fill)]
<1>1. clock \in Times /\ fill \in Seq(FillRow) /\ LedgerTypeOK /\ r \notin DOMAIN call
  BY DEF DInv, DecisionTypeOK, LedgerTypeOK, BeginRun
<1>2. row \in RunCall
  BY <1>1, EmptyPackage DEF RunCall, RunStages, Ended, Bases, BaseSources
<1>3. call' = With(call, r, row) /\ fill' = fill /\ run' = run
  BY DEF BeginRun, tables
<1>4. /\ DOMAIN call' = DOMAIN call \cup {r} /\ call'[r] = row
      /\ \A q \in DOMAIN call : call'[q] = call[q]
      /\ call' \in [DOMAIN call' -> RunCall]
  BY <1>1, <1>2, <1>3 DEF With, DInv, DecisionTypeOK
<1>5. LedgerTypeOK'
  <2>1. clock' \in Times
    BY <1>1, ClockEffect DEF BeginRun
  <2> QED BY <1>1, <2>1 DEF BeginRun, LedgerTypeOK, ledgerCalls, answers
<1>6. \A q \in DOMAIN run : q \in DOMAIN call /\ q # r /\ ContextOf(q)' = ContextOf(q)
  BY <1>1, <1>4 DEF DInv, DecisionTypeOK, ContextOf
<1>7. DecisionTypeOK'
  BY <1>3, <1>4, <1>5, <1>6 DEF DInv, DecisionTypeOK, Row
<1>8. RowFollowsCall'
  <2>1. row.stage = "baseline" /\ r \notin DOMAIN run
    BY <1>6
  <2> HIDE DEF row
  <2>2. \A q \in DOMAIN call' : q = r \/ (q \in DOMAIN call /\ call'[q] = call[q])
    BY <1>4
  <2>3. RowFollowsCall
    BY DEF DInv
  <2> QED BY <1>3, <1>4, <2>1, <2>2, <2>3 DEF RowFollowsCall
<1>9. SuccessNamesPrompt' /\ RowNamesAccount'
  BY <1>3, <1>4, <1>6 DEF DInv, SuccessNamesPrompt, RowNamesAccount
<1>10. FoldIsComplete'
  <2>1. row.known = Len(fill) /\ row.base = NoBaseline /\ row.stage = "baseline"
    OBVIOUS
  <2>2. r \notin DOMAIN run' /\ Len(fill) <= Len(fill)
    BY <1>1, <1>3, <1>6
  <2> HIDE DEF row
  <2>3. /\ call'[r].known <= Len(fill)' /\ call'[r].base = NoBaseline /\ ~ HasFolded(r)'
    BY <1>3, <1>4, <2>1, <2>2 DEF HasFolded
  <2>4. \A q \in DOMAIN call : HasFolded(q)' => HasFolded(q)
    BY <1>3, <1>4 DEF HasFolded
  <2> QED BY <1>3, <1>4, <2>3, <2>4 DEF DInv, FoldIsComplete
<1> QED BY <1>7, <1>8, <1>9, <1>10 DEF DInv

\* latest_baseline selects a row that is a baseline.
LEMMA LatestIsABaseline ==
    ASSUME NEW account \in Accounts, HasBaseline(account)
    PROVE  /\ LatestBaseline(account) \in Times
           /\ snap[<<account, LatestBaseline(account)>>] \in BaselineSources
<1>1. BaselineTimes(account) \subseteq 0 .. MaxClock /\ BaselineTimes(account) # {}
  BY DEF BaselineTimes, HasBaseline, Times
<1>2. Max(BaselineTimes(account)) \in BaselineTimes(account)
  BY <1>1, GreatestElement, MaxClockAssumption
<1> QED BY <1>2 DEF LatestBaseline, BaselineTimes

LEMMA StepFoldBaseline ==
    ASSUME DInv, NEW r \in Runs, FoldBaseline(r)
    PROVE  DInv'
<1>1. /\ r \in DOMAIN call /\ call[r] \in RunCall /\ call[r].stage = "baseline"
      /\ RowAt(r, "baseline")
      /\ call \in [DOMAIN call -> RunCall] /\ run \in [DOMAIN run -> Row]
  BY AtStage DEF FoldBaseline
<1>2. /\ LedgerTypeOK' /\ Len(fill) <= Len(fill)'
      /\ \A i \in 1 .. Len(fill) : fill'[i] = fill[i]
      /\ run' = run /\ fill' = fill
  BY LedgerStays DEF FoldBaseline, tables, lvars
<1>3. CASE Go(r, "fills")
  <2>1. /\ call' \in [DOMAIN call -> RunCall] /\ call'[r].stage = "fills"
        /\ \A q \in DOMAIN call : q # r => call'[q] = call[q]
        /\ \A q \in DOMAIN call : Kept(q)
    <3>1. "fills" \in RunStages
      BY DEF RunStages
    <3> QED BY <1>1, <1>3, <3>1, GoEffect
  <2>2. RowAt(r, call[r].stage)'
    BY <1>1, <1>2, <2>1 DEF RowAt, Early
  <2> QED BY <1>1, <1>2, <2>1, <2>2, StageStep DEF RowAt, Early
<1>4. CASE HasBaseline(call[r].account) /\ ~ Go(r, "fills")
  <2> DEFINE t == LatestBaseline(call[r].account)
             src == snap[<<call[r].account, t>>]
             new == [[[call[r] EXCEPT !.stage = "fills"] EXCEPT !.base = t] EXCEPT !.source = src]
  <2>1. t \in Times /\ src \in BaselineSources
    BY <1>1, <1>4, LatestIsABaseline DEF RunCall
  <2>2. call' = [call EXCEPT ![r] = new]
    BY <1>1, <1>4 DEF FoldBaseline, RunCall
  <2>3. /\ new \in RunCall /\ new.stage = "fills" /\ new.known = call[r].known
        /\ new.account = call[r].account /\ new.base = t /\ new.source = src
    <3> HIDE DEF t, src
    <3> QED BY <1>1, <2>1 DEF RunCall, RunStages, Bases, BaseSources, Sources
  <2> HIDE DEF new, t, src
  <2>4. /\ DOMAIN call' = DOMAIN call /\ call'[r] = new
        /\ \A q \in DOMAIN call : q # r => call'[q] = call[q]
        /\ call' \in [DOMAIN call' -> RunCall]
    BY <1>1, <2>2, <2>3
  <2>5. \A q \in DOMAIN run : q # r /\ q \in DOMAIN call /\ ContextOf(q)' = ContextOf(q)
    BY <1>1, <2>4 DEF ContextOf, RowAt, Early, DInv, DecisionTypeOK
  <2>6. DecisionTypeOK'
    BY <1>2, <2>4, <2>5 DEF DInv, DecisionTypeOK, Row
  <2>7. RowFollowsCall'
    BY <1>1, <1>2, <2>3, <2>4 DEF DInv, RowFollowsCall, RowAt, Early
  <2>8. SuccessNamesPrompt' /\ RowNamesAccount'
    BY <1>2, <2>4, <2>5 DEF DInv, SuccessNamesPrompt, RowNamesAccount
  <2>9. FoldIsComplete'
    <3>1. ~ HasFolded(r)' /\ call'[r].known <= Len(fill)' /\ call'[r].source \in BaselineSources
      BY <1>1, <1>2, <2>1, <2>3, <2>4 DEF HasFolded, RowAt, Early, DInv, FoldIsComplete
    <3>2. \A q \in DOMAIN call : HasFolded(q)' => HasFolded(q)
      BY <1>2, <2>4, <3>1 DEF HasFolded
    <3> QED BY <1>2, <2>4, <3>1, <3>2 DEF DInv, FoldIsComplete
  <2> QED BY <2>6, <2>7, <2>8, <2>9 DEF DInv
<1> QED BY <1>3, <1>4 DEF FoldBaseline

\* Every fill that was booked before is after the baseline, and found, or not.
LEMMA StepFoldFills ==
    ASSUME DInv, NEW r \in Runs, FoldFills(r)
    PROVE  DInv'
<1> DEFINE new == [[call[r] EXCEPT !.stage = "snapshot"] EXCEPT !.fills = Folded(r)]
<1>1. /\ r \in DOMAIN call /\ call[r] \in RunCall /\ call[r].stage = "fills"
      /\ RowAt(r, "fills")
      /\ call \in [DOMAIN call -> RunCall] /\ run \in [DOMAIN run -> Row]
  BY AtStage DEF FoldFills
<1>2. LedgerTypeOK' /\ run' = run /\ fill' = fill /\ fill \in Seq(FillRow)
  BY LedgerStays DEF FoldFills, tables, lvars, DInv, DecisionTypeOK, LedgerTypeOK
<1>3. Folded(r) \subseteq Nat
  BY <1>2 DEF Folded, FillsAfter
<1>4. call' = [call EXCEPT ![r] = new]
  BY <1>1 DEF FoldFills, RunCall
<1>5. /\ new \in RunCall /\ new.stage = "snapshot" /\ new.known = call[r].known
      /\ new.account = call[r].account /\ new.base = call[r].base
      /\ new.source = call[r].source /\ new.fills = Folded(r)
  BY <1>1, <1>3 DEF RunCall, RunStages
<1> HIDE DEF new
<1>6. /\ DOMAIN call' = DOMAIN call /\ call'[r] = new
      /\ \A q \in DOMAIN call : q # r => call'[q] = call[q]
      /\ call' \in [DOMAIN call' -> RunCall]
  BY <1>1, <1>4, <1>5
<1>7. \A q \in DOMAIN run : q # r /\ q \in DOMAIN call /\ ContextOf(q)' = ContextOf(q)
  BY <1>1, <1>6 DEF ContextOf, RowAt, Early, DInv, DecisionTypeOK
<1>8. DecisionTypeOK'
  BY <1>2, <1>6, <1>7 DEF DInv, DecisionTypeOK, Row
<1>9. RowFollowsCall'
  BY <1>1, <1>2, <1>5, <1>6 DEF DInv, RowFollowsCall, RowAt, Early
<1>10. SuccessNamesPrompt' /\ RowNamesAccount'
  BY <1>2, <1>6, <1>7 DEF DInv, SuccessNamesPrompt, RowNamesAccount
<1>11. FoldIsComplete'
  <2>1. /\ call[r].known \in Nat /\ call[r].known <= Len(fill)
        /\ call[r].base # NoBaseline => call[r].source \in BaselineSources
    BY <1>1 DEF DInv, FoldIsComplete, RunCall
  <2>2. ASSUME NEW i \in 1 .. call[r].known, fill[i].account = call[r].account
        PROVE  i \in Folded(r) \/ fill[i].at <= call[r].base
    <3>1. i \in DOMAIN fill
      BY <1>2, <2>1
    <3>2. fill[i].at \in Int /\ call[r].base \in Int
      BY <1>1, <1>2, <3>1, FillTyped DEF RunCall, Bases, Times, NoBaseline
    <3> QED BY <2>2, <3>1, <3>2 DEF Folded, FillsAfter
  <2>3. /\ call'[r].known <= Len(fill)'
        /\ call'[r].base # NoBaseline => call'[r].source \in BaselineSources
        /\ \A i \in 1 .. call'[r].known : fill'[i].account = call'[r].account =>
                i \in call'[r].fills \/ fill'[i].at <= call'[r].base
    BY <1>2, <1>5, <1>6, <2>1, <2>2
  <2>4. \A q \in DOMAIN call : q # r /\ HasFolded(q)' => HasFolded(q)
    BY <1>2, <1>6 DEF HasFolded
  <2> QED BY <1>2, <1>6, <2>3, <2>4 DEF DInv, FoldIsComplete
<1> QED BY <1>8, <1>9, <1>10, <1>11 DEF DInv

LEMMA StepPutFrozen ==
    ASSUME DInv, NEW r \in Runs, PutFrozen(r)
    PROVE  DInv'
<1>1. /\ r \in DOMAIN call /\ call[r] \in RunCall /\ call[r].stage = "snapshot"
      /\ RowAt(r, "snapshot")
      /\ call \in [DOMAIN call -> RunCall] /\ run \in [DOMAIN run -> Row]
  BY AtStage DEF PutFrozen
<1>2. /\ call' \in [DOMAIN call -> RunCall] /\ call'[r].stage = "create"
      /\ \A q \in DOMAIN call : q # r => call'[q] = call[q]
      /\ \A q \in DOMAIN call : Kept(q)
  <2>1. "create" \in RunStages
    BY DEF RunStages
  <2> QED BY <1>1, <2>1, GoEffect DEF PutFrozen
<1>3. run' = run /\ fill' = fill
  BY DEF PutFrozen, tables
<1>4. LedgerTypeOK'
  <2>1. /\ snap' = [x \in DOMAIN snap \cup {<<call[r].account, call[r].as_of>>} |->
                      IF x = <<call[r].account, call[r].as_of>> THEN "frozen" ELSE snap[x]]
        /\ <<call[r].account, call[r].as_of>> \in Accounts \X Times
    BY <1>1 DEF PutFrozen, PutSnapshot, With, RunCall
  <2>2. snap' \in [DOMAIN snap' -> Sources] /\ DOMAIN snap' \subseteq Accounts \X Times
    BY <2>1 DEF DInv, DecisionTypeOK, LedgerTypeOK, Sources
  <2> QED BY <2>2 DEF PutFrozen, DInv, DecisionTypeOK, LedgerTypeOK, ledgerCalls, answers
<1>5. RowAt(r, call[r].stage)'
  BY <1>1, <1>2, <1>3 DEF RowAt, Early
<1>6. Len(fill) <= Len(fill)' /\ \A i \in 1 .. Len(fill) : fill'[i] = fill[i]
  BY <1>3 DEF DInv, DecisionTypeOK, LedgerTypeOK
<1> QED BY <1>1, <1>2, <1>3, <1>4, <1>5, <1>6, StageStep DEF RowAt, Early

LEMMA StepCreateRun ==
    ASSUME DInv, NEW r \in Runs, CreateRun(r)
    PROVE  DInv'
<1> DEFINE row == [account |-> call[r].account, day |-> call[r].day, ctx |-> ContextOf(r),
                   status |-> "pending", parsed |-> << >>,
                   fingerprint |-> FALSE, adopted |-> FALSE]
<1>1. /\ r \in DOMAIN call /\ call[r] \in RunCall /\ call[r].stage = "create"
      /\ RowAt(r, "create")
      /\ call \in [DOMAIN call -> RunCall] /\ run \in [DOMAIN run -> Row]
  BY AtStage DEF CreateRun
<1>2. /\ LedgerTypeOK' /\ Len(fill) <= Len(fill)'
      /\ \A i \in 1 .. Len(fill) : fill'[i] = fill[i]
  BY LedgerStays DEF CreateRun
<1>3. /\ call' \in [DOMAIN call -> RunCall] /\ DOMAIN call' = DOMAIN call
      /\ call'[r].stage = "start"
      /\ \A q \in DOMAIN call : q # r => call'[q] = call[q]
      /\ \A q \in DOMAIN call : Kept(q)
  <2>1. "start" \in RunStages
    BY DEF RunStages
  <2> QED BY <1>1, <2>1, GoEffect DEF CreateRun
<1>4. row \in Row
  BY <1>1, EmptyPackage DEF Row, RowsOver, Statuses, RunCall, ContextOf, FrozenContext
<1>5. /\ DOMAIN run' = DOMAIN run \cup {r} /\ run'[r] = row /\ r \notin DOMAIN run
      /\ \A q \in DOMAIN run : run'[q] = run[q]
      /\ run' \in [DOMAIN run' -> Row]
  BY <1>1, <1>4 DEF CreateRun, InsertRun
<1>6. /\ row.account = call[r].account /\ row.status = "pending" /\ row.ctx = ContextOf(r)
  OBVIOUS
<1> HIDE DEF row
<1>7. \A q \in DOMAIN run' : q \in DOMAIN call /\ ContextOf(q)' = ContextOf(q)
  BY <1>1, <1>3, <1>5 DEF ContextOf, Kept, DInv, DecisionTypeOK
<1>8. DecisionTypeOK'
  BY <1>2, <1>3, <1>5, <1>6, <1>7 DEF DInv, DecisionTypeOK, Row
<1>9. RowFollowsCall'
  BY <1>1, <1>3, <1>5, <1>6 DEF DInv, RowFollowsCall
<1>10. SuccessNamesPrompt' /\ RowNamesAccount'
  BY <1>3, <1>5, <1>6, <1>7 DEF DInv, SuccessNamesPrompt, RowNamesAccount, Kept
<1>11. FoldIsComplete'
  <2>1. \A q \in DOMAIN call : HasFolded(q)' => HasFolded(q)
    BY <1>1, <1>3, <1>5 DEF HasFolded
  <2>2. Len(fill) \in Nat /\ Len(fill)' \in Nat
    BY <1>2 DEF DInv, DecisionTypeOK, LedgerTypeOK
  <2> QED BY <1>1, <1>2, <1>3, <2>1, <2>2, FoldKept DEF DInv
<1> QED BY <1>8, <1>9, <1>10, <1>11 DEF DInv

LEMMA StepMarkRunning ==
    ASSUME DInv, NEW r \in Runs, MarkRunning(r)
    PROVE  DInv'
<1>1. /\ r \in DOMAIN call /\ call[r] \in RunCall /\ call[r].stage = "start"
      /\ RowAt(r, "start") /\ r \in DOMAIN run
      /\ call \in [DOMAIN call -> RunCall] /\ run \in [DOMAIN run -> Row]
  BY AtStage DEF MarkRunning, RowAt, Early
<1>2. /\ LedgerTypeOK' /\ Len(fill) <= Len(fill)'
      /\ \A i \in 1 .. Len(fill) : fill'[i] = fill[i]
  BY LedgerStays DEF MarkRunning
<1>3. /\ call' \in [DOMAIN call -> RunCall] /\ call'[r].stage = "observe"
      /\ \A q \in DOMAIN call : q # r => call'[q] = call[q]
      /\ \A q \in DOMAIN call : Kept(q)
  <2>1. "observe" \in RunStages
    BY DEF RunStages
  <2> QED BY <1>1, <2>1, GoEffect DEF MarkRunning
<1>4. /\ run' \in [DOMAIN run -> Row] /\ DOMAIN run' = DOMAIN run /\ run'[r].status = "running"
      /\ \A q \in DOMAIN run : q # r => run'[q] = run[q]
      /\ \A q \in DOMAIN run : run'[q].account = run[q].account /\ run'[q].ctx = run[q].ctx
  <2>1. "running" \in Statuses
    BY DEF Statuses
  <2> QED BY <1>1, <2>1, StatusEffect, EmptyPackage DEF MarkRunning
<1>5. RowAt(r, call[r].stage)'
  BY <1>1, <1>3, <1>4 DEF RowAt, Early
<1> QED BY <1>1, <1>2, <1>3, <1>4, <1>5, StageStep

\* Observing and asking write nothing but the place of the run() itself.
LEMMA StepObserve ==
    ASSUME DInv, NEW r \in Runs, Observe(r) \/ \E p \in Packages : Answer(r, p)
    PROVE  DInv'
<1>1. /\ r \in DOMAIN call /\ call[r] \in RunCall /\ call[r].stage \in {"observe", "answer"}
      /\ RowAt(r, call[r].stage) /\ r \in DOMAIN run
      /\ call \in [DOMAIN call -> RunCall] /\ run \in [DOMAIN run -> Row]
  BY AtStage DEF Observe, Answer, RowAt, Early
<1>2. /\ LedgerTypeOK' /\ Len(fill) <= Len(fill)'
      /\ \A i \in 1 .. Len(fill) : fill'[i] = fill[i]
      /\ run' = run
  BY LedgerStays DEF Observe, Answer, tables
<1>3. /\ call' \in [DOMAIN call -> RunCall]
      /\ call'[r].stage \in {"answer", "fingerprint", "fail"}
      /\ \A q \in DOMAIN call : q # r => call'[q] = call[q]
      /\ \A q \in DOMAIN call : Kept(q)
  <2>1. CASE Go(r, "fail")
    <3>1. "fail" \in RunStages
      BY DEF RunStages
    <3> QED BY <1>1, <2>1, <3>1, GoEffect
  <2>2. CASE call' = [call EXCEPT ![r].stage = "answer", ![r].prompted = TRUE]
    <3> DEFINE new == [[call[r] EXCEPT !.stage = "answer"] EXCEPT !.prompted = TRUE]
    <3>1. call' = [call EXCEPT ![r] = new]
      BY <1>1, <2>2 DEF RunCall
    <3>2. /\ new \in RunCall /\ new.stage = "answer" /\ new.known = call[r].known
          /\ new.account = call[r].account /\ new.day = call[r].day
          /\ new.as_of = call[r].as_of /\ new.base = call[r].base
          /\ new.source = call[r].source /\ new.fills = call[r].fills
      BY <1>1 DEF RunCall, RunStages
    <3> HIDE DEF new
    <3> QED BY <1>1, <3>1, <3>2 DEF Kept
  <2>3. ASSUME NEW p \in Packages,
               call' = [call EXCEPT ![r].stage = "fingerprint", ![r].package = p]
        PROVE  /\ call' \in [DOMAIN call -> RunCall] /\ call'[r].stage = "fingerprint"
               /\ \A q \in DOMAIN call : q # r => call'[q] = call[q]
               /\ \A q \in DOMAIN call : Kept(q)
    <3> DEFINE new == [[call[r] EXCEPT !.stage = "fingerprint"] EXCEPT !.package = p]
    <3>1. call' = [call EXCEPT ![r] = new]
      BY <1>1, <2>3 DEF RunCall
    <3>2. /\ new \in RunCall /\ new.stage = "fingerprint" /\ new.known = call[r].known
          /\ new.account = call[r].account /\ new.day = call[r].day
          /\ new.as_of = call[r].as_of /\ new.base = call[r].base
          /\ new.source = call[r].source /\ new.fills = call[r].fills
      BY <1>1 DEF RunCall, RunStages
    <3> HIDE DEF new
    <3> QED BY <1>1, <3>1, <3>2 DEF Kept
  <2> QED BY <2>1, <2>2, <2>3 DEF Observe, Answer
<1>4. RowAt(r, call[r].stage)'
  BY <1>1, <1>2, <1>3 DEF RowAt, Early
<1>5. run[r].status = "running"
  BY <1>1 DEF RowAt
<1> QED BY <1>1, <1>2, <1>3, <1>4, <1>5, StageStep

LEMMA StepFinish ==
    ASSUME DInv, NEW r \in Runs, Finish(r)
    PROVE  DInv'
<1>1. /\ r \in DOMAIN call /\ call[r] \in RunCall
      /\ call[r].stage \in {"fail", "fingerprint", "finish"}
      /\ RowAt(r, call[r].stage) /\ r \in DOMAIN run /\ run[r].status = "running"
      /\ call \in [DOMAIN call -> RunCall] /\ run \in [DOMAIN run -> Row]
  BY AtStage DEF Finish, MarkFailed, WriteFingerprint, MarkSucceeded, RowAt, Early
<1>2. /\ LedgerTypeOK' /\ Len(fill) <= Len(fill)'
      /\ \A i \in 1 .. Len(fill) : fill'[i] = fill[i]
  BY LedgerStays DEF Finish
<1>3. "returned" \in RunStages /\ "finish" \in RunStages
      /\ "failed" \in Statuses /\ "succeeded" \in Statuses
  BY DEF RunStages, Ended, Statuses
<1>4. CASE MarkFailed(r)
  <2>1. /\ call' \in [DOMAIN call -> RunCall] /\ call'[r].stage = "returned"
        /\ \A q \in DOMAIN call : q # r => call'[q] = call[q]
        /\ \A q \in DOMAIN call : Kept(q)
    BY <1>1, <1>3, <1>4, GoEffect DEF MarkFailed
  <2>2. /\ run' \in [DOMAIN run -> Row] /\ DOMAIN run' = DOMAIN run /\ run'[r].status = "failed"
        /\ \A q \in DOMAIN run : q # r => run'[q] = run[q]
        /\ \A q \in DOMAIN run : run'[q].account = run[q].account /\ run'[q].ctx = run[q].ctx
    BY <1>1, <1>3, <1>4, StatusEffect, EmptyPackage DEF MarkFailed
  <2>3. RowAt(r, call[r].stage)'
    BY <1>1, <2>1, <2>2 DEF RowAt, Early, Terminal
  <2> QED BY <1>1, <1>2, <2>1, <2>2, <2>3, StageStep
<1>5. CASE WriteFingerprint(r)
  <2>1. /\ call' \in [DOMAIN call -> RunCall] /\ call'[r].stage = "finish"
        /\ \A q \in DOMAIN call : q # r => call'[q] = call[q]
        /\ \A q \in DOMAIN call : Kept(q)
    BY <1>1, <1>3, <1>5, GoEffect DEF WriteFingerprint
  <2>2. /\ run' \in [DOMAIN run -> Row] /\ DOMAIN run' = DOMAIN run
        /\ run'[r].fingerprint /\ run'[r].status = "running"
        /\ \A q \in DOMAIN run : q # r => run'[q] = run[q]
        /\ \A q \in DOMAIN run : run'[q].account = run[q].account /\ run'[q].ctx = run[q].ctx
    BY <1>1, <1>5, FingerprintEffect DEF WriteFingerprint
  <2>3. RowAt(r, call[r].stage)'
    BY <1>1, <2>1, <2>2 DEF RowAt, Early
  <2> QED BY <1>1, <1>2, <2>1, <2>2, <2>3, StageStep
<1>6. CASE MarkSucceeded(r)
  <2>1. /\ call' \in [DOMAIN call -> RunCall] /\ call'[r].stage = "returned"
        /\ \A q \in DOMAIN call : q # r => call'[q] = call[q]
        /\ \A q \in DOMAIN call : Kept(q)
    BY <1>1, <1>3, <1>6, GoEffect DEF MarkSucceeded
  <2>2. call[r].package \in Packages /\ run[r].fingerprint
    BY <1>1, <1>6 DEF RunCall, MarkSucceeded, At, RowAt
  <2>3. /\ run' \in [DOMAIN run -> Row] /\ DOMAIN run' = DOMAIN run
        /\ run'[r].status = "succeeded" /\ run'[r].fingerprint
        /\ \A q \in DOMAIN run : q # r => run'[q] = run[q]
        /\ \A q \in DOMAIN run : run'[q].account = run[q].account /\ run'[q].ctx = run[q].ctx
    BY <1>1, <1>3, <1>6, <2>2, StatusEffect DEF MarkSucceeded
  <2>4. RowAt(r, call[r].stage)'
    BY <1>1, <2>1, <2>3 DEF RowAt, Early, Terminal
  <2> QED BY <1>1, <1>2, <2>1, <2>3, <2>4, StageStep
<1> QED BY <1>4, <1>5, <1>6 DEF Finish

LEMMA StepLose ==
    ASSUME DInv, NEW r \in Runs, Lose(r)
    PROVE  DInv'
<1>1. /\ r \in DOMAIN call /\ call \in [DOMAIN call -> RunCall] /\ run \in [DOMAIN run -> Row]
  BY DEF Lose, DInv, DecisionTypeOK, Row
<1>2. /\ LedgerTypeOK' /\ Len(fill) <= Len(fill)'
      /\ \A i \in 1 .. Len(fill) : fill'[i] = fill[i]
      /\ run' = run
  BY LedgerStays DEF Lose, tables
<1>3. /\ call' \in [DOMAIN call -> RunCall] /\ call'[r].stage = "lost"
      /\ \A q \in DOMAIN call : q # r => call'[q] = call[q]
      /\ \A q \in DOMAIN call : Kept(q)
  <2>1. "lost" \in RunStages
    BY DEF RunStages, Ended
  <2> QED BY <1>1, <2>1, GoEffect DEF Lose
<1>4. RowAt(r, call[r].stage)'
  BY <1>3 DEF RowAt, Early
<1>5. r \in DOMAIN run /\ run[r].status = "succeeded" => run[r].fingerprint
  BY DEF DInv, SuccessNamesPrompt
<1> QED BY <1>1, <1>2, <1>3, <1>4, <1>5, StageStep

\* What other requests do to the ledger leaves every run() where it is.
LEMMA StepLedger ==
    ASSUME DInv, [LedgerNext]_lvars, UNCHANGED <<tables, call>>
    PROVE  DInv'
<1>1. /\ LedgerTypeOK' /\ Len(fill) <= Len(fill)'
      /\ \A i \in 1 .. Len(fill) : fill'[i] = fill[i]
  BY LedgerEffect DEF DInv, DecisionTypeOK
<1>2. run' = run /\ call' = call
  BY DEF tables
<1>3. Len(fill) \in Nat /\ Len(fill)' \in Nat
  BY <1>1 DEF DInv, DecisionTypeOK, LedgerTypeOK
<1>4. FoldIsComplete'
  <2>1. \A q \in DOMAIN call : Kept(q) /\ (HasFolded(q)' => HasFolded(q))
    BY <1>2 DEF Kept, HasFolded
  <2> QED BY <1>1, <1>2, <1>3, <2>1, FoldKept DEF DInv, DecisionTypeOK
<1>5. DecisionTypeOK'
  BY <1>1, <1>2 DEF DInv, DecisionTypeOK, ContextOf
<1> QED BY <1>2, <1>4, <1>5 DEF DInv, RowFollowsCall, SuccessNamesPrompt, RowNamesAccount

LEMMA InitDInv == DecisionInit => DInv
<1> SUFFICES ASSUME DecisionInit PROVE DInv
    OBVIOUS
<1>1. LedgerTypeOK
  BY InitIInv DEF DecisionInit, IInv
<1>2. DOMAIN run = {} /\ DOMAIN call = {} /\ \A S : << >> \in [DOMAIN << >> -> S]
  BY DEF DecisionInit
<1>3. DecisionTypeOK
  BY <1>1, <1>2 DEF DecisionInit, DecisionTypeOK
<1> QED BY <1>2, <1>3 DEF DInv, RowFollowsCall, SuccessNamesPrompt, FoldIsComplete, RowNamesAccount

LEMMA NextDInv == DInv /\ [DecisionNext]_dvars => DInv'
<1> SUFFICES ASSUME DInv, [DecisionNext]_dvars PROVE DInv'
    OBVIOUS
<1>1. CASE LedgerNext /\ UNCHANGED <<tables, call>>
  BY <1>1, StepLedger
<1>2. ASSUME NEW r \in Runs, NEW a \in Accounts, NEW d \in Days, BeginRun(r, a, d)
      PROVE  DInv'
  BY <1>2, StepBeginRun
<1>3. ASSUME NEW r \in Runs, RunStep(r)
      PROVE  DInv'
  BY <1>3, StepFoldBaseline, StepFoldFills, StepPutFrozen, StepCreateRun, StepMarkRunning,
     StepObserve, StepFinish DEF RunStep
<1>4. ASSUME NEW r \in Runs, Lose(r)
      PROVE  DInv'
  BY <1>4, StepLose
<1>5. CASE UNCHANGED dvars
  BY <1>5, StepLedger DEF dvars
<1> QED BY <1>1, <1>2, <1>3, <1>4, <1>5 DEF DecisionNext

------------------------------------------------------------------------------
(* The theorems *)

LEMMA AlwaysDInv == DecisionSpec => []DInv
BY InitDInv, NextDInv, PTL DEF DecisionSpec

\* Calls, rows and frozen contexts have the types of their columns, for every
\* order in which requests move the ledger, freeze the account and answer.
THEOREM DecisionTypeCorrect == DecisionSpec => []DecisionTypeOK
<1>1. DInv => DecisionTypeOK
  BY DEF DInv
<1> QED BY <1>1, AlwaysDInv, PTL

\* The account that run() freezes holds every fill booked before frozen_at was
\* read, or a baseline that covers it, whatever is reported and opened meanwhile.
THEOREM FrozenAccountComplete == DecisionSpec => []FrozenIsComplete
<1>1. DInv => FrozenIsComplete
  <2> SUFFICES ASSUME DInv, NEW r \in DOMAIN run, NEW i \in 1 .. call[r].known,
                      fill[i].account = run[r].account
               PROVE  \/ i \in run[r].ctx.fills
                      \/ fill[i].at <= run[r].ctx.base /\ run[r].ctx.source \in BaselineSources
      BY DEF FrozenIsComplete
  <2>1. /\ r \in DOMAIN call /\ call[r] \in RunCall /\ fill \in Seq(FillRow)
        /\ run[r].account = call[r].account /\ HasFolded(r)
        /\ run[r].ctx.fills = call[r].fills /\ run[r].ctx.base = call[r].base
        /\ run[r].ctx.source = call[r].source
    <3>1. r \in DOMAIN call /\ fill \in Seq(FillRow) /\ run[r].account = call[r].account
      BY DEF DInv, DecisionTypeOK, LedgerTypeOK, RowNamesAccount
    <3>2. call[r] \in RunCall /\ run[r].ctx = ContextOf(r)
      BY <3>1 DEF DInv, DecisionTypeOK
    <3> QED BY <3>1, <3>2 DEF ContextOf, HasFolded
  <2>2. call[r].known \in Nat /\ call[r].known <= Len(fill)
    BY <2>1 DEF RunCall, DInv, FoldIsComplete
  <2>3. i \in call[r].fills \/ fill[i].at <= call[r].base
    BY <2>1 DEF DInv, FoldIsComplete
  <2>4. fill[i].at \in Nat
    BY <2>1, <2>2, FillTyped
  <2>5. fill[i].at <= call[r].base => call[r].base # NoBaseline
    BY <2>1, <2>4 DEF NoBaseline, RunCall, Bases, Times
  <2> QED BY <2>1, <2>3, <2>5 DEF DInv, FoldIsComplete
<1> QED BY <1>1, AlwaysDInv, PTL

\* A run() that returns has finished its run, and a run that succeeded names its
\* prompt, wherever threads are lost.
THEOREM OutcomesAreRecorded == DecisionSpec => []OutcomeIsRecorded
<1>1. DInv => OutcomeIsRecorded
  BY DEF DInv, OutcomeIsRecorded, RowFollowsCall, SuccessNamesPrompt
<1> QED BY <1>1, AlwaysDInv, PTL
=============================================================================
