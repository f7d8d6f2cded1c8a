------------------------ MODULE AgentRunStore_proofs ------------------------
(***************************************************************************)
(* The safety properties of AgentRunStore hold for every set of runs,      *)
(* accounts, days, contexts and packages and every number of calls.        *)
(*                                                                         *)
(* The argument: tables only grow and a finished run is frozen             *)
(* (StepOnlyGrows), so what a call read before its write (AdoptArguments,  *)
(* ConfirmArguments) still holds when the write comes, and the condition   *)
(* in the statement itself decides between two calls that read the same.   *)
(***************************************************************************)
EXTENDS AgentRunStore, TLAPS

\* What an adopt read from a succeeded run stays true of that run.
AdoptArguments ==
    \A c \in DOMAIN adopt : LET r == adopt[c].run IN
        /\ r \in DOMAIN run
        /\ run[r].status = "succeeded"
        /\ adopt[c] = [account |-> run[r].account, day |-> run[r].day, run |-> r,
                       sheet |-> SheetOf(run[r].parsed, run[r].ctx)]

\* The candidate a confirm looked up stays on its sheet.
ConfirmArguments == \A c \in DOMAIN confirm : confirm[c].candidate \in Candidates

\* Only finishes are acknowledged as finishes.
AcksAreFinishes ==
    \A r \in Runs : \A i \in DOMAIN finishAcks[r] : finishAcks[r][i].target \in Terminal

\* A row has no output before it has succeeded ...
UnfinishedIsBlank == \A r \in DOMAIN run : run[r].status # "succeeded" => run[r].parsed = << >>

\* ... and only mark_succeeded brings one.
MarkPackages == \A c \in DOMAIN mark : mark[c].target # "succeeded" => mark[c].package = << >>

\* mark_adopted stamps runs that exist.
DirectRuns == direct \subseteq DOMAIN run

IInv ==
    /\ TypeOK
    /\ DirectRuns
    /\ UnfinishedIsBlank
    /\ MarkPackages
    /\ FinishHasOneWinner
    /\ AcksAreFinishes
    /\ AdoptArguments
    /\ ConfirmArguments
    /\ SheetAndStampTogether
    /\ SheetIsWholeProposal
    /\ ConfirmedOnce

------------------------------------------------------------------------------

USE EmptyPackage DEF Targets, Terminal

LEMMA SheetTyped ==
    ASSUME NEW p \in Packages, NEW x \in Contexts
    PROVE  SheetOf(p, x) \in Sheets
BY DEF Sheets

\* The domain of a sequence holds positive numbers only.
LEMMA PackageDomains ==
    ASSUME NEW p \in Packages
    PROVE  DOMAIN p \subseteq Nat \ {0}
BY PackagesAssumption

LEMMA AllowedTargets ==
    ASSUME NEW s \in Statuses, NEW t \in Allowed(s)
    PROVE  t \in Targets /\ s \notin Terminal
BY DEF Allowed, Statuses

\* The stamping statement leaves well-typed rows.
LEMMA StampTyped ==
    ASSUME TypeOK, NEW r, CanStamp(r), Stamp(r)
    PROVE  run' \in [DOMAIN run' -> RunRow] /\ DOMAIN run' \subseteq Runs
<1>1. r \in DOMAIN run /\ run[r] \in RunRow
  BY DEF CanStamp, TypeOK
<1>2. [run[r] EXCEPT !.adopted = TRUE] \in RunRow
  BY <1>1 DEF RunRow, RowsOver
<1>3. run' = [run EXCEPT ![r] = [run[r] EXCEPT !.adopted = TRUE]]
  BY DEF Stamp
<1> QED BY <1>1, <1>2, <1>3 DEF TypeOK

LEMMA InitType == Init => TypeOK
<1> SUFFICES ASSUME Init PROVE TypeOK
    OBVIOUS
<1>1. \A S : << >> \in [DOMAIN << >> -> S] /\ DOMAIN << >> = {}
    OBVIOUS
<1>2. \A S : << >> \in Seq(S)
    OBVIOUS
<1> QED BY <1>1, <1>2 DEF Init, TypeOK

LEMMA InitIInv == Init => IInv
<1> SUFFICES ASSUME Init PROVE IInv
    OBVIOUS
<1>1. TypeOK /\ DirectRuns
    BY InitType DEF Init, DirectRuns
<1>2. DOMAIN << >> = {}
    OBVIOUS
<1>3. /\ DOMAIN run = {} /\ DOMAIN session = {} /\ DOMAIN decision = {}
      /\ DOMAIN mark = {} /\ DOMAIN adopt = {} /\ DOMAIN confirm = {}
    BY <1>2 DEF Init
<1>4. FinishHasOneWinner /\ AcksAreFinishes
    BY <1>2 DEF Init, FinishHasOneWinner, AcksAreFinishes
<1> QED BY <1>1, <1>3, <1>4 DEF IInv, UnfinishedIsBlank, MarkPackages, AdoptArguments, ConfirmArguments,
           SheetAndStampTogether, SheetIsWholeProposal, ConfirmedOnce

LEMMA NextType == TypeOK /\ [Next]_vars => TypeOK'
<1> SUFFICES ASSUME TypeOK, [Next]_vars PROVE TypeOK'
    OBVIOUS
<1> USE DEF TypeOK
<1>1. ASSUME NEW r \in Runs, NEW a \in Accounts, NEW d \in Days, NEW x \in Contexts,
             Create(r, a, d, x)
      PROVE  TypeOK'
  <2>1. run' \in [DOMAIN run' -> RunRow] /\ DOMAIN run' \subseteq Runs
    BY <1>1 DEF Create, InsertRun, RunRow, RowsOver, Statuses
  <2> QED BY <1>1, <2>1 DEF Create, calls
<1>2. ASSUME NEW r \in Runs, SetFingerprint(r) PROVE TypeOK'
  <2>1. run' \in [DOMAIN run' -> RunRow] /\ DOMAIN run' \subseteq Runs
    BY <1>2 DEF SetFingerprint, SetPromptFingerprint, RunRow, RowsOver
  <2> QED BY <1>2, <2>1 DEF SetFingerprint, calls
<1>3. ASSUME NEW c \in Slots, NEW r \in Runs, NEW t \in Targets, NEW p \in Packages,
             BeginMark(c, r, t, p)
      PROVE  TypeOK'
  <2>1. mark' \in [DOMAIN mark' -> MarkCall] /\ DOMAIN mark' \subseteq Slots
    <3>1. [run |-> r, target |-> t, package |-> p] \in MarkCall
      BY DEF MarkCall
    <3> QED BY <1>3, <3>1 DEF With, BeginMark
  <2> QED BY <1>3, <2>1 DEF BeginMark, tables
<1>4. ASSUME NEW c \in Slots, NEW r \in Runs, BeginStamp(c, r) PROVE TypeOK'
  <2>1. stamp' \in [DOMAIN stamp' -> Runs] /\ DOMAIN stamp' \subseteq Slots
    BY <1>4 DEF With, BeginStamp
  <2> QED BY <1>4, <2>1 DEF BeginStamp, tables
<1>5. ASSUME NEW c \in Slots, NEW r \in Runs, BeginAdopt(c, r) PROVE TypeOK'
  <2>1. adopt' \in [DOMAIN adopt' -> SessionRow] /\ DOMAIN adopt' \subseteq Slots
    <3>1. run[r] \in RunRow
      BY <1>5 DEF BeginAdopt, CanStamp
    <3>2. SheetOf(run[r].parsed, run[r].ctx) \in Sheets
      BY <3>1, SheetTyped DEF RunRow, RowsOver
    <3>3. [account |-> run[r].account, day |-> run[r].day, run |-> r,
           sheet |-> SheetOf(run[r].parsed, run[r].ctx)] \in SessionRow
      BY <3>1, <3>2 DEF RunRow, RowsOver, SessionRow
    <3> QED BY <1>5, <3>3 DEF With, BeginAdopt
  <2> QED BY <1>5, <2>1 DEF BeginAdopt, tables
<1>6. ASSUME NEW c \in Slots, NEW k \in Candidates, NEW a \in Actions, BeginConfirm(c, k, a)
      PROVE  TypeOK'
  <2>1. k \in CandidateIds
    <3>1. PICK s \in DOMAIN session : k \in {<<s, i>> : i \in DOMAIN session[s].sheet}
      BY DEF Candidates
    <3>2. session[s].sheet \in Sheets
      BY DEF SessionRow
    <3>3. DOMAIN session[s].sheet \subseteq Nat \ {0}
      BY <3>2, PackageDomains DEF Sheets, SheetOf
    <3> QED BY <3>1, <3>3 DEF CandidateIds
  <2>2. [candidate |-> k, action |-> a] \in ConfirmCall
    BY <2>1 DEF ConfirmCall, DecisionRow
  <2>3. confirm' \in [DOMAIN confirm' -> ConfirmCall] /\ DOMAIN confirm' \subseteq Slots
    BY <1>6, <2>2 DEF With, BeginConfirm
  <2> QED BY <1>6, <2>3 DEF BeginConfirm, tables
<1>7. ASSUME NEW c \in Slots, WriteMark(c) PROVE TypeOK'
  <2>1. mark[c] \in MarkCall
    BY <1>7 DEF WriteMark
  <2>2. run' \in [DOMAIN run' -> RunRow] /\ DOMAIN run' \subseteq Runs
    <3>1. CASE ~MarkHits(c)
      BY <1>7, <3>1 DEF WriteMark
    <3>2. CASE MarkHits(c)
      <4>1. mark[c].run \in DOMAIN run /\ run[mark[c].run] \in RunRow
        BY <3>2 DEF MarkHits, CanUpdateStatus
      <4> DEFINE row == run[mark[c].run]
                 new == [row EXCEPT !.status = mark[c].target,
                                    !.parsed = IF mark[c].target = "succeeded"
                                               THEN mark[c].package ELSE @]
      <4>2. new \in RunRow
        BY <2>1, <4>1 DEF RunRow, RowsOver, MarkCall, Statuses
      <4>3. run' = [run EXCEPT ![mark[c].run] = new]
        BY <1>7, <3>2 DEF WriteMark, UpdateStatus
      <4> QED BY <4>1, <4>2, <4>3
    <3> QED BY <1>7, <3>1, <3>2 DEF WriteMark
  <2>3. finishAcks' \in [Runs -> Seq(MarkCall)]
    <3>1. CASE finishAcks' = finishAcks
      BY <3>1
    <3>2. CASE finishAcks' = [finishAcks EXCEPT ![mark[c].run] = Append(@, mark[c])]
      <4>1. mark[c].run \in Runs
        BY <2>1 DEF MarkCall
      <4>2. Append(finishAcks[mark[c].run], mark[c]) \in Seq(MarkCall)
        BY <2>1, <4>1
      <4> QED BY <3>2, <4>1, <4>2
    <3> QED BY <1>7, <3>1, <3>2 DEF WriteMark, Acknowledge
  <2>4. mark' \in [DOMAIN mark' -> MarkCall] /\ DOMAIN mark' \subseteq Slots
    BY <1>7 DEF Without, WriteMark
  <2> QED BY <1>7, <2>2, <2>3, <2>4 DEF WriteMark
<1>8. ASSUME NEW c \in Slots, WriteStamp(c) PROVE TypeOK'
  <2>1. stamp' \in [DOMAIN stamp' -> Runs] /\ DOMAIN stamp' \subseteq Slots
    BY <1>8 DEF Without, WriteStamp
  <2>2. run' \in [DOMAIN run' -> RunRow] /\ DOMAIN run' \subseteq Runs
    <3>1. CASE run' = run
      BY <3>1
    <3>2. CASE CanStamp(stamp[c]) /\ Stamp(stamp[c])
      BY <3>2, StampTyped
    <3> QED BY <1>8, <3>1, <3>2 DEF WriteStamp
  <2> QED BY <1>8, <2>1, <2>2 DEF WriteStamp
<1>9. ASSUME NEW c \in Slots, NEW id \in Ids, WriteAdopt(c, id) PROVE TypeOK'
  <2>1. adopt' \in [DOMAIN adopt' -> SessionRow] /\ DOMAIN adopt' \subseteq Slots
    BY <1>9 DEF Without, WriteAdopt
  <2>2. run' \in [DOMAIN run' -> RunRow] /\ DOMAIN run' \subseteq Runs
    <3>1. CASE AdoptRollback(adopt[c])
      BY <3>1 DEF AdoptRollback
    <3>2. CASE AdoptCommit(adopt[c], id)
      BY <3>2, StampTyped DEF AdoptCommit
    <3> QED BY <1>9, <3>1, <3>2 DEF WriteAdopt
  <2>3. session' \in [DOMAIN session' -> SessionRow] /\ DOMAIN session' \subseteq Ids
    BY <1>9 DEF WriteAdopt, AdoptCommit, AdoptRollback, InsertSession
  <2> QED BY <1>9, <2>1, <2>2, <2>3 DEF WriteAdopt
<1>10. ASSUME NEW c \in Slots, NEW id \in Ids, WriteConfirm(c, id) PROVE TypeOK'
  <2>1. confirm' \in [DOMAIN confirm' -> ConfirmCall] /\ DOMAIN confirm' \subseteq Slots
    BY <1>10 DEF Without, WriteConfirm
  <2>2. decision' \in [DOMAIN decision' -> DecisionRow] /\ DOMAIN decision' \subseteq Ids
    BY <1>10 DEF WriteConfirm, InsertDecision, ConfirmCall
  <2> QED BY <1>10, <2>1, <2>2 DEF WriteConfirm
<1>11. ASSUME NEW c \in Slots, Abort(c) PROVE TypeOK'
  <2>1. /\ mark' \in [DOMAIN mark' -> MarkCall] /\ DOMAIN mark' \subseteq Slots
        /\ stamp' \in [DOMAIN stamp' -> Runs] /\ DOMAIN stamp' \subseteq Slots
        /\ adopt' \in [DOMAIN adopt' -> SessionRow] /\ DOMAIN adopt' \subseteq Slots
        /\ confirm' \in [DOMAIN confirm' -> ConfirmCall] /\ DOMAIN confirm' \subseteq Slots
    BY <1>11 DEF Without, Abort
  <2> QED BY <1>11, <2>1 DEF Abort, tables
<1>12. CASE UNCHANGED vars
  BY <1>12 DEF vars, tables, calls
<1> QED BY <1>1, <1>2, <1>3, <1>4, <1>5, <1>6, <1>7, <1>8, <1>9, <1>10, <1>11, <1>12 DEF Next

------------------------------------------------------------------------------
(* Steps only add *)

\* Stamping one run touches its stamp and nothing else.
LEMMA StampEffect ==
    ASSUME TypeOK, NEW r, CanStamp(r), Stamp(r)
    PROVE  /\ DOMAIN run' = DOMAIN run
           /\ \A x \in DOMAIN run :
                 /\ run'[x].account = run[x].account
                 /\ run'[x].day = run[x].day
                 /\ run'[x].ctx = run[x].ctx
                 /\ run'[x].status = run[x].status
                 /\ run'[x].parsed = run[x].parsed
                 /\ run'[x].adopted = IF x = r THEN TRUE ELSE run[x].adopted
<1>1. r \in DOMAIN run /\ run[r] \in RunRow
  BY DEF CanStamp, TypeOK
<1>2. run' = [run EXCEPT ![r] = [run[r] EXCEPT !.adopted = TRUE]]
  BY DEF Stamp
<1>3. run'[r] = [run[r] EXCEPT !.adopted = TRUE]
  BY <1>1, <1>2
<1>4. \A x \in DOMAIN run \ {r} : run'[x] = run[x]
  BY <1>2
<1>5. DOMAIN run' = DOMAIN run
  BY <1>2
<1> QED BY <1>1, <1>3, <1>4, <1>5 DEF RunRow, RowsOver

LEMMA NextGrows == TypeOK /\ [Next]_vars => OnlyGrows
<1> SUFFICES ASSUME TypeOK, [Next]_vars PROVE OnlyGrows
    OBVIOUS
<1> USE DEF OnlyGrows
<1>1. CASE UNCHANGED tables
  BY <1>1 DEF tables
<1>2. ASSUME NEW r \in Runs, NEW a \in Accounts, NEW d \in Days, NEW x \in Contexts,
             Create(r, a, d, x)
      PROVE  OnlyGrows
  BY <1>2 DEF Create, InsertRun
<1>3. ASSUME NEW r \in Runs, SetFingerprint(r) PROVE OnlyGrows
  BY <1>3 DEF SetFingerprint, SetPromptFingerprint, TypeOK, RunRow, RowsOver
<1>4. ASSUME NEW c \in Slots, WriteMark(c) PROVE OnlyGrows
  <2>1. CASE ~MarkHits(c)
    BY <1>4, <2>1 DEF WriteMark
  <2>2. CASE MarkHits(c)
    <3>1. mark[c].run \in DOMAIN run /\ run[mark[c].run].status \notin Terminal
      <4>1. mark[c].run \in DOMAIN run /\ run[mark[c].run] \in RunRow
        BY <2>2 DEF MarkHits, CanUpdateStatus, TypeOK
      <4> QED BY <2>2, <4>1, AllowedTargets DEF MarkHits, CanUpdateStatus, RunRow, RowsOver
    <3>2. /\ run' = [run EXCEPT ![mark[c].run].status = mark[c].target,
                                ![mark[c].run].parsed =
                                    IF mark[c].target = "succeeded"
                                    THEN mark[c].package ELSE @]
          /\ UNCHANGED <<session, decision>>
      BY <1>4, <2>2 DEF WriteMark, UpdateStatus
    <3> QED BY <3>1, <3>2 DEF TypeOK, RunRow, RowsOver
  <2> QED BY <2>1, <2>2
<1>5. ASSUME NEW c \in Slots, WriteStamp(c) PROVE OnlyGrows
  <2>1. UNCHANGED <<session, decision>>
    BY <1>5 DEF WriteStamp
  <2>2. CASE run' = run
    BY <2>1, <2>2
  <2>3. CASE CanStamp(stamp[c]) /\ Stamp(stamp[c])
    BY <2>1, <2>3, StampEffect
  <2> QED BY <1>5, <2>2, <2>3 DEF WriteStamp
<1>6. ASSUME NEW c \in Slots, NEW id \in Ids, WriteAdopt(c, id) PROVE OnlyGrows
  <2>1. CASE AdoptRollback(adopt[c])
    BY <1>6, <2>1 DEF WriteAdopt, AdoptRollback
  <2>2. CASE AdoptCommit(adopt[c], id)
    <3>1. \A s \in DOMAIN session : s \in DOMAIN session' /\ session'[s] = session[s]
      BY <1>6, <2>2 DEF WriteAdopt, AdoptCommit, InsertSession
    <3> QED BY <1>6, <2>2, <3>1, StampEffect DEF WriteAdopt, AdoptCommit
  <2> QED BY <1>6, <2>1, <2>2 DEF WriteAdopt
<1>7. ASSUME NEW c \in Slots, NEW id \in Ids, WriteConfirm(c, id) PROVE OnlyGrows
  BY <1>7 DEF WriteConfirm, InsertDecision
<1> QED BY <1>1, <1>2, <1>3, <1>4, <1>5, <1>6, <1>7
        DEF Next, BeginMark, BeginStamp, BeginAdopt, BeginConfirm, Abort, vars

\* The candidates on sheets only grow.
LEMMA CandidatesGrow == OnlyGrows => Candidates \subseteq Candidates'
BY DEF OnlyGrows, Candidates

------------------------------------------------------------------------------
(* The parts of the inductive invariant, one lemma each *)

LEMMA NextWinner ==
    IInv /\ [Next]_vars => FinishHasOneWinner' /\ AcksAreFinishes'
<1> SUFFICES ASSUME IInv, [Next]_vars PROVE FinishHasOneWinner' /\ AcksAreFinishes'
    OBVIOUS
<1> USE DEF IInv, FinishHasOneWinner, AcksAreFinishes
<1>1. OnlyGrows
  BY NextGrows
<1>2. CASE finishAcks' = finishAcks
  <2>1. ASSUME NEW r \in Runs, finishAcks[r] # << >>
        PROVE  /\ r \in DOMAIN run'
               /\ run'[r].status = finishAcks[r][1].target
               /\ run'[r].parsed = finishAcks[r][1].package
    <3>1. 1 \in DOMAIN finishAcks[r]
      BY <2>1 DEF TypeOK
    <3>2. run[r].status \in Terminal
      BY <2>1, <3>1
    <3> QED BY <1>1, <2>1, <3>2 DEF OnlyGrows
  <2> QED BY <1>2, <2>1
<1>3. ASSUME NEW c \in Slots, WriteMark(c), finishAcks' # finishAcks
      PROVE  FinishHasOneWinner' /\ AcksAreFinishes'
  <2> DEFINE r == mark[c].run
  <2>1. mark[c] \in MarkCall /\ r \in Runs
    BY <1>3 DEF WriteMark, TypeOK, MarkCall
  <2>2. /\ MarkHits(c)
        /\ mark[c].target \in Terminal
        /\ finishAcks' = [finishAcks EXCEPT ![r] = Append(finishAcks[r], mark[c])]
        /\ run' = [run EXCEPT ![r].status = mark[c].target,
                              ![r].parsed = IF mark[c].target = "succeeded"
                                            THEN mark[c].package ELSE @]
    BY <1>3 DEF WriteMark, Acknowledge, UpdateStatus
  <2>3. r \in DOMAIN run /\ run[r] \in RunRow /\ run[r].status \notin Terminal
    <3>1. r \in DOMAIN run /\ run[r] \in RunRow
      BY <2>2 DEF MarkHits, CanUpdateStatus, TypeOK
    <3> QED BY <2>2, <3>1, AllowedTargets DEF MarkHits, CanUpdateStatus, RunRow, RowsOver
  <2>4. finishAcks[r] = << >>
    <3>1. finishAcks[r] # << >> => 1 \in DOMAIN finishAcks[r]
      BY <2>1 DEF TypeOK
    <3> QED BY <2>1, <2>3, <3>1
  <2>5. finishAcks'[r] = <<mark[c]>>
    BY <2>1, <2>2, <2>4 DEF TypeOK
  <2>6. run'[r].status = mark[c].target /\ run'[r].parsed = mark[c].package
    <3>1. run'[r].status = mark[c].target
      BY <2>2, <2>3 DEF RunRow, RowsOver
    <3>2. CASE mark[c].target = "succeeded"
      BY <2>2, <2>3, <3>2 DEF RunRow, RowsOver
    <3>3. CASE mark[c].target # "succeeded"
      <4>1. mark[c].package = << >>
        BY <1>3, <3>3 DEF MarkPackages, WriteMark
      <4>2. run[r].parsed = << >>
        BY <2>3 DEF UnfinishedIsBlank
      <4> QED BY <2>2, <2>3, <3>3, <4>1, <4>2 DEF RunRow, RowsOver
    <3> QED BY <3>1, <3>2, <3>3
  <2>7. r \in DOMAIN run'
    BY <2>2, <2>3
  <2>8. \A q \in Runs \ {r} : /\ finishAcks'[q] = finishAcks[q]
                              /\ q \in DOMAIN run => q \in DOMAIN run' /\ run'[q] = run[q]
    BY <2>1, <2>2 DEF TypeOK
  <2>9. ASSUME NEW q \in Runs
        PROVE  /\ Len(finishAcks'[q]) <= 1
               /\ finishAcks'[q] # << >> =>
                     /\ q \in DOMAIN run'
                     /\ run'[q].status = finishAcks'[q][1].target
                     /\ run'[q].parsed = finishAcks'[q][1].package
               /\ \A i \in DOMAIN finishAcks'[q] : finishAcks'[q][i].target \in Terminal
    <3>1. CASE q = r
      BY <2>2, <2>5, <2>6, <2>7, <3>1
    <3>2. CASE q # r
      BY <2>8, <3>2
    <3> QED BY <3>1, <3>2
  <2> QED BY <2>9
<1>4. \/ finishAcks' = finishAcks
      \/ \E c \in Slots : WriteMark(c)
  BY DEF Next, Create, SetFingerprint, BeginMark, BeginStamp, BeginAdopt, BeginConfirm,
         WriteStamp, WriteAdopt, WriteConfirm, Abort, vars
<1> QED BY <1>2, <1>3, <1>4

LEMMA NextBlank == IInv /\ [Next]_vars => UnfinishedIsBlank' /\ MarkPackages'
<1> SUFFICES ASSUME IInv, [Next]_vars PROVE UnfinishedIsBlank' /\ MarkPackages'
    OBVIOUS
<1> USE DEF IInv, UnfinishedIsBlank, MarkPackages
<1>1. CASE UNCHANGED <<run, mark>>
  BY <1>1
<1>2. ASSUME NEW r \in Runs, NEW a \in Accounts, NEW d \in Days, NEW x \in Contexts,
             Create(r, a, d, x)
      PROVE  UnfinishedIsBlank' /\ MarkPackages'
  BY <1>2 DEF Create, InsertRun, calls
<1>3. ASSUME NEW r \in Runs, SetFingerprint(r) PROVE UnfinishedIsBlank' /\ MarkPackages'
  BY <1>3 DEF SetFingerprint, SetPromptFingerprint, calls, TypeOK, RunRow, RowsOver
<1>4. ASSUME NEW c \in Slots, NEW r \in Runs, NEW t \in Targets, NEW p \in Packages,
             BeginMark(c, r, t, p)
      PROVE  UnfinishedIsBlank' /\ MarkPackages'
  BY <1>4 DEF BeginMark, With, tables
<1>5. ASSUME NEW c \in Slots, WriteMark(c) PROVE UnfinishedIsBlank' /\ MarkPackages'
  <2>1. MarkPackages'
    BY <1>5 DEF WriteMark, Without
  <2>2. CASE ~MarkHits(c)
    BY <1>5, <2>1, <2>2 DEF WriteMark
  <2>3. CASE MarkHits(c)
    <3>1. run' = [run EXCEPT ![mark[c].run].status = mark[c].target,
                             ![mark[c].run].parsed = IF mark[c].target = "succeeded"
                                                     THEN mark[c].package ELSE @]
      BY <1>5, <2>3 DEF WriteMark, UpdateStatus
    <3>2. mark[c].run \in DOMAIN run /\ run[mark[c].run] \in RunRow
      BY <2>3 DEF MarkHits, CanUpdateStatus, TypeOK
    <3>3. run[mark[c].run].status # "succeeded"
      BY <2>3, <3>2, AllowedTargets DEF MarkHits, CanUpdateStatus, RunRow, RowsOver
    <3> QED BY <2>1, <3>1, <3>2, <3>3 DEF TypeOK, RunRow, RowsOver
  <2> QED BY <2>2, <2>3
<1>6. ASSUME NEW c \in Slots, WriteStamp(c) PROVE UnfinishedIsBlank' /\ MarkPackages'
  <2>1. CASE run' = run
    BY <1>6, <2>1 DEF WriteStamp
  <2>2. CASE CanStamp(stamp[c]) /\ Stamp(stamp[c])
    BY <1>6, <2>2, StampEffect DEF WriteStamp
  <2> QED BY <1>6, <2>1, <2>2 DEF WriteStamp
<1>7. ASSUME NEW c \in Slots, NEW id \in Ids, WriteAdopt(c, id)
      PROVE  UnfinishedIsBlank' /\ MarkPackages'
  <2>1. CASE AdoptRollback(adopt[c])
    BY <1>7, <2>1 DEF WriteAdopt, AdoptRollback
  <2>2. CASE AdoptCommit(adopt[c], id)
    BY <1>7, <2>2, StampEffect DEF WriteAdopt, AdoptCommit
  <2> QED BY <1>7, <2>1, <2>2 DEF WriteAdopt
<1>8. ASSUME NEW c \in Slots, Abort(c) PROVE UnfinishedIsBlank' /\ MarkPackages'
  BY <1>8 DEF Abort, Without, tables
<1> QED BY <1>1, <1>2, <1>3, <1>4, <1>5, <1>6, <1>7, <1>8
        DEF Next, BeginStamp, BeginAdopt, BeginConfirm, WriteConfirm, tables, vars, calls

LEMMA NextArguments == IInv /\ [Next]_vars => AdoptArguments' /\ ConfirmArguments'
<1> SUFFICES ASSUME IInv, [Next]_vars PROVE AdoptArguments' /\ ConfirmArguments'
    OBVIOUS
<1>1. OnlyGrows /\ Candidates \subseteq Candidates'
  BY NextGrows, CandidatesGrow DEF IInv
<1>2. ASSUME NEW c \in DOMAIN adopt
      PROVE  LET r == adopt[c].run IN
             /\ r \in DOMAIN run'
             /\ run'[r].status = "succeeded"
             /\ adopt[c] = [account |-> run'[r].account, day |-> run'[r].day, run |-> r,
                            sheet |-> SheetOf(run'[r].parsed, run'[r].ctx)]
  BY <1>1 DEF IInv, AdoptArguments, OnlyGrows
<1>3. ASSUME \A c \in DOMAIN adopt' : c \in DOMAIN adopt /\ adopt'[c] = adopt[c]
      PROVE  AdoptArguments'
  BY <1>2, <1>3 DEF AdoptArguments
<1>4. ASSUME NEW c \in Slots, NEW r \in Runs, BeginAdopt(c, r) PROVE AdoptArguments'
  <2>1. run' = run /\ r \in DOMAIN run /\ run[r].status = "succeeded"
    BY <1>4 DEF BeginAdopt, CanStamp, tables
  <2>2. \A x \in DOMAIN adopt' \ {c} : x \in DOMAIN adopt /\ adopt'[x] = adopt[x]
    BY <1>4 DEF BeginAdopt, With
  <2>3. adopt'[c] = [account |-> run[r].account, day |-> run[r].day, run |-> r,
                     sheet |-> SheetOf(run[r].parsed, run[r].ctx)]
    BY <1>4 DEF BeginAdopt, With
  <2> QED BY <1>2, <2>1, <2>2, <2>3 DEF AdoptArguments
<1>5. AdoptArguments'
  BY <1>3, <1>4 DEF Next, Create, SetFingerprint, BeginMark, BeginStamp, BeginConfirm, WriteMark,
         WriteStamp, WriteAdopt, WriteConfirm, Abort, Without, vars, calls
<1>6. ASSUME \A c \in DOMAIN confirm' : c \in DOMAIN confirm /\ confirm'[c] = confirm[c]
      PROVE  ConfirmArguments'
  BY <1>1, <1>6 DEF IInv, ConfirmArguments
<1>7. ASSUME NEW c \in Slots, NEW k \in Candidates, NEW a \in Actions, BeginConfirm(c, k, a)
      PROVE  ConfirmArguments'
  <2>1. \A x \in DOMAIN confirm' \ {c} : x \in DOMAIN confirm /\ confirm'[x] = confirm[x]
    BY <1>7 DEF BeginConfirm, With
  <2>2. confirm'[c].candidate \in Candidates
    BY <1>7 DEF BeginConfirm, With
  <2> QED BY <1>1, <2>1, <2>2 DEF IInv, ConfirmArguments
<1>8. ConfirmArguments'
  BY <1>6, <1>7 DEF Next, Create, SetFingerprint, BeginMark, BeginStamp, BeginAdopt, WriteMark,
         WriteStamp, WriteAdopt, WriteConfirm, Abort, Without, vars, calls
<1> QED BY <1>5, <1>8

LEMMA NextConfirmedOnce == IInv /\ [Next]_vars => ConfirmedOnce'
<1> SUFFICES ASSUME IInv, [Next]_vars PROVE ConfirmedOnce'
    OBVIOUS
<1>1. Candidates \subseteq Candidates'
  BY NextGrows, CandidatesGrow DEF IInv
<1>2. CASE decision' = decision
  BY <1>1, <1>2 DEF IInv, ConfirmedOnce
<1>3. ASSUME NEW c \in Slots, NEW id \in Ids, WriteConfirm(c, id), decision' # decision
      PROVE  ConfirmedOnce'
  <2>1. /\ CanInsertDecision(confirm[c].candidate)
        /\ decision' = [d \in DOMAIN decision \cup {id} |->
                           IF d = id THEN confirm[c] ELSE decision[d]]
        /\ id \notin DOMAIN decision
        /\ confirm[c].candidate \in Candidates
    BY <1>3 DEF WriteConfirm, InsertDecision, IInv, ConfirmArguments
  <2> QED BY <1>1, <2>1 DEF IInv, ConfirmedOnce, CanInsertDecision
<1> QED BY <1>2, <1>3
        DEF Next, Create, SetFingerprint, BeginMark, BeginStamp, BeginAdopt, BeginConfirm,
            WriteMark, WriteStamp, WriteAdopt, Abort, vars, tables

\* What a step does to sheets and stamps: nothing, a stamp by mark_adopted, or
\* a stamp together with the sheet.
LEMMA SheetSteps ==
    ASSUME IInv, [Next]_vars
    PROVE  \/ /\ session' = session /\ direct' = direct
              /\ \A r \in DOMAIN run : run'[r].adopted = run[r].adopted
              /\ \A r \in DOMAIN run' \ DOMAIN run : ~run'[r].adopted
           \/ \E r \in Runs : /\ CanStamp(r) /\ Stamp(r)
                              /\ session' = session /\ direct' = direct \cup {r}
           \/ \E c \in DOMAIN adopt, id \in Ids \ DOMAIN session :
                 AdoptCommit(adopt[c], id) /\ direct' = direct
<1> DEFINE Same == /\ session' = session /\ direct' = direct
                   /\ \A r \in DOMAIN run : run'[r].adopted = run[r].adopted
                   /\ \A r \in DOMAIN run' \ DOMAIN run : ~run'[r].adopted
<1>1. CASE UNCHANGED <<run, session, direct>>
  BY <1>1
<1>2. ASSUME NEW r \in Runs, NEW a \in Accounts, NEW d \in Days, NEW x \in Contexts,
             Create(r, a, d, x)
      PROVE  Same
  BY <1>2 DEF Create, InsertRun
<1>3. ASSUME NEW r \in Runs, SetFingerprint(r) PROVE Same
  BY <1>3 DEF SetFingerprint, SetPromptFingerprint, IInv, TypeOK, RunRow, RowsOver
<1>4. ASSUME NEW c \in Slots, WriteMark(c) PROVE Same
  <2>1. CASE ~MarkHits(c)
    BY <1>4, <2>1 DEF WriteMark
  <2>2. CASE MarkHits(c)
    BY <1>4, <2>2 DEF WriteMark, UpdateStatus, IInv, TypeOK, RunRow, RowsOver
  <2> QED BY <2>1, <2>2
<1>5. ASSUME NEW c \in Slots, WriteStamp(c)
      PROVE  \/ Same
             \/ \E r \in Runs : /\ CanStamp(r) /\ Stamp(r)
                                /\ session' = session /\ direct' = direct \cup {r}
  <2>1. stamp[c] \in Runs
    BY <1>5 DEF WriteStamp, IInv, TypeOK
  <2> QED BY <1>5, <2>1 DEF WriteStamp
<1>6. ASSUME NEW c \in Slots, NEW id \in Ids, WriteAdopt(c, id)
      PROVE  \/ Same
             \/ \E k \in DOMAIN adopt, i \in Ids \ DOMAIN session :
                   AdoptCommit(adopt[k], i) /\ direct' = direct
  <2>1. CASE AdoptRollback(adopt[c])
    BY <1>6, <2>1 DEF WriteAdopt, AdoptRollback
  <2>2. CASE AdoptCommit(adopt[c], id)
    BY <1>6, <2>2 DEF WriteAdopt
  <2> QED BY <1>6, <2>1, <2>2 DEF WriteAdopt
<1> QED BY <1>1, <1>2, <1>3, <1>4, <1>5, <1>6
        DEF Next, BeginMark, BeginStamp, BeginAdopt, BeginConfirm, WriteConfirm, Abort,
            vars, tables

LEMMA NextSheets == IInv /\ [Next]_vars => SheetAndStampTogether' /\ SheetIsWholeProposal'
<1> SUFFICES ASSUME IInv, [Next]_vars PROVE SheetAndStampTogether' /\ SheetIsWholeProposal'
    OBVIOUS
<1>1. OnlyGrows
  BY NextGrows DEF IInv
\* The sheets there were before still match their runs.
<1>2. ASSUME NEW s \in DOMAIN session
      PROVE  LET r == session[s].run IN
             /\ r \in DOMAIN run'
             /\ run'[r].status = "succeeded"
             /\ session[s] = [account |-> run'[r].account, day |-> run'[r].day, run |-> r,
                              sheet |-> SheetOf(run'[r].parsed, run'[r].ctx)]
  BY <1>1 DEF IInv, SheetIsWholeProposal, OnlyGrows
<1>3. CASE /\ session' = session /\ direct' = direct
           /\ \A r \in DOMAIN run : run'[r].adopted = run[r].adopted
           /\ \A r \in DOMAIN run' \ DOMAIN run : ~run'[r].adopted
  <2>1. SheetIsWholeProposal'
    BY <1>2, <1>3 DEF IInv, SheetIsWholeProposal
  <2>2. \A r \in direct : r \in DOMAIN run
    BY DEF IInv, DirectRuns
  <2> QED BY <1>3, <2>1, <2>2 DEF IInv, SheetAndStampTogether, SheetIsWholeProposal
<1>4. ASSUME NEW r \in Runs, CanStamp(r), Stamp(r), session' = session,
             direct' = direct \cup {r}
      PROVE  SheetAndStampTogether' /\ SheetIsWholeProposal'
  <2>1. SheetIsWholeProposal'
    BY <1>2, <1>4 DEF IInv, SheetIsWholeProposal
  <2>2. \A s \in DOMAIN session : session[s].run # r
    BY <1>4 DEF CanStamp, IInv, SheetAndStampTogether
  <2>3. SheetAndStampTogether'
    <3>1. /\ DOMAIN run' = DOMAIN run
          /\ \A x \in DOMAIN run : run'[x].adopted = IF x = r THEN TRUE ELSE run[x].adopted
      BY <1>4, StampEffect DEF IInv
    <3>2. \A x \in DOMAIN run' : run'[x].adopted <=>
             x \in direct' \/ \E s \in DOMAIN session' : session'[s].run = x
      BY <1>4, <3>1 DEF IInv, SheetAndStampTogether
    <3> QED BY <1>4, <2>2, <3>2 DEF IInv, SheetAndStampTogether
  <2> QED BY <2>1, <2>3
<1>5. ASSUME NEW c \in DOMAIN adopt, NEW id \in Ids \ DOMAIN session,
             AdoptCommit(adopt[c], id), direct' = direct
      PROVE  SheetAndStampTogether' /\ SheetIsWholeProposal'
  <2> DEFINE r == adopt[c].run
  <2>1. /\ CanStamp(r) /\ Stamp(r)
        /\ CanInsertSession(adopt[c].account, adopt[c].day, adopt[c].sheet)
        /\ session' = [s \in DOMAIN session \cup {id} |->
                          IF s = id THEN adopt[c] ELSE session[s]]
    BY <1>5 DEF AdoptCommit, InsertSession
  <2>2. /\ r \in DOMAIN run
        /\ \A s \in DOMAIN session : session[s].run # r
        /\ r \notin direct
    BY <2>1 DEF CanStamp, IInv, SheetAndStampTogether
  <2>3. SheetAndStampTogether'
    <3>1. /\ DOMAIN run' = DOMAIN run
          /\ \A x \in DOMAIN run : run'[x].adopted = IF x = r THEN TRUE ELSE run[x].adopted
      BY <2>1, StampEffect DEF IInv
    <3>2. \A x : (\E s \in DOMAIN session' : session'[s].run = x)
                 <=> x = r \/ \E s \in DOMAIN session : session[s].run = x
      BY <1>5, <2>1
    <3>3. \A x \in DOMAIN run' : run'[x].adopted <=>
             x \in direct' \/ \E s \in DOMAIN session' : session'[s].run = x
      BY <1>5, <3>1, <3>2 DEF IInv, SheetAndStampTogether
    <3>4. \A s \in DOMAIN session' : session'[s].run \notin direct'
      BY <1>5, <2>1, <2>2 DEF IInv, SheetAndStampTogether
    <3>5. \A s, t \in DOMAIN session' : session'[s].run = session'[t].run => s = t
      BY <2>1, <2>2 DEF IInv, SheetAndStampTogether
    <3> QED BY <3>3, <3>4, <3>5 DEF SheetAndStampTogether
  <2>4. /\ run'[r].status = "succeeded"
        /\ adopt[c] = [account |-> run'[r].account, day |-> run'[r].day, run |-> r,
                       sheet |-> SheetOf(run'[r].parsed, run'[r].ctx)]
        /\ r \in DOMAIN run'
    BY <1>1, <2>2 DEF IInv, AdoptArguments, OnlyGrows
  <2>5. SheetIsWholeProposal'
    BY <1>2, <2>1, <2>4 DEF IInv, SheetIsWholeProposal, CanInsertSession
  <2> QED BY <2>3, <2>5
<1> QED BY <1>3, <1>4, <1>5, SheetSteps

LEMMA NextDirect == IInv /\ [Next]_vars => DirectRuns'
<1> SUFFICES ASSUME IInv, [Next]_vars PROVE DirectRuns'
    OBVIOUS
<1>1. OnlyGrows
  BY NextGrows DEF IInv
<1> QED BY <1>1, SheetSteps DEF IInv, DirectRuns, OnlyGrows, CanStamp

LEMMA NextIInv == IInv /\ [Next]_vars => IInv'
BY NextType, NextWinner, NextBlank, NextArguments, NextConfirmedOnce, NextSheets, NextDirect
   DEF IInv

------------------------------------------------------------------------------

\* The strengthened invariant holds of every behaviour.
THEOREM Invariance == Spec => []IInv
<1>1. Init => IInv
  BY InitIInv
<1>2. IInv /\ [Next]_vars => IInv'
  BY NextIInv
<1> QED BY <1>1, <1>2, PTL DEF Spec

\* The tables and the calls in progress are well typed: what create, _transition,
\* adopt_run and confirm write satisfies the schema.
THEOREM TypeCorrect == Spec => []TypeOK
<1>1. IInv => TypeOK
  BY DEF IInv
<1> QED BY <1>1, Invariance, PTL

\* At most one of any number of concurrent finishers of a run is told that it
\* succeeded, and what that one wrote stays.
THEOREM OneWinner == Spec => []FinishHasOneWinner
<1>1. IInv => FinishHasOneWinner
  BY DEF IInv
<1> QED BY <1>1, Invariance, PTL

\* Adoption is all or nothing under any interleaving with other adoptions and
\* with mark_adopted.
THEOREM AdoptionIsAtomic == Spec => []SheetAndStampTogether
<1>1. IInv => SheetAndStampTogether
  BY DEF IInv
<1> QED BY <1>1, Invariance, PTL

\* One sheet per account and day, and each is the whole proposal of one run.
THEOREM OneWholeSheet == Spec => []SheetIsWholeProposal
<1>1. IInv => SheetIsWholeProposal
  BY DEF IInv
<1> QED BY <1>1, Invariance, PTL

\* One decision per candidate, each about a candidate on a sheet.
THEOREM OneDecision == Spec => []ConfirmedOnce
<1>1. IInv => ConfirmedOnce
  BY DEF IInv
<1> QED BY <1>1, Invariance, PTL

\* No step of any call rewrites a finished run, a sheet or a decision.
THEOREM NothingRewritten == Spec => HistoryOnlyGrows
<1>1. IInv /\ [Next]_vars => [OnlyGrows]_vars
  BY NextGrows DEF IInv
<1> QED BY <1>1, Invariance, PTL DEF Spec, HistoryOnlyGrows

=============================================================================
