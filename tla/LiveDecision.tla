----------------------------- MODULE LiveDecision -----------------------------
(***************************************************************************)
(* Running advice (youzi/application/live_decision.py,                     *)
(* LiveDecisionService.run) while fills are reported and accounts opened:  *)
(* the account and the market are frozen, the model is asked, and the      *)
(* outcome is written to the run.                                          *)
(*                                                                         *)
(* run() is one request in one thread with one connection.  It is the only *)
(* caller that knows its run_id until it is done, so a transition of its   *)
(* own row is a single step here; what moves under its feet is the ledger. *)
(* A frozen context is reduced to its clock stamp and to what it is a      *)
(* function of: the baseline and the fills that the fold has read.         *)
(* Adopting the finished run is in AgentRunStore.                          *)
(***************************************************************************)
EXTENDS AccountLedger, RunTables, Integers, FiniteSetsExt

VARIABLE
    call         \* run_id -> the run() that will draw, or has drawn, this uuid

dvars == <<lvars, tables, call>>

NoBaseline == -1

NoSource == ""

Ended == {"returned", "lost"}

\* What run() does next.
RunStages == {"baseline", "fills", "snapshot", "create", "start", "observe", "answer",
              "fail", "fingerprint", "finish"} \cup Ended

Bases == Times \cup {NoBaseline}

BaseSources == Sources \cup {NoSource}

\* `known` is history: how many fills were booked when frozen_at was read.
RunCall == [account : Accounts, day : Days, stage : RunStages, as_of : Times,
            base : Bases, source : BaseSources, fills : SUBSET Nat,
            prompted : BOOLEAN, package : Packages, known : Nat]

FrozenContext == [as_of : Times, base : Bases, source : BaseSources, fills : SUBSET Nat]

ContextOf(r) == [as_of  |-> call[r].as_of, base  |-> call[r].base,
                 source |-> call[r].source, fills |-> call[r].fills]

DecisionInit ==
    /\ LedgerInit
    /\ run = << >> /\ session = << >> /\ decision = << >>
    /\ call = << >>

At(r, stage) == r \in DOMAIN call /\ call[r].stage = stage

Go(r, stage) == call' = [call EXCEPT ![r].stage = stage]

ledgerCalls == <<report, opening, answers>>

------------------------------------------------------------------------------
(* run(), up to the pending row *)

\* The strategy version is good; frozen_at = now.
BeginRun(r, account, day) ==
    /\ r \notin DOMAIN call
    /\ ReadClock
    /\ call' = With(call, r, [account |-> account, day |-> day, stage |-> "baseline",
                              as_of |-> clock, base |-> NoBaseline, source |-> NoSource,
                              fills |-> {}, prompted |-> FALSE, package |-> << >>,
                              known |-> Len(fill)])
    /\ UNCHANGED <<fill, snap, ledgerCalls, tables>>

LatestBaseline(account) == Max(BaselineTimes(account))

\* fold's first read: latest_baseline, its moment and its source.
FoldBaseline(r) ==
    /\ At(r, "baseline")
    /\ \/ /\ HasBaseline(call[r].account)
          /\ LET t == LatestBaseline(call[r].account)
             IN  call' = [call EXCEPT ![r].stage = "fills", ![r].base = t,
                                      ![r].source = snap[<<call[r].account, t>>]]
       \/ ~HasBaseline(call[r].account) /\ Go(r, "fills")
    /\ UNCHANGED <<lvars, tables>>

\* fold's second read: the fills since that baseline, all of them if there is none.
Folded(r) == FillsAfter(call[r].account, call[r].base)

FoldFills(r) ==
    /\ At(r, "fills")
    /\ call' = [call EXCEPT ![r].stage = "snapshot", ![r].fills = Folded(r)]
    /\ UNCHANGED <<lvars, tables>>

\* The frozen copy, for the audit.
PutFrozen(r) ==
    /\ At(r, "snapshot")
    /\ PutSnapshot(call[r].account, call[r].as_of, "frozen")
    /\ Go(r, "create")
    /\ UNCHANGED <<clock, fill, ledgerCalls, tables>>

CreateRun(r) ==
    /\ At(r, "create")
    /\ InsertRun(r, call[r].account, call[r].day, ContextOf(r))
    /\ Go(r, "start")
    /\ UNCHANGED <<lvars, session, decision>>

------------------------------------------------------------------------------
(* run(), from mark_running on *)

MarkRunning(r) ==
    /\ At(r, "start")
    /\ CanUpdateStatus(r, "running") /\ UpdateStatus(r, "running", << >>)
    /\ Go(r, "observe")
    /\ UNCHANGED <<lvars, session, decision>>

\* Market state, universe and prompt are built, and the prompt is recorded; or
\* one of them raises before there is a prompt.
Observe(r) ==
    /\ At(r, "observe")
    /\ \/ call' = [call EXCEPT ![r].stage = "answer", ![r].prompted = TRUE]
       \/ Go(r, "fail")
    /\ UNCHANGED <<lvars, tables>>

\* The model answers and the answer parses; or it raises after its last retry,
\* or the answer does not parse.
Answer(r, package) ==
    /\ At(r, "answer")
    /\ \/ call' = [call EXCEPT ![r].stage = "fingerprint", ![r].package = package]
       \/ Go(r, "fail")
    /\ UNCHANGED <<lvars, tables>>

\* A slip: the error is returned to the client and not written.
MarkFailedOnlyReturns(r) == At(r, "fail") /\ UNCHANGED run /\ Go(r, "returned")

MarkFailed(r) ==
    /\ At(r, "fail")
    /\ CanUpdateStatus(r, "failed") /\ UpdateStatus(r, "failed", << >>)
    /\ Go(r, "returned")

\* A slip: the prompt is recorded if there are candidates, not if it was sent.
WriteFingerprintOfCandidates(r) ==
    /\ At(r, "fingerprint")
    /\ IF call[r].package = << >> THEN UNCHANGED run ELSE SetPromptFingerprint(r)
    /\ Go(r, "finish")

WriteFingerprint(r) ==
    /\ At(r, "fingerprint")
    /\ SetPromptFingerprint(r)
    /\ Go(r, "finish")

MarkSucceeded(r) ==
    /\ At(r, "finish")
    /\ CanUpdateStatus(r, "succeeded") /\ UpdateStatus(r, "succeeded", call[r].package)
    /\ Go(r, "returned")

Finish(r) ==
    /\ MarkFailed(r) \/ WriteFingerprint(r) \/ MarkSucceeded(r)
    /\ UNCHANGED <<lvars, session, decision>>

\* The process dies, or a statement outside the try raises (database is locked).
Lose(r) ==
    /\ r \in DOMAIN call /\ call[r].stage \notin Ended
    /\ Go(r, "lost")
    /\ UNCHANGED <<lvars, tables>>

RunStep(r) ==
    \/ FoldBaseline(r) \/ FoldFills(r) \/ PutFrozen(r) \/ CreateRun(r) \/ MarkRunning(r)
    \/ Observe(r) \/ (\E p \in Packages : Answer(r, p)) \/ Finish(r)

DecisionNext ==
    \/ LedgerNext /\ UNCHANGED <<tables, call>>
    \/ \E r \in Runs, a \in Accounts, d \in Days : BeginRun(r, a, d)
    \/ \E r \in Runs : RunStep(r) \/ Lose(r)

\* A request runs to its end in its own thread, whatever others do, or is lost;
\* the model is asked a bounded number of times with a bounded back-off.
DecisionSpec == DecisionInit /\ [][DecisionNext]_dvars /\ \A r \in Runs : WF_dvars(RunStep(r))

------------------------------------------------------------------------------
(* Properties *)

\* Calls, rows and frozen contexts hold the values their columns allow.
DecisionTypeOK ==
    /\ LedgerTypeOK
    /\ call \in [DOMAIN call -> RunCall] /\ DOMAIN call \subseteq Runs
    /\ run \in [DOMAIN run -> RowsOver(FrozenContext)] /\ DOMAIN run \subseteq DOMAIN call
    /\ \A r \in DOMAIN run : run[r].ctx = ContextOf(r)

\* A frozen account is complete: a fill booked before frozen_at was read is either
\* among the fills that the fold has counted or older than the baseline it starts
\* from, and that is a baseline somebody put there, never the frozen copy of an
\* earlier run (run: source 'frozen' takes no part in the fold).
FrozenIsComplete ==
    \A r \in DOMAIN run : LET x == run[r].ctx IN
        \A i \in 1 .. call[r].known : fill[i].account = run[r].account =>
            \/ i \in x.fills
            \/ fill[i].at <= x.base /\ x.source \in BaselineSources

\* Nothing happens without a record: a run() that has returned leaves a finished
\* run, and a run that succeeded, even if its thread was lost before it could
\* return, names the prompt that it answers, so that the advice can be reproduced.
OutcomeIsRecorded ==
    /\ \A r \in DOMAIN call : call[r].stage = "returned" =>
          r \in DOMAIN run /\ run[r].status \in Terminal
    /\ \A r \in DOMAIN run : run[r].status = "succeeded" => run[r].fingerprint

\* A run that was created is finished in the end, unless its thread is lost.
Settled(r) ==
    r \in DOMAIN run /\ (run[r].status \in Terminal \/ call[r].stage = "lost")

EveryRunSettles == \A r \in Runs : (r \in DOMAIN run) ~> Settled(r)

\* run's comments: frozen_at is the clock at the moment of freezing, and the fold
\* is the account up to that moment.
FrozenAtIsTheFreeze ==
    \A r \in DOMAIN run : \A i \in run[r].ctx.fills : fill[i].at <= run[r].ctx.as_of

\* _RecordingLLM's docstring: on the exception path the fingerprint is recorded,
\* so that the prompt can be reproduced.
FailureNamesPrompt ==
    \A r \in DOMAIN run : run[r].status = "failed" /\ call[r].prompted => run[r].fingerprint

=============================================================================
