---------------------------- MODULE AgentRunStore ----------------------------
(***************************************************************************)
(* The repositories over the advice half of live.db under concurrent       *)
(* callers: AgentRunRepository, OpsRepository and the reads that           *)
(* LiveDecisionService.adopt makes before it calls adopt_run.              *)
(*                                                                         *)
(* Every web request has a connection of its own and runs in a thread      *)
(* pool, so calls interleave between a read and the write that follows it. *)
(* A call that has passed the checks made in Python occupies a slot until  *)
(* its write has been tried; a call refused by those checks (the row is    *)
(* missing, or does not admit the change) changes nothing, which is a      *)
(* stuttering step.  Calls of one statement without a read before it       *)
(* (create, set_prompt_fingerprint) are single actions.                    *)
(***************************************************************************)
EXTENDS RunTables

VARIABLES
    mark,       \* slot -> a mark_running / mark_succeeded / mark_failed before its UPDATE
    stamp,      \* slot -> a mark_adopted before its UPDATE
    adopt,      \* slot -> the arguments of an adopt_run before its transaction
    confirm,    \* slot -> a confirm before its INSERT
    finishAcks, \* history: run_id -> the finishes that callers were told succeeded
    direct      \* history: the runs that mark_adopted stamped

calls == <<mark, stamp, adopt, confirm>>

vars == <<tables, calls, finishAcks, direct>>

Targets == {"running", "succeeded", "failed"}

MarkCall == [run : Runs, target : Targets, package : Packages]

ConfirmCall == DecisionRow

Free(c) == c \in Slots \ (DOMAIN mark \cup DOMAIN stamp \cup DOMAIN adopt \cup DOMAIN confirm)

Init ==
    /\ run = << >> /\ session = << >> /\ decision = << >>
    /\ mark = << >> /\ stamp = << >> /\ adopt = << >> /\ confirm = << >>
    /\ finishAcks = [r \in Runs |-> << >>]
    /\ direct = {}

------------------------------------------------------------------------------
(* AgentRunRepository *)

Create(r, account, day, ctx) ==
    /\ InsertRun(r, account, day, ctx)
    /\ UNCHANGED <<session, decision, calls, finishAcks, direct>>

SetFingerprint(r) ==
    /\ r \in DOMAIN run
    /\ SetPromptFingerprint(r)
    /\ UNCHANGED <<session, decision, calls, finishAcks, direct>>

\* _transition up to its UPDATE: require, then the table of legal successors.
BeginMark(c, r, target, package) ==
    /\ Free(c)
    /\ CanUpdateStatus(r, target)
    /\ target # "succeeded" => package = << >>
    /\ mark' = With(mark, c, [run |-> r, target |-> target, package |-> package])
    /\ UNCHANGED <<tables, stamp, adopt, confirm, finishAcks, direct>>

\* The caller is told of the change, or the answer is lost on its way.
Acknowledge(call) ==
    \/ /\ call.target \in Terminal
       /\ finishAcks' = [finishAcks EXCEPT ![call.run] = Append(@, call)]
    \/ UNCHANGED finishAcks

\* A slip: the UPDATE finds its row by run_id alone.
MarkHitsByKey(c) == mark[c].run \in DOMAIN run

\* Whether the UPDATE will find its row in a status it may leave.
MarkHits(c) == CanUpdateStatus(mark[c].run, mark[c].target)

\* The UPDATE and the reading of its rowcount: 1, or the IllegalTransitionError.
WriteMark(c) ==
    /\ c \in DOMAIN mark
    /\ \/ /\ MarkHits(c)
          /\ UpdateStatus(mark[c].run, mark[c].target, mark[c].package)
          /\ Acknowledge(mark[c])
       \/ /\ ~MarkHits(c)
          /\ UNCHANGED <<run, finishAcks>>
    /\ mark' = Without(mark, c)
    /\ UNCHANGED <<session, decision, stamp, adopt, confirm, direct>>

\* mark_adopted up to its UPDATE: require, status, adopted_at.
BeginStamp(c, r) ==
    /\ Free(c)
    /\ CanStamp(r)
    /\ stamp' = With(stamp, c, r)
    /\ UNCHANGED <<tables, mark, adopt, confirm, finishAcks, direct>>

WriteStamp(c) ==
    /\ c \in DOMAIN stamp
    /\ \/ /\ CanStamp(stamp[c])
          /\ Stamp(stamp[c])
          /\ direct' = direct \cup {stamp[c]}
       \/ /\ ~CanStamp(stamp[c])
          /\ UNCHANGED <<run, direct>>
    /\ stamp' = Without(stamp, c)
    /\ UNCHANGED <<session, decision, mark, adopt, confirm, finishAcks>>

------------------------------------------------------------------------------
(* LiveDecisionService.adopt and OpsRepository *)

\* adopt up to adopt_run: the row is read once, checked, and turned into the
\* arguments of adopt_run.
BeginAdopt(c, r) ==
    /\ Free(c)
    /\ CanStamp(r)
    /\ adopt' = With(adopt, c, [account |-> run[r].account, day |-> run[r].day, run |-> r,
                                sheet   |-> SheetOf(run[r].parsed, run[r].ctx)])
    /\ UNCHANGED <<tables, mark, stamp, confirm, finishAcks, direct>>

WriteAdopt(c, id) ==
    /\ c \in DOMAIN adopt
    /\ id \notin DOMAIN session
    /\ AdoptCommit(adopt[c], id) \/ AdoptRollback(adopt[c])
    /\ adopt' = Without(adopt, c)
    /\ UNCHANGED <<decision, mark, stamp, confirm, finishAcks, direct>>

\* confirm up to its INSERT: the candidate must exist.
BeginConfirm(c, candidate, action) ==
    /\ Free(c)
    /\ candidate \in Candidates
    /\ confirm' = With(confirm, c, [candidate |-> candidate, action |-> action])
    /\ UNCHANGED <<tables, mark, stamp, adopt, finishAcks, direct>>

WriteConfirm(c, id) ==
    /\ c \in DOMAIN confirm
    /\ id \notin DOMAIN decision
    /\ \/ /\ CanInsertDecision(confirm[c].candidate)
          /\ InsertDecision(id, confirm[c])
       \/ /\ ~CanInsertDecision(confirm[c].candidate)
          /\ UNCHANGED decision
    /\ confirm' = Without(confirm, c)
    /\ UNCHANGED <<run, session, mark, stamp, adopt, finishAcks, direct>>

\* A call ends before its write: the process dies, or the write lock is not free
\* within busy_timeout and the statement raises.
Abort(c) ==
    /\ c \in Slots /\ ~Free(c)
    /\ mark' = Without(mark, c)
    /\ stamp' = Without(stamp, c)
    /\ adopt' = Without(adopt, c)
    /\ confirm' = Without(confirm, c)
    /\ UNCHANGED <<tables, finishAcks, direct>>

Next ==
    \/ \E r \in Runs, a \in Accounts, d \in Days, x \in Contexts : Create(r, a, d, x)
    \/ \E r \in Runs : SetFingerprint(r)
    \/ \E c \in Slots, r \in Runs, t \in Targets, p \in Packages : BeginMark(c, r, t, p)
    \/ \E c \in Slots, r \in Runs : BeginStamp(c, r) \/ BeginAdopt(c, r)
    \/ \E c \in Slots, k \in Candidates, a \in Actions : BeginConfirm(c, k, a)
    \/ \E c \in Slots : WriteMark(c) \/ WriteStamp(c) \/ Abort(c)
    \/ \E c \in Slots, id \in Ids : WriteAdopt(c, id) \/ WriteConfirm(c, id)

Spec == Init /\ [][Next]_vars

------------------------------------------------------------------------------
(* Properties *)

\* Every table and every call holds the columns and values the schema allows.
TypeOK ==
    /\ run \in [DOMAIN run -> RunRow] /\ DOMAIN run \subseteq Runs
    /\ session \in [DOMAIN session -> SessionRow] /\ DOMAIN session \subseteq Ids
    /\ decision \in [DOMAIN decision -> DecisionRow] /\ DOMAIN decision \subseteq Ids
    /\ mark \in [DOMAIN mark -> MarkCall] /\ DOMAIN mark \subseteq Slots
    /\ stamp \in [DOMAIN stamp -> Runs] /\ DOMAIN stamp \subseteq Slots
    /\ adopt \in [DOMAIN adopt -> SessionRow] /\ DOMAIN adopt \subseteq Slots
    /\ confirm \in [DOMAIN confirm -> ConfirmCall] /\ DOMAIN confirm \subseteq Slots
    /\ finishAcks \in [Runs -> Seq(MarkCall)]
    /\ direct \subseteq Runs

\* Two processes may finish one run at the same time and both pass the check in
\* Python; at most one of them is told that it succeeded, and the run keeps
\* exactly the outcome and the output which that one wrote (_transition).
FinishHasOneWinner ==
    \A r \in Runs :
        /\ Len(finishAcks[r]) <= 1
        /\ finishAcks[r] # << >> =>
              /\ r \in DOMAIN run
              /\ run[r].status = finishAcks[r][1].target
              /\ run[r].parsed = finishAcks[r][1].package

\* A sheet and the stamp of its run stand or fall together: the adopt that loses
\* the race for a day leaves no stamp behind, and one run never serves both a
\* sheet and a mark_adopted, nor two sheets (adopt_run, stamp_adopted).
SheetAndStampTogether ==
    /\ \A r \in DOMAIN run :
          run[r].adopted <=> r \in direct \/ \E s \in DOMAIN session : session[s].run = r
    /\ \A s \in DOMAIN session : session[s].run \notin direct
    /\ \A s, t \in DOMAIN session : session[s].run = session[t].run => s = t

\* An account has one sheet a day, and a sheet is the whole of one finished
\* proposal: that run's account and day, its candidates in their order, the
\* blocked ones too, each with the verdict on the context that run froze, however
\* long before the write its row was read (adopt, adopt_run).
SheetIsWholeProposal ==
    /\ \A s, t \in DOMAIN session :
          session[s].account = session[t].account /\ session[s].day = session[t].day => s = t
    /\ \A s \in DOMAIN session : LET r == session[s].run IN
          /\ r \in DOMAIN run
          /\ run[r].status = "succeeded"
          /\ session[s] = [account |-> run[r].account, day |-> run[r].day, run |-> r,
                           sheet |-> SheetOf(run[r].parsed, run[r].ctx)]

\* Of several people confirming one candidate at the same time one decision is
\* kept, and every decision is about a candidate that stands on a sheet (confirm).
ConfirmedOnce ==
    /\ \A d \in DOMAIN decision : decision[d].candidate \in Candidates
    /\ \A d, e \in DOMAIN decision : decision[d].candidate = decision[e].candidate => d = e

\* No call rewrites history: the account, the day and the frozen context of a run
\* never change, a finished run keeps its status and output, a stamp stays, and
\* sheets and decisions are only ever added.
OnlyGrows ==
    /\ \A r \in DOMAIN run :
          /\ r \in DOMAIN run'
          /\ run'[r].account = run[r].account
          /\ run'[r].day = run[r].day
          /\ run'[r].ctx = run[r].ctx
          /\ run[r].adopted => run'[r].adopted
          /\ run[r].status \in Terminal => /\ run'[r].status = run[r].status
                                           /\ run'[r].parsed = run[r].parsed
    /\ \A s \in DOMAIN session : s \in DOMAIN session' /\ session'[s] = session[s]
    /\ \A d \in DOMAIN decision : d \in DOMAIN decision' /\ decision'[d] = decision[d]

HistoryOnlyGrows == [][OnlyGrows]_vars

=============================================================================
