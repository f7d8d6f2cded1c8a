------------------------------ MODULE RunTables ------------------------------
(***************************************************************************)
(* The advice half of live.db: the tables agent_run, ops_session (with its *)
(* ops_candidate rows) and decision, and the statements that               *)
(* youzi/store/agent_run_repo.py and youzi/store/ops_repo.py send to them. *)
(*                                                                         *)
(* A table is a function whose domain is the set of primary keys present.  *)
(* SQLite has a single writer and every write below is a transaction of    *)
(* its own, so a statement (for adoption: the transaction) is one atomic   *)
(* change; what the Python code read before it may be stale by then.  A    *)
(* statement comes as the condition under which it changes a row and the   *)
(* effect it has then; the callers say what they do when it changes none.  *)
(* "A slip" is a plausible mistake in the definition that follows it; the  *)
(* model does not use it, and the README says what it is for.              *)
(***************************************************************************)
EXTENDS Naturals, Sequences, LiveDb, CandidateCheck

CONSTANTS
    Runs,        \* run_id
    Ids,         \* the uuid4 values drawn for session_id and decision_id
    Days,        \* trade_date
    Contexts,    \* frozen account contexts: [absolute, cash, ...]
    Packages,    \* parsed decisions: sequences of entries [code, board, st, close]
    Actions      \* what a human may decide on a candidate

ASSUME ActionsAssumption == Actions \subseteq {"buy", "skip", "watch"}

\* Entries are whatever the checks need to see; only their order matters here.
ASSUME PackagesAssumption == \A p \in Packages : DOMAIN p = 1 .. Len(p) /\ Len(p) \in Nat

\* The reading of a parsed_output_json that was never written.
ASSUME EmptyPackage == << >> \in Packages

VARIABLES
    run,         \* agent_run   : run_id      -> row
    session,     \* ops_session : session_id  -> row with its candidate rows in rank order
    decision     \* decision    : decision_id -> row

tables == <<run, session, decision>>

Statuses == {"pending", "running", "succeeded", "failed"}

Terminal == {"succeeded", "failed"}

\* A slip: a failed run may be tried again.
AllowedWithRetry(status) ==
    CASE status = "pending"   -> {"running", "failed"}
      [] status = "running"   -> {"succeeded", "failed"}
      [] status = "failed"    -> {"running"}
      [] status = "succeeded" -> {}

\* The successors of a status (_ALLOWED).
Allowed(status) ==
    CASE status = "pending"  -> {"running", "failed"}
      [] status = "running"  -> {"succeeded", "failed"}
      [] status \in Terminal -> {}

RowsOver(contexts) ==
    [account : Accounts, day : Days, ctx : contexts, status : Statuses,
     parsed : Packages, fingerprint : BOOLEAN, adopted : BOOLEAN]

RunRow == RowsOver(Contexts)

\* The candidate rows of a sheet: one per proposed code, the blocked ones kept,
\* each with the verdict on the context frozen in the run.
SheetOf(package, ctx) ==
    [i \in DOMAIN package |-> [code  |-> package[i].code,
                               check |-> CheckCandidate(package[i], ctx)]]

Sheets == {SheetOf(p, x) : p \in Packages, x \in Contexts}

SessionRow == [account : Accounts, day : Days, run : Runs, sheet : Sheets]

\* A candidate_id: the sheet it stands on and its rank there.
CandidateIds == Ids \X (Nat \ {0})

DecisionRow == [candidate : CandidateIds, action : Actions]

------------------------------------------------------------------------------
(* agent_run *)

\* A slip: account_context_json is left out of the INSERT.
InsertRunWithoutContext(r, account, day, ctx) ==
    /\ r \notin DOMAIN run
    /\ run' = [x \in DOMAIN run \cup {r} |->
                 IF x = r
                 THEN [account |-> account, day |-> day,
                       status |-> "pending", parsed |-> << >>,
                       fingerprint |-> FALSE, adopted |-> FALSE]
                 ELSE run[x]]

\* INSERT ... 'pending'.  run_id is a new uuid.
InsertRun(r, account, day, ctx) ==
    /\ r \notin DOMAIN run
    /\ run' = [x \in DOMAIN run \cup {r} |->
                 IF x = r
                 THEN [account |-> account, day |-> day, ctx |-> ctx,
                       status |-> "pending", parsed |-> << >>,
                       fingerprint |-> FALSE, adopted |-> FALSE]
                 ELSE run[x]]

\* UPDATE ... WHERE run_id = ? AND status IN (legal_from)
CanUpdateStatus(r, target) ==
    /\ r \in DOMAIN run
    /\ target \in Allowed(run[r].status)

UpdateStatus(r, target, package) ==
    run' = [run EXCEPT ![r].status = target,
                       ![r].parsed = IF target = "succeeded" THEN package ELSE @]

\* UPDATE ... SET prompt_fingerprint: in any status, and only this column.
SetPromptFingerprint(r) == run' = [run EXCEPT ![r].fingerprint = TRUE]

\* stamp_adopted: UPDATE ... WHERE status = 'succeeded' AND adopted_at IS NULL
CanStamp(r) ==
    /\ r \in DOMAIN run
    /\ run[r].status = "succeeded"
    /\ ~run[r].adopted

Stamp(r) == run' = [run EXCEPT ![r].adopted = TRUE]

------------------------------------------------------------------------------
(* ops_session, ops_candidate, decision *)

\* A slip: the key takes in what is proposed, so that two proposals fit into one day.
CanInsertSessionPerProposal(account, day, sheet) ==
    /\ \A s \in DOMAIN session :
          <<session[s].account, session[s].day, session[s].sheet>> # <<account, day, sheet>>
    /\ \A i, j \in DOMAIN sheet : sheet[i].code = sheet[j].code => i = j

\* UNIQUE (account_id, trade_date) and UNIQUE (session_id, code)
CanInsertSession(account, day, sheet) ==
    /\ \A s \in DOMAIN session : session[s].account = account => session[s].day # day
    /\ \A i, j \in DOMAIN sheet : sheet[i].code = sheet[j].code => i = j

InsertSession(id, row) ==
    session' = [s \in DOMAIN session \cup {id} |-> IF s = id THEN row ELSE session[s]]

Candidates == UNION {{<<s, i>> : i \in DOMAIN session[s].sheet} : s \in DOMAIN session}

\* adopt_run: stamp, session and candidates in one transaction.
AdoptCommit(row, id) ==
    /\ CanStamp(row.run)
    /\ CanInsertSession(row.account, row.day, row.sheet)
    /\ Stamp(row.run)
    /\ InsertSession(id, row)

\* A slip: the stamp is committed on its own, so that the IntegrityError of a
\* later INSERT no longer takes it back.
AdoptRollbackKeepsStamp(row) ==
    /\ CanStamp(row.run)
    /\ ~CanInsertSession(row.account, row.day, row.sheet)
    /\ Stamp(row.run)
    /\ UNCHANGED session

\* The stamp hit no row, or an INSERT broke a UNIQUE: the tables stay as they were.
AdoptRollback(row) ==
    /\ ~CanStamp(row.run) \/ ~CanInsertSession(row.account, row.day, row.sheet)
    /\ UNCHANGED <<run, session>>

\* A slip: no UNIQUE (candidate_id), only the primary key.
CanInsertDecisionAgain(candidate) == candidate \in Candidates

\* UNIQUE (candidate_id)
CanInsertDecision(candidate) == \A d \in DOMAIN decision : decision[d].candidate # candidate

InsertDecision(id, row) ==
    decision' = [d \in DOMAIN decision \cup {id} |-> IF d = id THEN row ELSE decision[d]]

=============================================================================
