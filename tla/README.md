# Verification of Evolving-Alpha

TLA+ specifications of the parts of Evolving-Alpha whose correctness depends on
order, interleaving, failure or long sequences of calls, the TLC runs that check
them on small instances, and TLAPS proofs that hold for every instance.
`PROJECT.json` is the index: components, runs, mutants, the source lines of
every definition, findings, hazards and theorems.

    tlc -workers 2 -config AgentRunStore.cfg MCAgentRunStore    # a run
    tlapm AgentRunStore_proofs.tla                              # its proofs

## 1. Inventory

The program advises on Chinese A-share "limit-up" trading.  It has two halves
that share the harness H = (p, K, M) - doctrine, skills, memory - and the agent.

**Live half.** A web server (FastAPI, handlers in a thread pool, one SQLite
connection per request, WAL mode, `busy_timeout`) over one file `live.db`.

| component | state | operations | what must hold |
|---|---|---|---|
| agent run store `store/agent_run_repo.py` | table `agent_run`: status, frozen context, output, adoption stamp | create, mark_running / succeeded / failed, set_prompt_fingerprint, mark_adopted | one outcome per run, never rewritten |
| operations store `store/ops_repo.py` | `ops_session`, `ops_candidate`, `decision` | adopt_run (stamp + sheet in one transaction), confirm | one whole sheet per account and day; sheet and stamp together; one decision per candidate |
| account store `store/account_repo.py` | `fill`, `account_snapshot` | record_fill (idempotent by operation_id), open_baseline, put_snapshot, fold | a fill is booked once and not lost; an account is opened once |
| live decision `application/live_decision.py` | one call in progress per request | run (freeze account and market, ask the model, record), adopt, check_candidate | the frozen account is complete; every run leaves a record |
| web API and pages `youzi_web/` | none | two entrances of a fill (form, JSON), opening, adopting, confirming, read-only pages | what an entrance checked still holds when the row is written |

**Learning half.** One thread replays history and lets the harness edit itself.

| component | state | operations | what must hold |
|---|---|---|---|
| editable harness `harness/` | skills with status and statistics, lessons, doctrine, edit log | nine meta-tools, each an edit and its record | the log explains the harness; red lines are never edited |
| snapshots, manager `harness/snapshot.py`, `manager.py` | files `snap_NNNN.json`; the live harness and log | checkpoint, rollback_to | files are whole and final, whatever moment the process dies at |
| refiner `refine/refiner.py`, `ops.py` | the last two reports | four passes p, G, K, M of proposals, gates, caps | no status without its evidence; a refine is bounded |
| credit `refine/credit.py` | statistics inside H | apply_credit, merge_credit_reports | each scored day once, in order |
| inner loop `loop/inner_loop.py` | pending days, scored steps, watermark, breaker days, checkpoints, trips, frozen | run: decide, score, credit, breaker, refine, step | rollbacks undo the right edits; everyone works on the live harness; frozen is final |
| sources and capture `data/` | files of pools and bars, the calendar | capture_window, resumed after a death; providers of bars with a fallback; reading back | a captured window is whole; an outage is not "no data" |
| replay engine, firewall `replay/` | cursor, guard, history of sentiment | observe, step, reset_to; guarded reads | nothing after the cursor is read, history is the past |
| evaluation `eval/` | the drafts of a walk and the pending ones | walk, two scorers, fills at limits, report, daily series | the right days are held; candidate and baseline are one measure; reports agree |
| llm client and cache `llm/` | cache files | complete with retries; modes off, read_only, read_write | a recorded walk is retold; a read_only replay never asks the model |
| features, universe, policies, parser | none | pools to statuses, sentiment and decisions | a code has one status; nothing outside the universe is decided |
| prompts, retrieval, mcp servers, scripts | none | texts, read-only tools, command lines | - |

**How they interact.** `run` reads the account by `fold` while other requests
write it, then owns its `agent_run` row; `adopt` reads that row and writes the
sheet through the operations store; `confirm` writes decisions that a fill may
name.  The inner loop drives the replay engine, the agent and the scorer, feeds
scores to credit, and calls the manager (checkpoint, rollback) and the refiner,
which edits the harness through the meta-tools bound to one pair of objects.
Captures, walks and replays are scripts that meet only in files: what a capture
stored is what every later walk is told, and what a recording walk was answered is
what a replaying one gets.

**What is hard.** Two requests between a read and a write of each other; stamps
drawn before the write lock; a lost answer and its retry; a process that dies
between two statements or in the middle of a file; rollbacks that replace objects
other parts hold references to, while decisions of the old objects still await
their scores; indices and lists that must stay aligned across rollbacks; a capture
that is resumed over its own leavings; decisions scored days later from lists of
days; averages that are taken apart and put together again.
The `hazards` of `PROJECT.json` name each of these at its line.

## 2. Modules

| module | models | extends |
|---|---|---|
| `LiveDb` | accounts, slots of calls in progress | |
| `CandidateCheck` | check_candidate, limits and lots, exact | |
| `RunTables` | the statements on `agent_run`, `ops_*`, `decision` | LiveDb, CandidateCheck |
| `AgentRunStore` | repositories over those tables, concurrent callers | RunTables |
| `IdempotentBook` | abstract: what reporting a fill promises its clients | |
| `AccountTables` | the clock, `fill`, `account_snapshot` and their statements | LiveDb |
| `AccountLedger` | fill reports and openings, concurrent; implements IdempotentBook | AccountTables |
| `AccountFold` | fold and the overview page as queries over the ledger | AccountLedger, Fractions, Filters |
| `LiveDecision` | run() composed with the ledger | AccountLedger, RunTables |
| `Filters` | a list comprehension with a condition, as a recursive function | |
| `Breaker` | the two trip tests of the breaker, exact | |
| `InnerLoop` | InnerLoop.run with harness objects and snapshots | Breaker |
| `Refiner` | meta-tools, log, snapshots, passes, gates, crashes | |
| `Fractions` | exact fractions, for averages | |
| `Market` | one day: pools, universe, market state, sentiment | Fractions |
| `Replay` | the engine with its guard | |
| `Capture` | the store, the live source, capture_window, what is read back | Market, Replay |
| `Settlement` | fill_check, outcomes, the two scorers | Market, CandidateCheck |
| `Policies` | baselines, rule policy, the parser of answers | Market |
| `WalkForward` | captures, walks, sessions and the cache together | Capture, Settlement, Policies |
| `Reports` | report, credit, merge, signatures, daily series | Settlement |
| `Evaluation` | the properties of `WalkForward` | WalkForward, Reports |
| `DataLemmas` | lemmas on sets of numbers, sequences, filters, fractions and finite sums | Filters, Fractions, TLAPS |
| `AgentRunStore_proofs`, `AccountLedger_proofs`, `AccountFold_proofs`, `LiveDecision_proofs`, `InnerLoop_proofs`, `Refiner_proofs`, `Evaluation_proofs` | theorems | their module, DataLemmas, TLAPS |
| `MC...` | values of the constants for TLC | their module |

A definition commented "A slip" is a plausible mistake in the definition that
follows it.  No specification uses one; put in the place of that definition it
must make TLC refute the property that `PROJECT.json` pairs it with under
`mutants`, which shows that the property looks at the code in question.

### State and actions against the code

*Live half.*  A table is a function from primary key to row.  SQLite has one
writer and each write is a statement or a transaction, so it is one step; the
Python code before it is another.  A `Begin...` action is a method up to its
write, with every check it makes on what it read; the `Write...` action is the
SQL with its WHERE clause, UNIQUE constraints and the reading of its rowcount.
`Abort` ends a call anywhere in between (process death, lock timeout, lost
answer).  The history variables `finishAcks`, `created`, `existing`, `refused`
record what clients were told.

*InnerLoop.*  One variable per local of `run()`.  `heap` holds every harness
object made, and `live`, `agent` and `refiner` are references into it, because
`rollback_to` makes a new object and `_rebind` must hand it to everyone.  A
harness is the edits it carries, its log, and the days its statistics have
counted.  `stage` is the place in the loop body; `raised` is an exception of the
agent's or the refiner's model, which leaves `run()`.

*Refiner.*  The model behind the refiner may propose any operation, so every
meta-tool is enabled whenever the code would accept it.  A skill has its status,
the number of its credited trades and the sum of their advantages, and its fields:
a function from the fields a patch may change to what they say, which for a written
skill is what the model supplied.  The record of a patch names the fields with their
values before and after, that of a written skill or lesson says only that it was
written.  A patch is accepted (`PatchSkill`, `UpdateMemory`) or refused at some field
after any of the others were assigned (`RefusePatch`, `RefuseUpdate`): then the `except`
branch sets back what was assigned, and nothing is recorded.  Values are taken as
pydantic stores them; where it converts what the model gave, the record's `after` keeps
the form given.  `save` is two steps, and `Die` may come between.

*AccountFold.*  `Fold` is a recursive function over the rows in rowid order, with
cash, quantities and the cost of each code; `Totals` is the page.  It adds no
variable: its properties hold of every ledger that `AccountLedger` can come to.

*WalkForward.*  One job at a time, as the scripts are run by one person: `job` is
the local state of `capture_window`, of `walk` (one step each for observing,
deciding, and scoring with the step of the engine) or of a session in which the
engine is driven by hand in any order.  `Die` ends a job anywhere; the files
(`pools`, `ohlcv`, `cache`) stay.  The live source tells one version of a hand-made
market, and `Revise` lets it tell a corrected one.  What the model answers is any
of `Answers`: prose, or a list with an unknown and a repeated code.  An answer is
kept under its prompt, which is what the day and the phase read the day before
determine.  The prompt carries the date, so only walks over the same day can share
an answer.

## 3. Runs and what they show

| run | instance | states | shows |
|---|---|---|---|
| `run_store` | 2 runs, 2 ids, 2 slots, 2 days, 1 account | 679 k | outcomes, stamps, sheets and decisions under racing callers, with deadlock checked |
| `account_ledger` | 2 operations, 2 slots, 3 trades (buy, sell, dangling), 3 clock readings, a manual baseline, 1 report repeated | 289 k | one opening, form fills count, reporting is idempotent (refinement); the fold and the page add up |
| `live_decision` | 2 runs, 1 report or opening beside them, 3 clock readings | 172 k | frozen accounts, records, liveness |
| `inner_loop` | 5 configurations, 6 to 8 days, 1 edit per refine, 0 or 1 older snapshots | 378 k | rollback, freeze, evidence and credit |
| `refiner` | 2 skills and 2 lessons (one of each in the seed), 2 sections (one red), 2 fields, 2 patches (of one and of both fields), 3 records, 2 versions, caps 2 and 2 | 294 k | log, refused patches, gates, snapshots, crashes |
| `walk_forward` | 3 codes, 5 days, windows of 4 and 2 days that share one, 8 policies, pool scores of 1 day and returns of 3, 4 jobs of which 2 walks or a session, 2 markets and a revision | 974 k | snapshots, look-ahead, recordings, outcomes, baselines, reports |
| `opening_hides_fill`, `rowid_against_clock`, `frozen_at_before_fold`, `failure_without_prompt`, `evidence_after_rollback`, `forgotten_edits` | as above | - | the findings below |

**Why the bounds are enough.**  Races here are between two writers of one row: two
slots give each of them, and a third caller only sees what the loser saw.  Two
runs compete for one day; two operations and two trades give the retry, the
reused key and the dangling reference.  The clock allows an opening and two
stamps, in both orders.  In `inner_loop` each configuration reaches a trip with a
target, a re-arm, a second trip and a freeze: one-day windows; scores two days
late; two-day windows with sparse refines; a shadow that misses a day; no refiner
(which freezes without a checkpoint).  A replay of 6 to 8 days holds all of them.
Gates of 1 and 2 in `refiner` make one trade too few; 3 records over 2 versions give
write, patch and patch again, or retire, revive and promote, with rollbacks and deaths in
between, and a
patch of two fields is refused with none, one or the other of them assigned.  The account has
a purchase with a fee and a sale of the same code, so it is held, sold out,
oversold and bought back, under an opening and under a manual baseline.  In
`walk_forward` the markets hold a one-word board, a board that opened, a stock
nuked on its entry day, a code in two pools, a day without limit-ups, a stock whose
bars a provider lacks, and an ST name that leaves the pool; every outcome, every
kind of failure, a hit of the cache after a revision and a miss were checked to be
reached.  Four jobs are a capture that dies, its rerun, a recording and its replay,
or two captures and two walks; a longer history adds no new kind of file.  A window
of 4 days is the shortest that scores a return of 3 days.  Deadlock is
checked in `run_store`; elsewhere a replay ends, a bound is used up or all
requests are done, and the system rightly stops.

**Fairness.**  Only `LiveDecision` has a liveness property, under weak fairness of
each run's own steps.  `run()` is synchronous code in its own thread; the model is
asked a bounded number of times with a bounded back-off (`llm/client.py`), and a
statement waits at most `busy_timeout`.  Nothing is assumed of other requests or
clients, and a thread may be lost at any point (`Lose`), which the property allows
for: nothing in the code finishes the run of a lost thread.

**Assumptions.**  Two readings of the clock differ and it is not set back (the code
stamps microseconds).  A `run_id` or other uuid is new.  Money in `CandidateCheck`
and advantages in `Breaker` are integers, so tests at a boundary are exact; the
code compares floating point numbers.  In `InnerLoop` every filled candidate
matches some skill, one candidate a day stands for all, and `run()` is called
once per object.  Prices, fees and changes are whole numbers and means are exact
fractions; returns and limit prices are rounded down.  A put of the store is one
step, because a file is written under another name and renamed.

### Properties by component

- *Run store*: `FinishHasOneWinner`, `SheetAndStampTogether`,
  `SheetIsWholeProposal`, `ConfirmedOnce`, `HistoryOnlyGrows`.
- *Ledger*: `OneOpening`, `FormFillsCount`, `KeepsPromise` (refines `IdempotentBook`);
  `PageBalances` (total assets are the opening cash and what was gained) and
  `RebaseAgrees` (a baseline taken from the fold changes nothing).
- *Live decision*: `FrozenIsComplete`, `OutcomeIsRecorded`, `EveryRunSettles`.
- *Inner loop*: `BoundToLive` (no work on a discarded harness), `LogTellsTheHarness`,
  `CheckpointsAreAncestors` and `RollbackUndoesTheWindow` (the right target),
  `EvidenceIsAPartition` (the watermark), `CreditsInDayOrder`,
  `EveryDueDayIsScored`, `StaleEvidenceIsBounded` (after the re-arm at most `horizon`
  breaker days were decided by a discarded harness), `FrozenStaysFrozen`.
- *Refiner*: `LogExplainsHarness` (from the seed, and during a refine from its checkpoint;
  through patches refused half way), `EvidenceBehindTheLog`, `RefineIsBounded`,
  `SnapshotsAreWhole`, `VersionsAreFinal`.
- *Data*: `CaptureIsWhole` (through deaths and reruns), `WalkIsLoudOrWhole` (a torn
  snapshot is an error, never a walk without trades; no read after the cursor).
- *Replay and cache*: `HistoryIsThePast` (nothing of a later day in the rank of an
  earlier one), `RecordingIsRetold` (the decisions of a recorded walk, for good).
- *Evaluation*: `OutcomesMatchTheMarket` (the days held, the day of the exit, the
  decisions left unscored), `PoolAverageHasNoExcess` (candidate and baseline are one
  measure), `AccountsAgree` (report, credit, merge, signatures and series tell of
  the same trades).

Limits of what they say.  `EvidenceBehindTheLog` is about the number of trades:
the positive advantage a promotion asks for may turn negative later, and the code
does not take the promotion back.  `LogExplainsHarness` tells a field of a skill or lesson
that the model wrote only once a patch names it, or from a checkpoint that has it:
`write_skill` records the name and `process_memory` the first 24 characters, so the other
values the model supplied can be read in the snapshots alone.  `FormFillsCount` is about fills that came by the
form; for the JSON interface the same statement is false, see below.  Four more say
where they stop, and beyond that line the model has states that break them, as the
code would:

- `HistoryIsThePast` stops at a session that leaves a day without `observe`.
  Then `history[k]` is not day k, and a `reset_to` may keep the value of the day it
  goes to, which the comment at `replay/engine.py:58` rules out.  `walk` and the inner
  loop observe every day, so no run of the program meets it.
- `CaptureIsWhole` asks for the bars of a window's days only if no other window
  was begun: `has_ohlcv` asks for the code, so the second window keeps the bars of
  the first, and a walk over it settles these codes as `missing`.  It also lets a code
  that some provider does not know have no bars for good, which happens too when the
  others were down and the last one said `ValueError` (`data/source.py:84`).
- `PoolAverageHasNoExcess` stops where the names disagree: a pool member is
  settled under its name in the entry day's pool, a candidate under its own.  An ST
  stock that left the pool is given a limit of 10 per cent as a member and of 5 as
  a candidate, and the pool average has an excess over itself.
- `PageBalances` stops at an account with an oversold code: bought back, it leaves a
  cost on a position that is no longer listed.  The fold remarks on it.  It stops as
  well at a baseline that itself took over a short position, of which the fold says
  nothing; a proof attempt without that condition failed, and TLC confirmed why.

## 4. Findings

Each is a run in which TLC refutes what a comment says of the code.

- `opening_hides_fill` (bug).  A fill reported through `POST /api/accounts/fills` is
  stamped, then the account is opened with a later stamp, then the fill commits.
  The opening's guard found no fill, and `fold` counts only fills after the
  opening: the fill is lost for good.  The form is safe, because it asks for a
  baseline first and no operation takes a baseline away (proved).
- `rowid_against_clock`.  `created_at` is drawn before the INSERT waits for the
  lock, so rowids and stamps can disagree; the docstring of `fills` says they agree.
- `frozen_at_before_fold`.  `run()` reads `frozen_at` before the fold, whose upper
  bound is open: a fill stamped after `frozen_at` may be in the frozen account.
- `failure_without_prompt`.  The fingerprint of the prompt is written on success
  only; the recorder's docstring says a failure can be reproduced by it.
- `evidence_after_rollback`.  A rollback leaves the watermark where it is: the next
  refine gets steps scored before the rollback, which a comment says it does not.
- `forgotten_edits`.  A rollback drops the refiner's memory of its last two reports,
  "since what they describe has been undone"; when the target is the checkpoint
  between the two refines, the edits of the first are still there.

## 5. Proofs

Every invariant and every action property that a run checks is proved for all values
of the constants; the liveness property named at the end is model-checked.  An invariant is first checked by
TLC, then strengthened until a step preserves it; the strengthenings say why the code
works, so they are worth reading.

`AgentRunStore_proofs`: `TypeOK`, `FinishHasOneWinner`, `SheetAndStampTogether`,
`SheetIsWholeProposal`, `ConfirmedOnce` and `HistoryOnlyGrows`, for any sets of
runs, ids, slots, accounts, days, contexts and packages.  The invariants are not
inductive alone: a write uses what its call read earlier.  `IInv` adds that these
readings still hold (`AdoptArguments`: the arguments of an adopt equal the row they
were read from; `ConfirmArguments`: the candidate is still on its sheet), and that
an unfinished run has no output (`UnfinishedIsBlank`, `MarkPackages`).  They are
stable because finished rows and sheets never change, which is `HistoryOnlyGrows`;
between two calls that read the same the condition in the statement decides.

`AccountLedger_proofs`: `LedgerTypeOK`, `OneOpening`, `FormFillsCount` and
`KeepsPromise`, for any operations, accounts, trades, slots and clock bound.
`IInv` adds `PastOnly` (every stamp is in the past), `FormIsOpen` (an account the
form has admitted keeps a baseline), `FormStampedAfter` (such a report draws its
stamp after every opening), `OneRowPerOperation` and `ReplyIsOwn` (whoever will
answer "created" inserted the row, and is the only one).  The refinement maps the
rows, by operation, to the book of `IdempotentBook`: an INSERT is `Book`, an answer
is its `Answer...` or `Refuse`, everything else stutters.

`AccountFold_proofs`: `RebaseAgrees`, for any ledger, prices and baselines.  Rows are
folded in rowid order while `since` and `until` cut by the clock, so the two folds are
not a prefix and a rest but two interleaved lists.  `FoldSplits` shows that cash and
quantities of a fold over the union of two disjoint sets of rows are those of the two
folds together (`Together`), whatever the interleaving.  `PageBalances`: a fold is
`Sound` after every row, which says that cash and the costs of all codes are the cash
of the baseline and what was realized (`Balanced`), and that as long as nothing was
oversold, what is sold out has no cost (`CostsAreHeld`).  The second is why the page,
which sums over the listed positions only, misses no cost.  Fractions of different
denominators are compared by `Same`, so every equation is one up to `Same`.

`LiveDecision_proofs`: `DecisionTypeOK`, `FrozenIsComplete` and `OutcomeIsRecorded`,
beside any traffic on the ledger.  `DInv` adds `RowFollowsCall` (nobody else writes the
row of a run, so its status is the place of its `run()`) and `FoldIsComplete`: the
fills that were booked when `frozen_at` was read are among those read later, or under
the baseline that was read between the two, because fills are only appended.

`InnerLoop_proofs`: all ten properties of the loop, for any configurations, number of
days, edits, trips and older snapshots.  `LInv` adds the schedule (`Clock`, `Schedule`:
scored days, then pending ones, are the days decided, without a gap, so one decision at
a time becomes due), that checkpoints form one line which ends in the live harness
(`OneLine`) and hold what is older than their day and all of it (`EditsAreOlder`,
`NothingOlderIsMissing`), that statistics have counted what is scored (`Counted`), and
that the breaker's days are the last scored ones, of which only the first `horizon` can
be of a discarded harness (`BreakerIsFresh`).  `RollbackUndoesTheWindow` and
`FrozenStaysFrozen` follow from it, action by action.

`Refiner_proofs`: all properties of the refiner, for any skills, lessons, sections,
fields, writings, patches, caps and versions.  `RInv` says that the harness and log in
memory are a `Good` pair, and those of every file are (`GoodFiles`): the log is typed, it
leads to the harness from the seed, and the harness has the evidence.  `Leads` is
`Explains`, and that no skill or lesson was lost and the records are about those that
exist.  An edit appends the one record that makes of a log that leads to the old harness
one that leads to the new (`EditLeads`, field by field in `FieldsAppend`, with
`FieldToldAppend` for what a later patch finds).  A credit and a refused patch change
nothing the log tells of (`Alike`; `RestoredFacts` for the refusal, whatever was assigned
before it).  Checkpoint, rollback and death only move pairs.  The gates need no more,
because statistics shrink by a rollback only, which takes the log back with them.
`OnCheckpoint` counts the edits of a refine against the snapshot it began with and says
that the records since then lead from that snapshot to the harness.

`Evaluation_proofs`: `WalkTypeOK`, `CaptureIsWhole`, `WalkIsLoudOrWhole`,
`HistoryIsThePast`, `RecordingIsRetold`, `OutcomesMatchTheMarket`,
`PoolAverageHasNoExcess` and `AccountsAgree`, for any market and revisions of it,
windows, codes, refusals, policies and answers, and any number of jobs and deaths.
`PlaceInv` says where each job is: what a capture has gone through is stored and its
codes collected (`CaptureIsAt`), and a walk or a session is a matter of
its window, its day and what the snapshot shows -- `EngineAt` fixes cursor, guard and
history (`WalkIsAt`, `SessionIsAt`).  It is inductive because files of pools are never
replaced (`FilesKept`), so that a day that is whole is read the same ever after.

- For the recording, `TrailInv` adds the `Trail`: the phases that the prompts of a told
  window carried, one after the other, all of whose prompts are in the cache.  A later
  walk of that window has the prior of the trail at its day, hence the prompt, the
  answer, the decision and the next prior.  Nothing is asked of the answers: two prompts
  may be given the same one.
- For types and outcomes, `WorldInv` adds that every file is of a world that the source
  has told, so bars are bars and pools are pools.
- For the outcomes, `ScoreInv` says which decisions still wait (`PendingIsAhead`: those
  whose last holding day is ahead, nothing else) and that the others are judged by the
  days held (`DraftsAreRight`).  Below it, lemmas relate `Membership`, fills, exits and
  both scorers to what the snapshot shows (`PathIsHeld`, `FillIsTraded`, `SettleOneSays`,
  `ScoreStepJudges`).
- For the excess, `ScoreInv` also says that a decision is about stocks of its universe,
  each named once, and that the pool average is the whole pool (`Chosen`), and what is
  scored is `Fair`.  Then candidates and pool are settled alike, member by member
  (`AverageJudged`), the trades are a one-to-one image of the members that settled, and
  what a set is worth above its own average adds up to nothing (`AverageHasNoExcess`).
  Without the condition on names it fails, as section 3 says: the two are settled
  under different limits.
- For the accounts, all that is asked of the drafts is that they are `Accountable`: days
  have their dates, a day names each stock once, and what is not scored has no outcomes.
  `AccountsOfAgree` then holds of any trajectory whatever.  The trades made are one
  finite set; report, credit, daily credits and series count it and sum over it by
  skill, pattern and day (`CountByBlock`, `TallyByBlock`), a mean times its number is the
  sum again (`OverSame`, `MeanScales`), which is why the merge must weigh each day by its
  trades (`MergeIsWhole`), and signatures are a one-to-one image of the failures
  (`SignaturesAre`): day and code name one.

**Assumptions on the constants**, all named ASSUMEs that TLC evaluates in the runs.
`EmptyPackage`, `PackagesAssumption`, `ActionsAssumption`: what a parsed answer is.
`DanglingAssumption`, `HandAssumption`, `MaxClockAssumption`, `MaxRepeatsAssumption`:
the inputs of the ledger.  `TradesAssumption`, `BaselineAssumption`: fills have positive
prices and quantities, which the table's CHECKs enforce, and an opening holds nothing.
`PricesAssumption`: there are finitely many codes, and a close is a number.
`ConfigsAssumption`: a loop is configured as its constructor asks; `AdvantagesAssumption`,
`LoopBoundsAssumption`, `RefinerAssumption`: numbers and bounds.  `WindowsAssumption` (a
window ends no earlier than it begins), `CodeSeqAssumption` (every code of a pool can
have its bars fetched), `RulersAssumption` (a horizon is a number, and at least what the
constructor of the scorer asks), `ArmsAssumption`, `AnswersAssumption`,
`RandomKAssumption`, `GatedAssumption`: the inputs of the policies.  `WorldAssumption`
types what a source tells, and `BoardsAssumption` gives every code a board.  One says something of the market: `LimitsAssumption`
states what `fill_check` takes for granted when it books a price without looking
whether it was traded -- a stock trades at its open, and one that opens at its limit and
leaves it has traded at the limit.  It serves only the clause on returns.

**Induction.**  The library's induction theorems take an operator as a parameter and
cannot be used; the proofs look at the least number at which a claim would fail
(`DataLemmas.LeastElement`), once for the existence of a recursive function (`OnlyReads`,
`FoldReads`) and once for what it computes.  For sums over finite sets they look at the
smallest subset (`SmallestSubset`): a sum is that of some order of its elements, and
taking one element out takes its term out (`SumTakes`), up to `Same`.

**Only model-checked.**  `LiveDecision.EveryRunSettles`: liveness under fairness is out
of the prover's reach.  What the trip tests of `Breaker` compute, and the figures of
`Reports` that no property compares (the means of raw scores by pattern, `all_in`), are a
matter of the runs.

## 6. Not modelled

- *Prompts, retrieval, pages but for the account overview, scripts, mcp servers*: pure
  transformations or I/O without state of their own.
- *Statistics of the evaluation* (bootstrap, permutation, intervals) and the
  comparison of arms built on them: floating point, no control.
- *Damaged cache files* (they count as misses), the retries of the model's client, and
  the pauses and tries of the live source (one fetch).
- *The remarks of fold* on baselines without costs and on fills reported late.
- *Regimes derived from a field, decay factors, conversions of patched values*: abstracted
  as above.
- *InnerLoop*: exceptions of the data source and the scorer, a second call of `run()`
  on one object, patterns that match no skill, `n_edits` of the report (which after
  a rollback counts the surviving log).
- *A database set aside and replaced, schema migrations, two clock readings in one
  microsecond*.

## 7. Plan

Done: the live half with the arithmetic of its accounts; harness, refiner and inner
loop; capture, replay, evaluation, credit and the cache; the proofs of section 5.  Left,
in this order:

1. The walk inside the inner loop: `InnerLoop` abstracts a day's score to a choice;
   a refinement from `WalkForward` would show that the walk and the loop without a
   refiner tell the same trajectory.
