----------------------------- MODULE WalkForward -----------------------------
(***************************************************************************)
(* Capture, replay and scoring put together: WalkForwardEval.walk          *)
(* (eval/walk_forward.py) over a snapshot that captures have built, with   *)
(* the policies of an arm and the record/replay cache of the model's       *)
(* answers (llm/cache.py).                                                 *)
(*                                                                         *)
(* The scripts run one after the other: a job is a capture, a walk, or a   *)
(* session in which a person drives the replay engine.  A job may die at   *)
(* any step and is begun anew; the snapshot and the cache remain, and      *)
(* between jobs the live source may be revised.  Of the market state, a    *)
(* draft keeps the height: nothing else of it is read later.               *)
(***************************************************************************)
EXTENDS Capture, Settlement, Policies

CONSTANTS
    Arms,          \* the policies that are walked
    Rulers,        \* <<scorer, horizon>>
    MaxJobs,       \* bound: jobs begun, and once more each that dies
    MaxWalks       \* bound: walks begun; a session, which writes nothing, takes them all

ASSUME ArmsAssumption ==
    Arms \subseteq {"no_trade", "highest_board", "pool_average", "random", "rule",
                    "llm_off", "llm_read_write", "llm_read_only"}

\* ReturnScorer refuses a horizon below 2: what is bought cannot be sold that day.
ASSUME RulersAssumption ==
    \A r \in Rulers : /\ r[1] \in {"pool", "return"} /\ r[2] \in Nat
                      /\ r[2] >= IF r[1] = "return" THEN 2 ELSE 1

\* What fill_check takes of the market for granted: a stock trades at its open, and
\* one that opens at the limit of its name, within 50 basis points, and leaves the
\* board has traded at the limit.
ASSUME LimitsAssumption ==
    \A v, u \in DOMAIN World, c \in Codes, d \in 1 .. LastDay - 1 :
        LET prev  == World[v][c][d].bar.close
            bar   == World[v][c][d + 1].bar
            limit == Limit(c, World[u][c][d].st)
        IN  /\ bar.open # 0 => bar.open \in bar.low .. bar.high
            /\ (prev # 0 /\ bar.open # 0 /\ AtLimitOpen(bar, prev, limit) /\ ~Flat(bar, prev)) =>
                  LimitPrice(prev, limit) \in bar.low .. bar.high

VARIABLES
    job,           \* what runs now
    cache,         \* files of the LLM cache: prompt -> answer
    told,          \* history: window -> the decisions of its first complete cached walk
    spent          \* how many of each bound so far

vars == <<live, pools, ohlcv, begun, captured, job, cache, told, spent>>

NoJob == [kind |-> "none"]

Running(kind) == job.kind = kind

WalkInit ==
    /\ live \in AtFirst
    /\ pools = << >> /\ ohlcv = << >> /\ begun = {} /\ captured = {}
    /\ job = NoJob
    /\ cache = << >> /\ told = << >>
    /\ spent = [jobs |-> 0, walks |-> 0]

\* The process dies, or a read or a fetch raises for good.
Die ==
    /\ job # NoJob /\ spent.jobs < MaxJobs
    /\ job' = NoJob
    /\ spent' = [spent EXCEPT !.jobs = @ + 1]
    /\ UNCHANGED <<storeVars, cache, told>>

\* The source corrects what it says of the days gone by.
Revise ==
    /\ job = NoJob /\ live \in DOMAIN RevisedTo
    /\ live' = RevisedTo[live]
    /\ UNCHANGED <<pools, ohlcv, begun, captured, job, cache, told, spent>>

------------------------------------------------------------------------------
(* capture_window *)

\* The calendar is put first, so a snapshot that was begun has one.
BeginCapture(w) ==
    /\ job = NoJob /\ spent.jobs < MaxJobs
    /\ job' = NewCapture(w)
    /\ begun' = begun \cup {w}
    /\ spent' = [spent EXCEPT !.jobs = @ + 1]
    /\ UNCHANGED <<live, pools, ohlcv, captured, cache, told>>

CapturePool ==
    /\ Running("capture") /\ AtPools(job)
    /\ PutPool(Item(job.window, job.at))
    /\ job' = Collect(job, Item(job.window, job.at), Item(job.window, job.at) \in DOMAIN pools)
    /\ UNCHANGED <<live, ohlcv, begun, captured, cache, told, spent>>

CaptureBars ==
    /\ Running("capture") /\ ~AtPools(job) /\ BarsDue(job) # {}
    /\ PutBars(job, CodeSeq[Min(BarsDue(job))])
    /\ UNCHANGED <<live, pools, begun, captured, job, cache, told, spent>>

EndCapture ==
    /\ Running("capture") /\ ~AtPools(job) /\ BarsDue(job) = {}
    /\ captured' = captured \cup {job.window}
    /\ job' = NoJob
    /\ UNCHANGED <<live, pools, ohlcv, begun, cache, told, spent>>

------------------------------------------------------------------------------
(* walk *)

\* Without a calendar the engine is not even built.
BeginWalk(w, arm, ruler) ==
    /\ job = NoJob /\ spent.jobs < MaxJobs /\ spent.walks < MaxWalks
    /\ begun # {}
    /\ job' = [kind |-> "walk", window |-> w, arm |-> arm, scorer |-> ruler[1],
               horizon |-> ruler[2], engine |-> NewEngine(w), prior |-> NoPhase,
               state |-> << >>, universe |-> << >>, drafts |-> << >>, pending |-> {},
               stage |-> "observe"]
    /\ spent' = [spent EXCEPT !.jobs = @ + 1, !.walks = @ + 1]
    /\ UNCHANGED <<storeVars, cache, told>>

At(stage) == Running("walk") /\ job.stage = stage

\* What an observation of the cursor's day raises; "" if nothing.
ReadError(e) == IF ~Allows(e, Cursor(e)) THEN "lookahead"
                ELSE IF ~HasPools(Cursor(e)) THEN "snapshot" ELSE ""

Fail(reason) == job' = [job EXCEPT !.stage = reason]

\* engine.observe, build_universe and PoolRecord.record
ObserveDay ==
    /\ At("observe")
    /\ IF ReadError(job.engine) # "" THEN Fail(ReadError(job.engine))
       ELSE LET day   == Cursor(job.engine)
                state == MarketState(day, PoolsOn(day), job.engine.history)
            IN  job' = [job EXCEPT !.engine = Record(@, state.raw), !.state = state,
                                   !.universe = BuildUniverse(PoolsOn(day)),
                                   !.stage = "decide"]
    /\ UNCHANGED <<storeVars, cache, told, spent>>

\* The context of an entry: how the stock stood on the day of the decision.
Entries(decision) == [c \in {cand.code : cand \in decision} |->
                        [status |-> job.universe[c].status, boards |-> job.universe[c].boards]]

Decided(decision, prior) ==
    job' = [job EXCEPT
              !.drafts = Append(@, [day |-> Cursor(job.engine), mem |-> Membership(job.universe),
                                    height |-> job.state.height, entries |-> Entries(decision),
                                    decision |-> decision, scored |-> FALSE, outcomes |-> {}]),
              !.pending = @ \cup {Len(job.drafts) + 1},
              !.prior = prior, !.stage = "settle"]

DecideBaseline ==
    /\ At("decide")
    /\ \/ job.arm = "no_trade"      /\ Decided(NoTrade(job.universe), NoPhase)
       \/ job.arm = "highest_board" /\ Decided(HighestBoard(job.universe), NoPhase)
       \/ job.arm = "pool_average"  /\ Decided(PoolAverage(job.universe), NoPhase)
       \/ job.arm = "rule"          /\ Decided(HarnessRule(job.universe), NoPhase)
       \/ /\ job.arm = "random"
          /\ \E decision \in RandomFromPool(job.universe) : Decided(decision, NoPhase)
    /\ UNCHANGED <<storeVars, cache, told, spent>>

TodaysPrompt == Prompt(job.prior, job.state, job.universe)

\* A slip: the cache is asked only where the model may not be.
HitReadOnly == job.arm = "llm_read_only" /\ TodaysPrompt \in DOMAIN cache

\* CachedLLMClient: a hit is answered from the cache unless the mode is off.
Hit == job.arm # "llm_off" /\ TodaysPrompt \in DOMAIN cache

Answered(answer) == Decided(ParseDecision(answer, job.universe), PriorOf(answer))

DecideFromCache ==
    /\ At("decide") /\ job.arm \in {"llm_read_write", "llm_read_only"}
    /\ Hit
    /\ Answered(cache[TodaysPrompt])
    /\ UNCHANGED <<storeVars, cache, told, spent>>

\* The model is asked; read_write saves what it says before anything else.
DecideLive ==
    /\ At("decide") /\ job.arm \in {"llm_off", "llm_read_write"}
    /\ ~Hit
    /\ \E answer \in Answers :
          /\ Answered(answer)
          /\ cache' = IF job.arm = "llm_off" THEN cache ELSE Put(cache, TodaysPrompt, answer)
    /\ UNCHANGED <<storeVars, told, spent>>

\* CacheMissError: a replay never asks the model.
MissReadOnly ==
    /\ At("decide") /\ job.arm = "llm_read_only" /\ ~Hit
    /\ Fail("cache_miss")
    /\ UNCHANGED <<storeVars, cache, told, spent>>

StoredBar(c, day) ==
    IF c \in DOMAIN ohlcv /\ day \in DOMAIN ohlcv[c] THEN ohlcv[c][day] ELSE NoBar

\* A slip: the path begins on the decision day.
PathFromDecision(drafts, j, horizon) == SubSeq(drafts, j, j + horizon - 1)

\* The days held: the `horizon` days after the decision.
Path(drafts, j, horizon) == SubSeq(drafts, j + 1, j + horizon)

\* The codes that the entry day's pool names as ST.
StNames(day) == {r.code : r \in {row \in ReadPool("zt", day) : row.st}}

\* score_step for the decision of the j-th day.
ScoreStep(drafts, j) ==
    LET held == Path(drafts, j, job.horizon)
        mems == [i \in DOMAIN held |-> held[i].mem]
        day  == drafts[j].day
        exit == held[Len(held)].day
        path == TradingDays(<<held[1].day, exit>>)
        bars == [c \in Codes |-> [d \in day .. exit |-> StoredBar(c, d)]]
    IN  IF job.scorer = "pool" THEN PoolScores(drafts[j].decision, mems, drafts[j].mem)
        ELSE ReturnScores(drafts[j].decision, mems, drafts[j].mem, day, path, bars,
                          StNames(held[1].day))

\* The decisions whose last holding day has come are scored; then the next day.
ScoreRipe(ripe) ==
    job' = [job EXCEPT
              !.drafts = [j \in DOMAIN @ |->
                            IF j \in ripe
                            THEN [@[j] EXCEPT !.scored = TRUE,
                                              !.outcomes = ScoreStep(job.drafts, j)]
                            ELSE @[j]],
              !.pending = @ \ ripe,
              !.engine = IF CanStep(@) THEN Step(@) ELSE @,
              !.stage = IF CanStep(job.engine) THEN "observe" ELSE "ended"]

SettleAndStep ==
    /\ At("settle")
    /\ LET ripe == {j \in job.pending : Len(job.drafts) >= j + job.horizon}
       IN  IF \A j \in ripe : Allows(job.engine, job.drafts[j + job.horizon].day)
           THEN ScoreRipe(ripe) ELSE Fail("lookahead")
    /\ UNCHANGED <<storeVars, cache, told, spent>>

Decisions(drafts) == [j \in DOMAIN drafts |-> drafts[j].decision]

Cached(arm) == arm \in {"llm_read_write", "llm_read_only"}

Errors == {"lookahead", "snapshot", "cache_miss"}

EndWalk ==
    /\ At("ended") \/ \E e \in Errors : At(e)
    /\ told' = IF At("ended") /\ Cached(job.arm) /\ job.window \notin DOMAIN told
               THEN Put(told, job.window, Decisions(job.drafts)) ELSE told
    /\ job' = NoJob
    /\ UNCHANGED <<storeVars, cache, spent>>

------------------------------------------------------------------------------
(* The engine driven by hand.  `skipped`: a day was left without a look. *)

BeginSession(w) ==
    /\ job = NoJob /\ spent.jobs < MaxJobs /\ spent.walks = 0
    /\ IsWhole(w)
    /\ job' = [kind |-> "session", engine |-> NewEngine(w), skipped |-> FALSE]
    /\ spent' = [spent EXCEPT !.jobs = @ + 1, !.walks = MaxWalks]
    /\ UNCHANGED <<storeVars, cache, told>>

Raw(day) == RawSentiment(PoolsOn(day))

SessionObserve ==
    /\ Running("session") /\ ReadError(job.engine) = ""
    /\ job' = [job EXCEPT !.engine = Record(@, Raw(Cursor(job.engine)))]
    /\ UNCHANGED <<storeVars, cache, told, spent>>

SessionStep ==
    /\ Running("session") /\ CanStep(job.engine)
    /\ job' = [job EXCEPT !.engine = Step(@),
                          !.skipped = @ \/ job.engine.i \notin job.engine.recorded]
    /\ UNCHANGED <<storeVars, cache, told, spent>>

SessionReset(k) ==
    /\ Running("session")
    /\ job' = [job EXCEPT !.engine = ResetTo(@, k),
                          !.skipped = @ \/ k > job.engine.i + 1
                                        \/ (k = job.engine.i + 1
                                            /\ job.engine.i \notin job.engine.recorded)]
    /\ UNCHANGED <<storeVars, cache, told, spent>>

EndSession ==
    /\ Running("session")
    /\ job' = NoJob
    /\ UNCHANGED <<storeVars, cache, told, spent>>

------------------------------------------------------------------------------

WalkNext ==
    \/ Die \/ Revise
    \/ \E w \in Windows : BeginCapture(w)
    \/ CapturePool \/ CaptureBars \/ EndCapture
    \/ \E w \in Windows, arm \in Arms, r \in Rulers : BeginWalk(w, arm, r)
    \/ ObserveDay \/ DecideBaseline \/ DecideFromCache \/ DecideLive \/ MissReadOnly
    \/ SettleAndStep \/ EndWalk
    \/ \E w \in Windows : BeginSession(w)
    \/ SessionObserve \/ SessionStep
    \/ \E k \in 1 .. LastDay : Running("session") /\ k \in DOMAIN job.engine.days /\ SessionReset(k)
    \/ EndSession

WalkSpec == WalkInit /\ [][WalkNext]_vars
=============================================================================
