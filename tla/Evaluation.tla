----------------------------- MODULE Evaluation -----------------------------
(***************************************************************************)
(* The properties of WalkForward: of the snapshot, of the replay engine,   *)
(* of the outcomes of a walk and of the reports on it.                     *)
(***************************************************************************)
EXTENDS WalkForward, Reports

Draft == {"day", "mem", "height", "entries", "decision", "scored", "outcomes"}

\* The store, the cache and the job hold what the code can put there.
WalkTypeOK ==
    /\ live \in DOMAIN World
    /\ DOMAIN pools \subseteq Kinds \X (1 .. LastDay)
    /\ \A f \in DOMAIN pools : \A r \in pools[f] : r \in Row
    /\ \A c \in DOMAIN ohlcv : c \in Codes /\ \A d \in DOMAIN ohlcv[c] : ohlcv[c][d] \in Bar
    /\ begun \subseteq Windows /\ captured \subseteq begun
    /\ \A p \in DOMAIN cache : cache[p] \in Answers
    /\ DOMAIN told \subseteq Windows
    /\ job.kind \in {"none", "capture", "walk", "session"}
    /\ job.kind = "walk" =>
          /\ job.pending \subseteq DOMAIN job.drafts
          /\ \A j \in DOMAIN job.drafts : DOMAIN job.drafts[j] = Draft

------------------------------------------------------------------------------
(* The snapshot *)

CodesStored(w) ==
    UNION {CodesOf(pools[<<kind, d>>]) : kind \in Kinds, d \in w[1] .. w[2]}

\* A window whose capture came to its end is stored whole, however often it
\* died before, and whatever other windows were captured: every pool, and bars
\* for every code of them -- none at all only where a provider had nothing.
\* Were it the only window, its bars are those of its days; a second window
\* finds the bars of the first, since has_ohlcv does not ask for days.
CaptureIsWhole ==
    \A w \in captured :
        /\ IsWhole(w)
        /\ \A c \in CodesStored(w) :
              /\ c \in DOMAIN ohlcv
              /\ ohlcv[c] = << >> => c \in Unlisted
              /\ (begun = {w} /\ ohlcv[c] # << >>) => DOMAIN ohlcv[c] = w[1] .. w[2]

\* A walk over a torn snapshot is not silently a walk without trades: it ends
\* only if every pool of its window is there, and fails only for a reason --
\* a torn window, or an answer that a replay does not find.  No walk ever asks
\* for a day after its cursor (SnapshotMissingError, CacheMissError, AsOfGuard).
WalkIsLoudOrWhole ==
    job.kind = "walk" =>
        /\ job.stage = "ended" => IsWhole(job.window)
        /\ job.stage = "snapshot" => ~IsWhole(job.window)
        /\ job.stage = "cache_miss" => job.arm = "llm_read_only"
        /\ job.stage # "lookahead"

\* The history of an engine is the sentiment of exactly the days behind it, and
\* of the present one if it was looked at, so no later day leaks into the rank
\* of an earlier one -- in a walk, and by hand with jumps to and fro, as long as
\* no day was left without a look.
HistoryIsThePast ==
    (job.kind = "walk" \/ (job.kind = "session" /\ ~job.skipped)) =>
        LET e == job.engine
        IN  /\ Len(e.history) \in {e.i - 1, e.i}
            /\ \A k \in DOMAIN e.history : e.history[k] = Raw(e.days[k])

\* A window that was walked with the cache once is retold the same ever after:
\* every later cached walk that ends makes the same decisions, and a read-only
\* one never misses -- through deaths, a revised source and further captures.
RecordingIsRetold ==
    (job.kind = "walk" /\ Cached(job.arm) /\ job.window \in DOMAIN told) =>
        /\ job.stage # "cache_miss"
        /\ Decisions(job.drafts) = SubSeq(told[job.window], 1, Len(job.drafts))

------------------------------------------------------------------------------
(* The outcomes *)

Ended == job.kind = "walk" /\ job.stage = "ended"

OnBoard(c, d) == c \in CodesOf(PoolsOn(d).zt)

Broken(c, d) == ~OnBoard(c, d) /\ c \in CodesOf(PoolsOn(d).blowup) \cup CodesOf(PoolsOn(d).dt)

\* The returns of getting in on day d at a price the bar trades at, and out at
\* the close of day x.
ReturnsOf(c, d, x) ==
    {Net(p, StoredBar(c, x).close) : p \in StoredBar(c, d).low .. StoredBar(c, d).high}

\* What is said of a decision is what the snapshot says of the days held, the
\* `horizon` days after it and no other: nuked, continued or faded by their pools,
\* limit-up first; a return is from a price of the entry day to the close of a
\* later day, the exit or a day on which the board broke or the next.
Judged(draft, scorer, horizon) ==
    LET d    == draft.day
        last == d + horizon
        held == IF scorer = "pool" THEN {last} ELSE (d + 1) .. last
    IN  /\ {s.code : s \in draft.outcomes} = {s.code : s \in draft.decision}
        /\ \A s \in draft.outcomes :
              /\ s.outcome = "nuked" => \E x \in held : Broken(s.code, x)
              /\ s.outcome = "continued" => \A x \in held : OnBoard(s.code, x)
              /\ s.outcome = "faded" => /\ \A x \in held : ~Broken(s.code, x)
                                        /\ \E x \in held : ~OnBoard(s.code, x)
              /\ (scorer = "return" /\ s.outcome \notin NonTrade) =>
                    \E x \in (d + 2) .. last :
                        /\ s.score \in ReturnsOf(s.code, d + 1, x)
                        /\ x = last \/ Broken(s.code, x) \/ Broken(s.code, x - 1)

\* A walk that ended has judged the decisions whose holding days fit, by the
\* market, and has left the others without an outcome.
OutcomesMatchTheMarket ==
    Ended => \A j \in DOMAIN job.drafts :
        LET draft == job.drafts[j]
        IN  /\ draft.scored <=> draft.day + job.horizon <= job.window[2]
            /\ draft.scored => Judged(draft, job.scorer, job.horizon)
            /\ ~draft.scored => draft.outcomes = {}

\* The names under which a pool is settled as a baseline are those of the entry
\* day's pool; a candidate has its own of the decision day.
NamesAgree(j) ==
    \A c \in job.drafts[j].mem.limit_up :
        RowIn(PoolsOn(job.drafts[j].day).zt, c).st <=> c \in StNames(job.drafts[j].day + 1)

\* Buying the whole pool has no excess over the pool, day by day, whatever could
\* not be bought or has no bars: candidate and baseline are one measure
\* (PoolAveragePolicy's docstring), wherever they know the names alike.
PoolAverageHasNoExcess ==
    Ended /\ job.arm = "pool_average" =>
        \A j \in DOMAIN job.drafts : job.drafts[j].scored /\ NamesAgree(j) =>
            AdvantageSum(Real({<<j, s>> : s \in job.drafts[j].outcomes}))[1] = 0

------------------------------------------------------------------------------
(* The reports *)

SameCredit(a, b) ==
    /\ \A field \in {"n", "wins", "losses", "nukes"} : a[field] = b[field]
    /\ Same(a.expectancy, b.expectancy)
    /\ Same(a.expectancy_raw, b.expectancy_raw)

\* The credit of each day, as the loop takes it.
Daily(drafts) == [j \in DOMAIN drafts |-> ApplyCredit(Outcomes(<<drafts[j]>>))]

\* What is told of a trajectory is told of the same trades: as many, all
\* attributed once, with the same hits, losses, nukes and excess; what was not
\* traded is in none of the accounts and is counted.
AgreeOn(drafts) ==
    LET report == BuildReport(drafts)
        whole  == ApplyCredit(Outcomes(drafts))
        daily  == Daily(drafts)
        merged == MergeCreditReports(daily)
        series == DailySeries(drafts)
        failed == ExtractSignatures(drafts)
        who    == DOMAIN whole.per_skill
    IN  /\ report.all.n = whole.n_scored /\ merged.n_scored = whole.n_scored
        /\ report.all.n + report.n_unfillable + report.n_missing = Cardinality(Outcomes(drafts))
        /\ whole.n_scored = SumFunctionOnSet([s \in who |-> whole.per_skill[s].n], who)
        /\ report.all.nukes = SumFunctionOnSet([s \in who |-> whole.per_skill[s].nukes], who)
        /\ who = DOMAIN merged.per_skill
        /\ \A s \in who :
              /\ SameCredit(whole.per_skill[s], merged.per_skill[s])
              /\ whole.per_skill[s].losses = Cardinality({f \in failed : f.skill = s})
        /\ report.all.nukes = Cardinality({f \in failed : f.kind # "faded_miss"})
        /\ Same(Scale(report.all.excess, report.all.n),
                SumOver([j \in DOMAIN series |-> Scale(series[j], daily[j].n_scored)],
                        DOMAIN series))
        /\ report.all.n = SumFunction([p \in DOMAIN report.by_pattern |-> report.by_pattern[p].n])

\* The report, the credit, the merge of the daily credits, the signatures and the
\* daily series of a walk that ended agree.
AccountsAgree == Ended => AgreeOn(job.drafts)
=============================================================================
