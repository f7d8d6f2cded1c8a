------------------------------- MODULE Reports -------------------------------
(***************************************************************************)
(* What is told of a scored trajectory: the evaluation report              *)
(* (eval/metrics.py), the credit of the skills and its merge over days     *)
(* (refine/credit.py), the signatures of what failed                       *)
(* (refine/signatures.py), and the daily series that arms are compared by  *)
(* (eval/stats.py).  A trajectory is a sequence of drafts.                 *)
(***************************************************************************)
EXTENDS Settlement

CONSTANTS
    Skills,      \* the registry, in its order: records [id, name]
    Strip,       \* a pattern, id or name without surrounding blanks
    Norm         \* the same, and without case

NoSkill == "none"

\* Trades are <<day, scored candidate>>: all of them, and those that were made.
Outcomes(drafts) == UNION {{<<j, s>> : s \in drafts[j].outcomes} : j \in DOMAIN drafts}

\* A slip: what was not traded is counted with the trades.
AnyOutcome(outcomes) == outcomes

Real(outcomes) == {t \in outcomes : t[2].outcome \notin NonTrade}

Of(outcome, trades) == {t \in trades : t[2].outcome = outcome}

ScoreSum(trades) == SumFunctionOnSet([t \in trades |-> t[2].score], trades)

AdvantageSum(trades) == SumOver([t \in trades |-> t[2].advantage], trades)

------------------------------------------------------------------------------
(* build_report *)

MeanOr0(sum, n) == IF n = 0 THEN Whole(0) ELSE Over(sum, n)

Aggregate(trades) ==
    LET n == Cardinality(trades)
    IN  [n |-> n, hits |-> Cardinality(Of("continued", trades)),
         nukes |-> Cardinality(Of("nuked", trades)),
         mean |-> MeanOr0(Whole(ScoreSum(trades)), n),
         excess |-> MeanOr0(AdvantageSum(trades), n)]

PatternsOf(trades) == {t[2].pattern : t \in trades}

BuildReport(drafts) ==
    LET outcomes   == Outcomes(drafts)
        real       == Real(outcomes)
        unfillable == Cardinality(Of("unfillable", outcomes))
    IN  [n_decisions  |-> Len(drafts),
         n_no_trade   |-> Cardinality({j \in DOMAIN drafts : drafts[j].decision = {}}),
         n_unfillable |-> unfillable,
         n_missing    |-> Cardinality(Of("missing", outcomes)),
         all          |-> Aggregate(real),
         all_in       |-> MeanOr0(Whole(ScoreSum(real)), Cardinality(real) + unfillable),
         by_pattern   |-> [p \in PatternsOf(real) |->
                              Aggregate({t \in real : t[2].pattern = p})]]

------------------------------------------------------------------------------
(* apply_credit and merge_credit_reports *)

\* resolve_skill: an id as it stands, then without blanks, then without case, then
\* a name without both; of several the first registered.
ResolveSkill == [pattern \in DOMAIN Strip |->
    LET ids   == [i \in DOMAIN Skills |-> Skills[i].id]
        tries == << {i \in DOMAIN Skills : ids[i] = pattern},
                    {i \in DOMAIN Skills : ids[i] = Strip[pattern]},
                    {i \in DOMAIN Skills : Norm[ids[i]] = Norm[pattern]},
                    {i \in DOMAIN Skills : Norm[Skills[i].name] = Norm[pattern]} >>
        hits  == {k \in DOMAIN tries : tries[k] # {}}
    IN  IF Strip[pattern] = "" \/ hits = {} THEN NoSkill ELSE ids[Min(tries[Min(hits)])]]

\* A SkillCredit: counts, and the two means.
Credit(n, wins, nukes, adv, score) ==
    [n |-> n, wins |-> wins, losses |-> n - wins, nukes |-> nukes,
     expectancy |-> Over(adv, n), expectancy_raw |-> Over(score, n)]

CreditOf(trades) ==
    Credit(Cardinality(trades), Cardinality(Of("continued", trades)),
           Cardinality(Of("nuked", trades)), AdvantageSum(trades), Whole(ScoreSum(trades)))

\* By skill; under NoSkill, what was not attributed.
ApplyCredit(outcomes) ==
    LET real  == Real(outcomes)
        for   == [t \in real |-> ResolveSkill[t[2].pattern]]
    IN  [n_scored |-> Cardinality(real),
         per_skill |-> [s \in {for[t] : t \in real} |-> CreditOf({t \in real : for[t] = s})]]

Count(reports, s, field) ==
    LET who == {i \in DOMAIN reports : s \in DOMAIN reports[i].per_skill}
    IN  SumFunctionOnSet([i \in who |-> reports[i].per_skill[s][field]], who)

\* A slip: a day weighs the same, however many trades it had.
WeightedByDay(reports, s, mean) ==
    LET who == {i \in DOMAIN reports : s \in DOMAIN reports[i].per_skill}
    IN  SumOver([i \in who |-> reports[i].per_skill[s][mean]], who)

\* The sum that a mean stands for: the mean times its n.
Weighted(reports, s, mean) ==
    LET who == {i \in DOMAIN reports : s \in DOMAIN reports[i].per_skill}
    IN  SumOver([i \in who |-> Scale(reports[i].per_skill[s][mean],
                                                reports[i].per_skill[s].n)], who)

MergeCreditReports(reports) ==
    [n_scored |-> SumFunction([i \in DOMAIN reports |-> reports[i].n_scored]),
     per_skill |-> [s \in UNION {DOMAIN reports[i].per_skill : i \in DOMAIN reports} |->
                      Credit(Count(reports, s, "n"), Count(reports, s, "wins"),
                             Count(reports, s, "nukes"), Weighted(reports, s, "expectancy"),
                             Weighted(reports, s, "expectancy_raw"))]]

------------------------------------------------------------------------------
(* extract_signatures *)

\* A slip: what was not traded failed as well.
AnyFailure(outcomes) == {t \in outcomes : t[2].outcome # "continued"}

Failures(outcomes) == {t \in Real(outcomes) : t[2].outcome # "continued"}

\* Where a stock that was nuked had stood against the highest board of its day.
KindOf(draft, s) ==
    LET boards == draft.entries[s.code].boards
    IN  IF s.outcome = "faded" THEN "faded_miss"
        ELSE IF boards = 0 \/ boards > draft.height THEN "generic_nuke"
        ELSE IF boards = draft.height THEN "chased_into_nuke" ELSE "weed_over_dragon"

ExtractSignatures(drafts) ==
    {[day |-> drafts[t[1]].day, code |-> t[2].code, kind |-> KindOf(drafts[t[1]], t[2]),
      skill |-> ResolveSkill[t[2].pattern], score |-> t[2].score] :
        t \in Failures(Outcomes(drafts))}

------------------------------------------------------------------------------
(* daily_series *)

\* Every scored day, with the mean advantage of its trades; 0 without any.
DailySeries(drafts) ==
    [j \in {i \in DOMAIN drafts : drafts[i].scored} |->
        LET real == Real({<<j, s>> : s \in drafts[j].outcomes})
        IN  MeanOr0(AdvantageSum(real), Cardinality(real))]

=============================================================================
