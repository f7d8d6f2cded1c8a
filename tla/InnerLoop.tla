------------------------------ MODULE InnerLoop ------------------------------
(***************************************************************************)
(* The self-refining inner loop (youzi/loop/inner_loop.py, InnerLoop.run): *)
(* each trading day the agent decides with the current harness, a decision *)
(* is scored `horizon` days later, the score is credited to the harness,   *)
(* the breaker may roll the harness back or freeze it, and the refiner may *)
(* edit it after a checkpoint.                                             *)
(*                                                                         *)
(* run() is one thread; what is hard is that decisions, scores, credits,   *)
(* checkpoints, edits and rollbacks of one harness overlap in time.  The   *)
(* agent and the refiner hold references to a harness object, and a        *)
(* rollback makes a new object, so objects and references are modelled.    *)
(* A trading day is its index in the replay.  A harness is reduced to the  *)
(* edits it carries and the days its statistics have counted; a decision   *)
(* day to whether it has a candidate and, once scored, its advantage.      *)
(***************************************************************************)
EXTENDS Breaker

CONSTANTS
    Configs,     \* the runs explored: a LoopConfig, the shadow injected, the last day of
                 \* the replay and the daily advantages that trading can give
    LastDay,     \* bound: no replay goes beyond this trading day
    Advantages,  \* every advantage a run can meet
    MaxEdits,    \* bound: edits applied in one refine
    OldVersions  \* bound: snapshots the store already held

VARIABLES
    cfg, idx, stage,
    heap,        \* every harness object made so far, in order
    live,        \* manager.harness (with manager.log), an index of heap
    agent,       \* the harness the agent reads
    refiner,     \* the harness and the log the refiner edits
    recent,      \* Refiner._recent_reports: the edits of its last two reports
    disk,        \* SnapshotStore: disk[v + 1] is version v
    draft,       \* drafts: the harness object each day was decided with
    pending, scored, watermark,
    reports,     \* per_step_credits, each with the day it is about
    days,        \* breaker_days
    ckpts, trips, frozen, refines, breaks

local   == <<draft, pending, scored, watermark, reports, days, ckpts, trips, frozen,
             refines, breaks>>
manager == <<heap, live, agent, refiner, recent, disk>>
vars    == <<cfg, idx, stage, local, manager>>

Day == 0 .. LastDay

\* The ranges that LoopConfig allows, and a shadow over days of the replay.
LoopConfigOK(c) ==
    /\ {c.horizon, c.refineEvery, c.evidenceMin, c.minDays, c.kMax} \subseteq Nat \ {0}
    /\ {c.madC, c.lambda, c.epsC4, c.epsFloor} \subseteq Nat
    /\ c.floor \in Int /\ {c.enableRefine, c.paired} \subseteq BOOLEAN
    /\ c.lastDay \in Day /\ c.advantages \subseteq Advantages
    /\ DOMAIN c.shadow \subseteq Day /\ \A d \in DOMAIN c.shadow : c.shadow[d] \in Int

ASSUME ConfigsAssumption == \A c \in Configs : LoopConfigOK(c)

ASSUME AdvantagesAssumption == Advantages \subseteq Int

ASSUME LoopBoundsAssumption == {LastDay, MaxEdits, OldVersions} \subseteq Nat

\* The i-th edit of a day's refine; day -1 is an earlier process.
Edits == [day : -1 .. LastDay, i : Nat]

Harness == [edits : Seq(Edits), log : Seq(Edits), stats : Seq(Day)]

\* A scored step: n outcomes, advantage v; only a filled one is traded.
Steps == [day : Day, n : 0 .. 1, traded : BOOLEAN, v : Advantages \cup {0}]

TradedSteps == {s \in Steps : s.traded}

\* What the breaker keeps of a scored step.
BreakerDays == [day : Day, v : Advantages \cup {0}]

RefineEvents == [day : Day, evidence : Seq(Day), scored : Nat, edits : 0 .. MaxEdits]
BreakEvents  == [day : Day, start : Day, target : {-1} \cup Nat,
                 mode : {"rollback", "frozen"}, scored : Nat]

Stages == {"decide", "score", "breaker", "refine", "step", "done", "raised"}

Seed == [edits |-> << >>, log |-> << >>, stats |-> << >>]

\* A version that another run left in the directory of the store.
OtherSnapshot == LET e == <<[day |-> -1, i |-> 1]>>
                 IN  [edits |-> e, log |-> e, stats |-> << >>]

LoopInit ==
    /\ cfg \in Configs
    /\ idx = 0 /\ stage = "decide"
    /\ heap = <<Seed>> /\ live = 1 /\ agent = 1 /\ refiner = 1 /\ recent = << >>
    /\ disk \in {[v \in 1 .. n |-> OtherSnapshot] : n \in 0 .. OldVersions}
    /\ draft = << >> /\ pending = << >> /\ scored = << >> /\ watermark = 0
    /\ reports = << >> /\ days = << >>
    /\ ckpts = {} /\ trips = 0 /\ frozen = FALSE
    /\ refines = << >> /\ breaks = << >>

MapSeq(s, Op(_)) == [i \in DOMAIN s |-> Op(s[i])]

------------------------------------------------------------------------------
(* A trading day *)

\* The agent decides with the harness it holds; its model may raise.
Decide ==
    /\ stage = "decide"
    /\ \/ /\ draft' = Append(draft, agent)
          /\ pending' = Append(pending, idx)
          /\ stage' = "score"
       \/ stage' = "raised" /\ UNCHANGED <<draft, pending>>
    /\ UNCHANGED <<cfg, idx, manager, scored, watermark, reports, days, ckpts, trips,
                   frozen, refines, breaks>>

\* A slip: one day too late.
DueLate(j) == idx > j + cfg.horizon

Due(j) == idx >= j + cfg.horizon

\* What the scorer can say of day j: no candidate, no fill, or an advantage.
Outcomes(j) ==
    {[day |-> j, n |-> 0, traded |-> FALSE, v |-> 0],
     [day |-> j, n |-> 1, traded |-> FALSE, v |-> 0]}
      \cup {[day |-> j, n |-> 1, traded |-> TRUE, v |-> a] : a \in cfg.advantages}

CountDays(steps) ==
    heap' = [heap EXCEPT ![live].stats =
                @ \o MapSeq(Only(steps, TradedSteps), LAMBDA s : s.day)]

\* A slip: the whole trajectory is credited again every day.
CreditAll(newly) == CountDays(scored \o newly)

\* apply_credit: the statistics of the harness that is live now.
Credit(newly) == CountDays(newly)

ReportsOf(newly) == MapSeq(newly, LAMBDA s : s.day)

\* The due days are scored; until the freeze they are credited, and the
\* breaker gets their advantage.
Score ==
    /\ stage = "score"
    /\ LET due == Only(pending, {j \in Day : Due(j)})
       IN  \E newly \in {f \in [DOMAIN due -> UNION {Outcomes(j) : j \in Day}] :
                            \A i \in DOMAIN due : f[i].day = due[i]} :
             /\ scored' = scored \o newly
             /\ pending' = Only(pending, {j \in Day : ~ Due(j)})
             /\ IF frozen
                THEN UNCHANGED <<heap, reports, days>>
                ELSE /\ Credit(newly)
                     /\ reports' = reports \o ReportsOf(newly)
                     /\ days' = days \o MapSeq(newly, LAMBDA s : [day |-> s.day, v |-> s.v])
    /\ stage' = "breaker"
    /\ UNCHANGED <<cfg, idx, live, agent, refiner, recent, disk, draft, watermark, ckpts,
                   trips, frozen, refines, breaks>>

------------------------------------------------------------------------------
(* The breaker *)

\* The days compared: those the shadow has too, if a shadow was injected.
Compared ==
    IF cfg.paired THEN Only(days, {d \in BreakerDays : d.day \in DOMAIN cfg.shadow}) ELSE days

Armed == Len(days) >= cfg.minDays /\ Len(Compared) >= cfg.minDays

Window == LET n == Len(Compared) IN IF n < cfg.kMax THEN n ELSE cfg.kMax

WindowStart == Compared[Len(Compared) - Window + 1].day

\* The shadow up to the last scored day, in the order of its days.
ShadowSoFar ==
    MapSeq(Only([i \in 1 .. LastDay + 1 |-> i - 1],
                {d \in DOMAIN cfg.shadow : d <= days[Len(days)].day}),
           LAMBDA d : cfg.shadow[d])

Tripped ==
    /\ ~ frozen /\ Armed
    /\ IF cfg.paired
       THEN ShadowTrip(MapSeq(Compared, LAMBDA d : d.v - cfg.shadow[d.day]), Window,
                       cfg.lambda, ShadowEps16(ShadowSoFar, cfg.epsC4, cfg.epsFloor))
       ELSE FallbackTrip(MapSeq(days, LAMBDA d : d.v), Window, cfg.madC, cfg.floor)

\* A slip: the newest checkpoint, whenever it was made.
AnyCheckpoint == ckpts

\* The checkpoints made before the window, as <<version, day>>.
Candidates == {c \in ckpts : c[2] < WindowStart}

Target == Max({c[1] : c \in Candidates})

\* The first trip, with a checkpoint to go back to.
MayRearm == trips = 0 /\ Candidates # {}

\* A slip: versions of the abandoned timeline stay.
AllCheckpoints(target) == ckpts

Remaining(target) == {c \in ckpts : c[1] <= target}

\* A slip: the evidence of the old window stays.
EvidenceKept == days

EvidenceCleared == << >>

\* A slip: the agent and the refiner are not bound again.
RollBackUnbound(v) ==
    /\ heap' = Append(heap, disk[v + 1])
    /\ live' = Len(heap) + 1
    /\ UNCHANGED <<agent, refiner, recent, disk>>

\* A slip: the harness comes back without its log.
RollBackHarness(v) ==
    /\ heap' = Append(heap, [disk[v + 1] EXCEPT !.log = heap[live].log])
    /\ live' = Len(heap) + 1
    /\ agent' = live' /\ refiner' = live' /\ recent' = << >>
    /\ UNCHANGED disk

\* manager.rollback_to and _rebind: a new object, and everyone is bound to it.
RollBackTo(v) ==
    /\ heap' = Append(heap, disk[v + 1])
    /\ live' = Len(heap) + 1
    /\ agent' = live' /\ refiner' = live' /\ recent' = << >>
    /\ UNCHANGED disk

BreakEvent(target, mode) ==
    breaks' = Append(breaks, [day |-> idx, start |-> WindowStart, target |-> target,
                              mode |-> mode, scored |-> Len(scored)])

Calm ==
    /\ stage = "breaker" /\ ~ Tripped
    /\ stage' = "refine"
    /\ UNCHANGED <<cfg, idx, manager, local>>

\* Roll back and re-arm.
Rearm ==
    /\ stage = "breaker" /\ Tripped
    /\ MayRearm
    /\ RollBackTo(Target)
    /\ ckpts' = Remaining(Target)
    /\ days' = EvidenceCleared
    /\ BreakEvent(Target, "rollback")
    /\ trips' = trips + 1
    /\ stage' = "refine"
    /\ UNCHANGED <<cfg, idx, draft, pending, scored, watermark, reports, frozen, refines>>

\* The second trip, or nothing to go back to: freeze, after a rollback if there can be one.
Freeze ==
    /\ stage = "breaker" /\ Tripped
    /\ ~ MayRearm
    /\ IF Candidates = {}
       THEN UNCHANGED manager /\ BreakEvent(-1, "frozen")
       ELSE RollBackTo(Target) /\ BreakEvent(Target, "frozen")
    /\ frozen' = TRUE
    /\ trips' = trips + 1
    /\ stage' = "refine"
    /\ UNCHANGED <<cfg, idx, draft, pending, scored, watermark, reports, days, ckpts, refines>>

------------------------------------------------------------------------------
(* Refining *)

\* A slip: the last two steps, as a sliding window.
SlidingWindow == LastOf(scored, IF Len(scored) < 2 THEN Len(scored) ELSE 2)

\* The evidence: the steps scored since the last refine.
Fresh == SubSeq(scored, watermark + 1, Len(scored))

HasEvidence ==
    /\ Total(MapSeq(Fresh, LAMBDA s : s.n)) >= cfg.evidenceMin
    /\ idx % cfg.refineEvery = 0

\* A slip: the freeze is forgotten.
WantsRefineFrozen == cfg.enableRefine /\ HasEvidence

WantsRefine == cfg.enableRefine /\ ~ frozen /\ HasEvidence

SkipRefine ==
    /\ stage = "refine" /\ ~ WantsRefine
    /\ stage' = "step"
    /\ UNCHANGED <<cfg, idx, manager, local>>

\* A slip: the history is never cut.
KeepAll(s) == s

LastTwo(s) == IF Len(s) > 2 THEN SubSeq(s, Len(s) - 1, Len(s)) ELSE s

\* The checkpoint comes first.  Then the refiner edits the harness it holds,
\* a log record with every edit; a pass whose model raises leaves the edits
\* of the passes before it, and ends the run.
Refine ==
    /\ stage = "refine" /\ WantsRefine
    /\ disk' = Append(disk, heap[live])
    /\ ckpts' = ckpts \cup {<<Len(disk), idx>>}
    /\ \E n \in 0 .. MaxEdits :
         LET made == [i \in 1 .. n |-> [day |-> idx, i |-> i]]
         IN  /\ heap' = [heap EXCEPT ![refiner].edits = @ \o made, ![refiner].log = @ \o made]
             /\ \/ /\ recent' = LastTwo(Append(recent, made))
                   /\ refines' = Append(refines, [day |-> idx, scored |-> Len(scored), edits |-> n,
                                                  evidence |-> MapSeq(Fresh, LAMBDA s : s.day)])
                   /\ watermark' = Len(scored)
                   /\ stage' = "step"
                \/ stage' = "raised" /\ UNCHANGED <<recent, refines, watermark>>
    /\ UNCHANGED <<cfg, idx, live, agent, refiner, draft, pending, scored, reports, days,
                   trips, frozen, breaks>>

\* engine.step: the next trading day, or the end of the replay.
Step ==
    /\ stage = "step"
    /\ idx' = idx + 1
    /\ stage' = IF idx = cfg.lastDay THEN "done" ELSE "decide"
    /\ UNCHANGED <<cfg, manager, local>>

LoopNext == Decide \/ Score \/ Calm \/ Rearm \/ Freeze \/ SkipRefine \/ Refine \/ Step

LoopSpec == LoopInit /\ [][LoopNext]_vars

------------------------------------------------------------------------------
(* Properties *)

EditsOf(h) == {h.edits[i] : i \in DOMAIN h.edits}

IsPrefixOf(s, t) == Len(s) <= Len(t) /\ s = SubSeq(t, 1, Len(s))

Increasing(s) == \A i, j \in DOMAIN s : i < j => s[i] < s[j]

\* Every variable holds a value of its kind: references name objects that exist,
\* and a checkpoint names a version the store has (InnerLoop.run's locals).
LoopTypeOK ==
    /\ cfg \in Configs /\ idx \in 0 .. LastDay + 1 /\ stage \in Stages
    /\ heap \in Seq(Harness) /\ disk \in Seq(Harness)
    /\ {live, agent, refiner} \subseteq DOMAIN heap
    /\ recent \in Seq(Seq(Edits)) /\ Len(recent) <= 2
    /\ draft \in Seq(DOMAIN heap) /\ pending \in Seq(Day) /\ scored \in Seq(Steps)
    /\ watermark \in 0 .. Len(scored) /\ reports \in Seq(Day)
    /\ days \in Seq(BreakerDays)
    /\ ckpts \subseteq (0 .. Len(disk) - 1) \X Day
    /\ trips \in 0 .. 2 /\ frozen \in BOOLEAN
    /\ refines \in Seq(RefineEvents) /\ breaks \in Seq(BreakEvents)

\* The agent that decides and the refiner that edits are always bound to the
\* harness the manager holds: nobody works on an object a rollback threw away
\* (_rebind after every rollback_to; the warning in HarnessManager.rollback_to).
BoundToLive == agent = live /\ refiner = live

\* The log of every harness, live, discarded or on disk, tells exactly the
\* edits that harness carries (snapshots hold harness and log together).
LogTellsTheHarness ==
    /\ \A o \in DOMAIN heap : heap[o].log = heap[o].edits
    /\ \A v \in DOMAIN disk : disk[v].log = disk[v].edits

\* Until the freeze, every checkpoint that a rollback may choose is a past
\* state of the live harness, in its edits and in its statistics; versions of
\* an abandoned timeline are never a target (the pruning of ckpts).
CheckpointsAreAncestors ==
    ~ frozen => \A c \in ckpts :
        /\ IsPrefixOf(disk[c[1] + 1].edits, heap[live].edits)
        /\ IsPrefixOf(disk[c[1] + 1].stats, heap[live].stats)

\* A rollback leaves no edit made inside the window that tripped the breaker,
\* and undoes no edit made before the last checkpoint older than that window.
RollbackUndoesTheWindow ==
    [][live' # live =>
         LET start == breaks'[Len(breaks')].start
             kept  == EditsOf(heap'[live'])
         IN  /\ \A e \in kept : e.day < start
             /\ \A e \in EditsOf(heap[live]), c \in ckpts :
                    e.day < c[2] /\ c[2] < start => e \in kept]_vars

\* Once frozen, the harness, its log, its statistics and its snapshots never
\* change again, and the loop never thaws (the comments on frozen in run).
FrozenStaysFrozen == [][frozen => frozen' /\ UNCHANGED manager]_vars

\* The days whose steps were evidence of the r-th refine.
Used(r) == {refines[r].evidence[i] : i \in DOMAIN refines[r].evidence}

\* A scored step is evidence of exactly one refine, up to the watermark, and
\* of none beyond it (the non-overlapping evidence windows).
EvidenceIsAPartition ==
    /\ \A r, q \in DOMAIN refines : r # q => Used(r) \cap Used(q) = {}
    /\ UNION {Used(r) : r \in DOMAIN refines} = {scored[i].day : i \in 1 .. watermark}

\* No harness counts a day twice or out of order, whatever was rolled back in
\* between (apply_credit's contract, and the order its ewma depends on).
CreditsInDayOrder ==
    /\ \A o \in DOMAIN heap : Increasing(heap[o].stats)
    /\ \A v \in DOMAIN disk : Increasing(disk[v].stats)

\* After the loop re-armed, at most `horizon` of the breaker's days are
\* decisions of a harness that was thrown away: those that were still pending.
StaleEvidenceIsBounded ==
    ~ frozen =>
        Cardinality({i \in DOMAIN days : draft[days[i].day + 1] # live}) <= cfg.horizon

\* A finished replay has scored each day whose horizon it reaches, once, in
\* order, whatever the breaker did meanwhile.
EveryDueDayIsScored ==
    LET at == MapSeq(scored, LAMBDA s : s.day)
    IN  stage = "done" => /\ Increasing(at)
                          /\ {at[i] : i \in DOMAIN at} = {j \in Day : j + cfg.horizon <= cfg.lastDay}

\* "After a rollback the next window's evidence is the steps scored after the
\* rollback" (the comment on _last_refined_idx in InnerLoop.__init__).
EvidenceIsNewAfterRollback ==
    \A b \in DOMAIN breaks, r \in DOMAIN refines :
        refines[r].day >= breaks[b].day =>
            \A i \in DOMAIN refines[r].evidence :
                \E n \in breaks[b].scored + 1 .. Len(scored) :
                    scored[n].day = refines[r].evidence[i]

\* "The edits that the old edit history describes have all been undone" (the
\* comments on _rebind and on Refiner._recent_reports).
ForgottenEditsAreUndone ==
    [][live' # live =>
         \A r \in DOMAIN recent : \A i \in DOMAIN recent[r] :
             recent[r][i] \notin EditsOf(heap'[live'])]_vars
=============================================================================
