-------------------------- MODULE InnerLoop_proofs --------------------------
(***************************************************************************)
(* Every safety property of the inner loop, for every loop configuration,  *)
(* any number of days, edits, trips and versions of earlier runs, and      *)
(* whatever the agent, the market and the refiner do.                      *)
(*                                                                         *)
(* The argument: the day is a schedule (Schedule), so exactly one decision *)
(* at a time becomes due, in order.  From there, statistics and evidence   *)
(* are in the order of days (Counted, EvidenceIsAPartition).  Checkpoints  *)
(* form one line that ends in the live harness (OneLine), and what each of *)
(* them holds is older than its day, and all that is (EditsAreOlder,       *)
(* NothingOlderIsMissing), so that a rollback undoes a window and nothing  *)
(* before.  The breaker's days are the last scored ones (BreakerIsFresh),  *)
(* and only the first `horizon` of them can be of a discarded harness.     *)
(***************************************************************************)
EXTENDS InnerLoop, DataLemmas, FiniteSetTheorems, SequenceTheorems

\* How many days are scored when n of them have been lived through.
Reached(n) == IF n > cfg.horizon THEN n - cfg.horizon ELSE 0

LivedThrough == {"breaker", "refine", "step"}

Clock ==
    /\ idx <= cfg.lastDay + 1
    /\ IF stage = "done" THEN idx = cfg.lastDay + 1 ELSE idx <= cfg.lastDay

\* Scored days, then pending days, are the days decided, without a gap.
Schedule ==
    /\ \A i \in 1 .. Len(scored) : scored[i].day = i - 1
    /\ \A i \in 1 .. Len(pending) : pending[i] = Len(scored) + i - 1
    /\ Len(scored) + Len(pending) = Len(draft)
    /\ stage \in {"decide", "done"} => Len(draft) = idx
    /\ stage \in {"score"} \cup LivedThrough => Len(draft) = idx + 1
    /\ stage \in {"decide", "score", "done"} => Len(scored) = Reached(idx)
    /\ stage \in LivedThrough => Len(scored) = Reached(idx + 1)

\* An edit is made at the end of its day, and after the checkpoint of that day.
EditsAreOlder ==
    /\ \A e \in EditsOf(heap[live]) :
          e.day <= idx /\ (stage \notin {"step", "raised"} => e.day < idx)
    /\ \A c \in ckpts :
          c[2] <= idx /\ \A e \in EditsOf(disk[c[1] + 1]) : e.day < c[2]

\* A checkpoint holds all the edits that the live harness has from before its day.
NothingOlderIsMissing ==
    ~ frozen => \A c \in ckpts : \A e \in EditsOf(heap[live]) :
        e.day < c[2] => e \in EditsOf(disk[c[1] + 1])

\* An older checkpoint is a past state of a newer one.
OneLine ==
    ~ frozen => \A c, d \in ckpts : c[1] <= d[1] =>
        /\ IsPrefixOf(disk[c[1] + 1].edits, disk[d[1] + 1].edits)
        /\ IsPrefixOf(disk[c[1] + 1].stats, disk[d[1] + 1].stats)

\* Only scored days are counted.
Counted ==
    /\ \A o \in 1 .. Len(heap) : \A i \in 1 .. Len(heap[o].stats) : heap[o].stats[i] < Len(scored)
    /\ \A v \in 1 .. Len(disk) : \A i \in 1 .. Len(disk[v].stats) : disk[v].stats[i] < Len(scored)

\* The breaker's days are the last scored ones; what was decided `horizon` days
\* after the first of them, or later, was decided by the live harness.
BreakerIsFresh ==
    ~ frozen =>
        /\ trips <= 1
        /\ Len(days) <= Len(scored)
        /\ \A i \in 1 .. Len(days) : days[i].day = Len(scored) - Len(days) + i - 1
        /\ \A j \in 1 .. Len(draft) :
              j > Len(scored) - Len(days) + cfg.horizon => draft[j] = live

LInv ==
    /\ LoopTypeOK /\ BoundToLive /\ LogTellsTheHarness /\ Clock /\ Schedule
    /\ EditsAreOlder /\ NothingOlderIsMissing /\ OneLine /\ CheckpointsAreAncestors
    /\ Counted /\ CreditsInDayOrder /\ EvidenceIsAPartition /\ BreakerIsFresh

------------------------------------------------------------------------------
(* Prefixes, configurations, harnesses *)

LEMMA PrefixMeans ==
    ASSUME NEW E, NEW s \in Seq(E), NEW t \in Seq(E)
    PROVE  IsPrefixOf(s, t) <=> Len(s) <= Len(t) /\ \A i \in 1 .. Len(s) : s[i] = t[i]
<1>1. ASSUME Len(s) <= Len(t)
      PROVE  s = SubSeq(t, 1, Len(s)) <=> \A i \in 1 .. Len(s) : s[i] = t[i]
  <2>1. /\ SubSeq(t, 1, Len(s)) \in Seq(E) /\ Len(SubSeq(t, 1, Len(s))) = Len(s)
        /\ \A i \in 1 .. Len(s) : SubSeq(t, 1, Len(s))[i] = t[i]
    BY <1>1
  <2> QED BY <2>1
<1> QED BY <1>1 DEF IsPrefixOf

LEMMA PrefixSelf == ASSUME NEW E, NEW s \in Seq(E) PROVE IsPrefixOf(s, s)
BY PrefixMeans

LEMMA PrefixTransitive ==
    ASSUME NEW E, NEW s \in Seq(E), NEW t \in Seq(E), NEW u \in Seq(E),
           IsPrefixOf(s, t), IsPrefixOf(t, u)
    PROVE  IsPrefixOf(s, u)
<1>1. Len(s) <= Len(t) /\ \A i \in 1 .. Len(s) : s[i] = t[i]
  BY PrefixMeans
<1>2. Len(t) <= Len(u) /\ \A i \in 1 .. Len(t) : t[i] = u[i]
  BY PrefixMeans
<1>3. Len(s) \in Nat /\ Len(t) \in Nat /\ Len(u) \in Nat
  OBVIOUS
<1>4. Len(s) <= Len(u) /\ \A i \in 1 .. Len(s) : s[i] = u[i]
  BY <1>1, <1>2, <1>3
<1> QED BY <1>4, PrefixMeans

LEMMA PrefixAppended ==
    ASSUME NEW E, NEW s \in Seq(E), NEW t \in Seq(E), NEW u \in Seq(E), IsPrefixOf(s, t)
    PROVE  IsPrefixOf(s, t \o u)
<1>1. Len(s) <= Len(t) /\ \A i \in 1 .. Len(s) : s[i] = t[i]
  BY PrefixMeans
<1>2. /\ t \o u \in Seq(E) /\ Len(t) <= Len(t \o u)
      /\ \A i \in 1 .. Len(t) : (t \o u)[i] = t[i]
  OBVIOUS
<1>3. Len(s) \in Nat /\ Len(t) \in Nat /\ Len(t \o u) \in Nat
  BY <1>2
<1>4. Len(s) <= Len(t \o u) /\ \A i \in 1 .. Len(s) : s[i] = (t \o u)[i]
  BY <1>1, <1>2, <1>3
<1> QED BY <1>2, <1>4, PrefixMeans

\* What an earlier state of a harness carries, the harness carries.
LEMMA PrefixEdits ==
    ASSUME NEW g \in Harness, NEW k \in Harness, IsPrefixOf(g.edits, k.edits)
    PROVE  EditsOf(g) \subseteq EditsOf(k)
<1>1. g.edits \in Seq(Edits) /\ k.edits \in Seq(Edits)
  BY DEF Harness
<1>2. Len(g.edits) <= Len(k.edits) /\ \A i \in 1 .. Len(g.edits) : g.edits[i] = k.edits[i]
  BY <1>1, PrefixMeans
<1> QED BY <1>1, <1>2 DEF EditsOf

LEMMA ConfigFacts ==
    ASSUME LoopTypeOK
    PROVE  /\ cfg.horizon \in Nat \ {0} /\ cfg.minDays \in Nat \ {0} /\ cfg.kMax \in Nat \ {0}
           /\ cfg.lastDay \in Nat /\ cfg.lastDay <= LastDay /\ LastDay \in Nat
           /\ cfg.advantages \subseteq Advantages
<1>1. LoopConfigOK(cfg)
  BY ConfigsAssumption DEF LoopTypeOK
<1> QED BY <1>1, LoopBoundsAssumption DEF LoopConfigOK, Day

\* The parts of the type invariant that most steps use.
LEMMA TypeFacts ==
    ASSUME LoopTypeOK
    PROVE  /\ heap \in Seq(Harness) /\ DOMAIN heap = 1 .. Len(heap) /\ Len(heap) \in Nat
           /\ live \in 1 .. Len(heap) /\ heap[live] \in Harness
           /\ disk \in Seq(Harness) /\ DOMAIN disk = 1 .. Len(disk) /\ Len(disk) \in Nat
           /\ ckpts \subseteq (0 .. Len(disk) - 1) \X Day
           /\ scored \in Seq(Steps) /\ Len(scored) \in Nat /\ watermark \in 0 .. Len(scored)
<1>1. /\ heap \in Seq(Harness) /\ disk \in Seq(Harness) /\ scored \in Seq(Steps)
      /\ live \in DOMAIN heap /\ ckpts \subseteq (0 .. Len(disk) - 1) \X Day
      /\ watermark \in 0 .. Len(scored)
  BY SMTT(30) DEF LoopTypeOK
<1>2. DOMAIN heap = 1 .. Len(heap) /\ DOMAIN disk = 1 .. Len(disk)
  BY <1>1
<1>3. live \in 1 .. Len(heap) /\ heap[live] \in Harness
  BY <1>1, <1>2
<1> QED BY <1>1, <1>2, <1>3

LEMMA HarnessFields ==
    ASSUME NEW hs \in Seq(Harness), NEW o \in 1 .. Len(hs)
    PROVE  /\ hs[o] \in Harness /\ hs[o].edits \in Seq(Edits) /\ hs[o].log \in Seq(Edits)
           /\ hs[o].stats \in Seq(Day)
           /\ \A i \in 1 .. Len(hs[o].stats) : hs[o].stats[i] \in Nat
           /\ \A e \in EditsOf(hs[o]) : e.day \in Int
<1>1. hs[o] \in Harness
  OBVIOUS
<1>2. hs[o].edits \in Seq(Edits) /\ hs[o].log \in Seq(Edits) /\ hs[o].stats \in Seq(Day)
  BY <1>1 DEF Harness
<1>3. \A i \in 1 .. Len(hs[o].stats) : hs[o].stats[i] \in Day
  BY <1>2
<1>4. \A e \in EditsOf(hs[o]) : e \in Edits
  BY <1>2 DEF EditsOf
<1> QED BY <1>1, <1>2, <1>3, <1>4, LoopBoundsAssumption DEF Day, Edits

\* Days appended to the statistics of the live harness.
LEMMA CountEffect ==
    ASSUME LoopTypeOK, NEW t \in Seq(Day), heap' = [heap EXCEPT ![live].stats = @ \o t]
    PROVE  /\ heap' \in Seq(Harness) /\ Len(heap') = Len(heap) /\ heap'[live] \in Harness
           /\ \A o \in 1 .. Len(heap) : o # live => heap'[o] = heap[o]
           /\ heap'[live].edits = heap[live].edits /\ heap'[live].log = heap[live].log
           /\ heap'[live].stats = heap[live].stats \o t
<1> DEFINE now == heap[live].stats \o t
           new == [heap[live] EXCEPT !.stats = now]
<1>1. heap \in Seq(Harness) /\ live \in 1 .. Len(heap) /\ heap[live] \in Harness
  BY SMTT(30) DEF LoopTypeOK
<1>2. heap' = [heap EXCEPT ![live] = new]
  OBVIOUS
<1>3. now \in Seq(Day)
  BY <1>1 DEF Harness
<1>4. /\ new \in Harness /\ new.edits = heap[live].edits /\ new.log = heap[live].log
      /\ new.stats = now
  <2> HIDE DEF now
  <2> QED BY <1>1, <1>3 DEF Harness
<1> HIDE DEF new
<1>5. /\ heap' \in Seq(Harness) /\ Len(heap') = Len(heap) /\ heap'[live] = new
      /\ \A o \in 1 .. Len(heap) : o # live => heap'[o] = heap[o]
  <2>1. /\ [heap EXCEPT ![live] = new] \in Seq(Harness)
        /\ Len([heap EXCEPT ![live] = new]) = Len(heap)
    <3>1. new \in Harness
      BY <1>4
    <3> QED BY <1>1, <3>1, ExceptSeq
  <2>2. live \in DOMAIN heap /\ DOMAIN heap = 1 .. Len(heap)
    BY <1>1
  <2> QED BY <1>1, <1>2, <2>1, <2>2
<1> QED BY <1>4, <1>5

\* Edits appended to the live harness and to its log.
LEMMA EditEffect ==
    ASSUME LoopTypeOK, NEW t \in Seq(Edits),
           heap' = [heap EXCEPT ![live].edits = @ \o t, ![live].log = @ \o t]
    PROVE  /\ heap' \in Seq(Harness) /\ Len(heap') = Len(heap) /\ heap'[live] \in Harness
           /\ \A o \in 1 .. Len(heap) : o # live => heap'[o] = heap[o]
           /\ heap'[live].edits = heap[live].edits \o t
           /\ heap'[live].log = heap[live].log \o t
           /\ heap'[live].stats = heap[live].stats
<1> DEFINE edits == heap[live].edits \o t
           log == heap[live].log \o t
           new == [[heap[live] EXCEPT !.edits = edits] EXCEPT !.log = log]
<1>1. heap \in Seq(Harness) /\ live \in 1 .. Len(heap) /\ heap[live] \in Harness
  BY SMTT(30) DEF LoopTypeOK
<1>2. heap' = [heap EXCEPT ![live] = new]
  BY <1>1
<1>3. edits \in Seq(Edits) /\ log \in Seq(Edits)
  BY <1>1 DEF Harness
<1>4. /\ new \in Harness /\ new.edits = edits /\ new.log = log
      /\ new.stats = heap[live].stats
  <2> HIDE DEF edits, log
  <2> QED BY <1>1, <1>3 DEF Harness
<1> HIDE DEF new
<1>5. /\ heap' \in Seq(Harness) /\ Len(heap') = Len(heap) /\ heap'[live] = new
      /\ \A o \in 1 .. Len(heap) : o # live => heap'[o] = heap[o]
  <2>1. /\ [heap EXCEPT ![live] = new] \in Seq(Harness)
        /\ Len([heap EXCEPT ![live] = new]) = Len(heap)
    <3>1. new \in Harness
      BY <1>4
    <3> QED BY <1>1, <3>1, ExceptSeq
  <2>2. live \in DOMAIN heap /\ DOMAIN heap = 1 .. Len(heap)
    BY <1>1
  <2> QED BY <1>1, <1>2, <2>1, <2>2
<1> QED BY <1>4, <1>5

\* The checkpoint a rollback goes to.
LEMMA TargetIsACheckpoint ==
    ASSUME LoopTypeOK, Candidates # {}
    PROVE  /\ \E t \in Candidates : t[1] = Target
           /\ \A c \in Candidates : c[1] <= Target
           /\ Target \in 0 .. Len(disk) - 1 /\ Target + 1 \in DOMAIN disk
           /\ disk[Target + 1] \in Harness
<1> DEFINE Versions == {c[1] : c \in Candidates}
<1>1. Len(disk) \in Nat /\ disk \in Seq(Harness) /\ ckpts \subseteq (0 .. Len(disk) - 1) \X Day
  BY SMTT(30) DEF LoopTypeOK
<1>2. Versions \subseteq 0 .. Len(disk) /\ Versions # {}
  BY <1>1 DEF Candidates
<1>3. Target \in Versions /\ \A v \in Versions : v <= Target
  <2> HIDE DEF Versions
  <2>1. Max(Versions) \in Versions /\ \A v \in Versions : v <= Max(Versions)
    BY <1>1, <1>2, GreatestElement
  <2> QED BY <2>1 DEF Target, Versions
<1>4. PICK t \in Candidates : t[1] = Target
  BY <1>3
<1>5. Target \in 0 .. Len(disk) - 1
  BY <1>1, <1>4 DEF Candidates
<1> QED BY <1>1, <1>3, <1>4, <1>5

\* An armed breaker compares a window that starts on a day.
LEMMA WindowHasStart ==
    ASSUME LoopTypeOK, Armed
    PROVE  WindowStart \in Day
<1>1. Compared \in Seq(BreakerDays)
  BY OnlyTyped DEF Compared, LoopTypeOK
<1>2. Len(Compared) \in Nat /\ Len(Compared) >= 1
  BY <1>1, ConfigFacts DEF Armed
<1>3. Window \in 1 .. Len(Compared)
  BY <1>2, ConfigFacts DEF Window
<1>4. Compared[Len(Compared) - Window + 1] \in BreakerDays
  BY <1>1, <1>2, <1>3
<1> QED BY <1>4 DEF WindowStart, BreakerDays

\* A rollback makes one new object, a copy of the target, and binds everyone to it.
LEMMA RollBackEffect ==
    ASSUME LoopTypeOK, Candidates # {}, RollBackTo(Target)
    PROVE  /\ heap' \in Seq(Harness) /\ Len(heap') = Len(heap) + 1 /\ live' = Len(heap) + 1
           /\ \A o \in 1 .. Len(heap) : heap'[o] = heap[o]
           /\ heap'[live'] = disk[Target + 1]
           /\ agent' = live' /\ refiner' = live' /\ recent' = << >> /\ disk' = disk
<1>1. heap \in Seq(Harness) /\ disk[Target + 1] \in Harness
  BY TargetIsACheckpoint DEF LoopTypeOK
<1> QED BY <1>1 DEF RollBackTo

------------------------------------------------------------------------------
(* Steps that leave the harness, the scores and the breaker alone *)

quiet == <<cfg, manager, scored, watermark, reports, days, ckpts, trips, frozen, refines, breaks>>

\* Evidence stays a partition while nothing is refined.
LEMMA WindowsKept ==
    ASSUME EvidenceIsAPartition, refines' = refines, watermark' = watermark,
           \A i \in 1 .. watermark : scored'[i] = scored[i]
    PROVE  EvidenceIsAPartition'
<1>1. ASSUME NEW r PROVE Used(r)' = Used(r)
  BY DEF Used
<1>2. /\ {Used(r)' : r \in DOMAIN refines'} = {Used(r) : r \in DOMAIN refines}
      /\ {scored'[i].day : i \in 1 .. watermark'} = {scored[i].day : i \in 1 .. watermark}
  BY <1>1
<1>3. \A r, q \in DOMAIN refines' : r # q => Used(r)' \cap Used(q)' = {}
  BY <1>1 DEF EvidenceIsAPartition
<1> QED BY <1>2, <1>3 DEF EvidenceIsAPartition

LEMMA QuietKeeps ==
    ASSUME LInv, UNCHANGED quiet
    PROVE  /\ BoundToLive' /\ LogTellsTheHarness' /\ NothingOlderIsMissing' /\ OneLine'
           /\ CheckpointsAreAncestors' /\ Counted' /\ CreditsInDayOrder'
           /\ EvidenceIsAPartition'
<1>1. /\ cfg' = cfg /\ heap' = heap /\ live' = live /\ agent' = agent /\ refiner' = refiner
      /\ disk' = disk /\ scored' = scored /\ watermark' = watermark /\ ckpts' = ckpts
      /\ frozen' = frozen /\ refines' = refines
  BY DEF quiet, manager
<1>2. BoundToLive' /\ LogTellsTheHarness'
  BY <1>1 DEF LInv, BoundToLive, LogTellsTheHarness
<1>3. NothingOlderIsMissing' /\ OneLine' /\ CheckpointsAreAncestors'
  BY <1>1 DEF LInv, NothingOlderIsMissing, OneLine, CheckpointsAreAncestors
<1>4. Counted' /\ CreditsInDayOrder'
  BY <1>1 DEF LInv, Counted, CreditsInDayOrder
<1>5. EvidenceIsAPartition'
  BY <1>1, WindowsKept DEF LInv
<1> QED BY <1>2, <1>3, <1>4, <1>5

LEMMA StepDecide ==
    ASSUME LInv, Decide
    PROVE  LInv'
<1>1. LoopTypeOK /\ Clock /\ Schedule /\ EditsAreOlder /\ BreakerIsFresh /\ BoundToLive
      /\ UNCHANGED quiet
  BY DEF LInv, Decide, quiet, manager
<1>2. /\ idx \in Day /\ idx \in Nat /\ agent \in DOMAIN heap /\ agent = live
      /\ draft \in Seq(DOMAIN heap) /\ pending \in Seq(Day) /\ stage = "decide" /\ idx' = idx
  <2>1. /\ stage = "decide" /\ idx' = idx /\ idx \in Nat /\ agent = live
        /\ draft \in Seq(DOMAIN heap) /\ pending \in Seq(Day) /\ agent \in DOMAIN heap
    BY <1>1, ConfigFacts DEF Decide, LoopTypeOK, BoundToLive
  <2>2. idx <= cfg.lastDay
    BY <1>1, <2>1 DEF Clock
  <2>3. idx \in Day
    BY <1>1, <2>1, <2>2, ConfigFacts DEF Day
  <2> QED BY <2>1, <2>3
<1>3. heap' = heap /\ live' = live /\ frozen' = frozen /\ days' = days /\ scored' = scored
      /\ cfg' = cfg /\ trips' = trips /\ disk' = disk /\ ckpts' = ckpts
  BY <1>1 DEF quiet, manager
<1>4. LoopTypeOK'
  <2>1. stage' \in Stages /\ draft' \in Seq(DOMAIN heap) /\ pending' \in Seq(Day)
    <3>1. Append(draft, agent) \in Seq(DOMAIN heap) /\ Append(pending, idx) \in Seq(Day)
      BY <1>2
    <3> QED BY <1>2, <3>1 DEF Decide, Stages
  <2> QED BY <1>1, <1>2, <2>1 DEF LoopTypeOK, quiet, manager
<1>5. Clock'
  BY <1>1, <1>2, <1>3 DEF Clock, Decide
<1>6. CASE stage' = "raised" /\ UNCHANGED <<draft, pending>>
  <2>1. Schedule'
    BY <1>1, <1>3, <1>6 DEF Schedule, LivedThrough
  <2>2. EditsAreOlder' /\ BreakerIsFresh'
    BY <1>1, <1>2, <1>3, <1>6 DEF EditsAreOlder, BreakerIsFresh
  <2> QED BY <1>1, <1>4, <1>5, <2>1, <2>2, QuietKeeps DEF LInv
<1>7. CASE /\ draft' = Append(draft, agent) /\ pending' = Append(pending, idx)
           /\ stage' = "score"
  <2>1. /\ Len(draft') = Len(draft) + 1 /\ draft'[Len(draft) + 1] = agent
        /\ \A j \in 1 .. Len(draft) : draft'[j] = draft[j]
    BY <1>2, <1>7
  <2>2. /\ Len(pending') = Len(pending) + 1 /\ pending'[Len(pending) + 1] = idx
        /\ \A j \in 1 .. Len(pending) : pending'[j] = pending[j]
    BY <1>2, <1>7
  <2>3. Len(draft) = idx /\ Len(scored) = Reached(idx) /\ Len(pending) + Len(scored) = idx
        /\ Len(draft) \in Nat /\ Len(pending) \in Nat /\ Len(scored) \in Nat
    <3>1. Len(draft) \in Nat /\ Len(pending) \in Nat /\ Len(scored) \in Nat
      BY <1>1, <1>2 DEF LoopTypeOK
    <3>2. Len(draft) = idx /\ Len(scored) = Reached(idx) /\ Len(scored) + Len(pending) = idx
      BY <1>1, <1>2 DEF Schedule
    <3> QED BY <3>1, <3>2
  <2>4. Schedule'
    <3>1. \A i \in 1 .. Len(pending') : pending'[i] = Len(scored) + i - 1
      BY <1>1, <2>2, <2>3 DEF Schedule
    <3>2. Reached(idx)' = Reached(idx)
      BY <1>2, <1>3 DEF Reached
    <3> QED BY <1>1, <1>2, <1>3, <1>7, <2>1, <2>2, <2>3, <3>1, <3>2 DEF Schedule, LivedThrough
  <2>5. EditsAreOlder'
    BY <1>1, <1>2, <1>3, <1>7 DEF EditsAreOlder
  <2>6. BreakerIsFresh'
    BY <1>1, <1>2, <1>3, <2>1, <2>3 DEF BreakerIsFresh
  <2> QED BY <1>1, <1>4, <1>5, <2>4, <2>5, <2>6, QuietKeeps DEF LInv
<1> QED BY <1>6, <1>7 DEF Decide

\* A calm breaker and a day without a refine.
LEMMA StepCalm ==
    ASSUME LInv, Calm \/ SkipRefine
    PROVE  LInv'
<1>1. LoopTypeOK /\ Clock /\ Schedule /\ EditsAreOlder /\ BreakerIsFresh
      /\ UNCHANGED <<quiet, idx, draft, pending>>
  BY DEF LInv, Calm, SkipRefine, quiet, manager, local
<1>2. stage \in {"breaker", "refine"} /\ stage' \in {"refine", "step"}
  BY DEF Calm, SkipRefine
<1>3. heap' = heap /\ live' = live /\ frozen' = frozen /\ days' = days /\ scored' = scored
      /\ cfg' = cfg /\ trips' = trips /\ disk' = disk /\ ckpts' = ckpts
      /\ idx' = idx /\ draft' = draft /\ pending' = pending
  BY <1>1 DEF quiet, manager
<1>4. LoopTypeOK'
  BY <1>1, <1>2 DEF LoopTypeOK, quiet, manager, Stages
<1>5. Clock' /\ Schedule'
  <2>1. Reached(idx + 1)' = Reached(idx + 1)
    BY <1>3 DEF Reached
  <2> QED BY <1>1, <1>2, <1>3, <2>1 DEF Clock, Schedule, LivedThrough
<1>6. EditsAreOlder' /\ BreakerIsFresh'
  BY <1>1, <1>2, <1>3 DEF EditsAreOlder, BreakerIsFresh
<1> QED BY <1>1, <1>4, <1>5, <1>6, QuietKeeps DEF LInv

\* The next trading day.
LEMMA StepStep ==
    ASSUME LInv, Step
    PROVE  LInv'
<1>1. LoopTypeOK /\ Clock /\ Schedule /\ EditsAreOlder /\ BreakerIsFresh
      /\ UNCHANGED <<quiet, draft, pending>>
  BY DEF LInv, Step, quiet, manager, local
<1>2. /\ stage = "step" /\ idx' = idx + 1 /\ idx \in Nat /\ cfg.lastDay \in Nat
      /\ stage' = IF idx = cfg.lastDay THEN "done" ELSE "decide"
  BY <1>1, ConfigFacts DEF Step, LoopTypeOK
<1>3. heap' = heap /\ live' = live /\ frozen' = frozen /\ days' = days /\ scored' = scored
      /\ cfg' = cfg /\ trips' = trips /\ disk' = disk /\ ckpts' = ckpts
      /\ draft' = draft /\ pending' = pending
  BY <1>1 DEF quiet, manager
<1>4. idx <= cfg.lastDay /\ cfg.lastDay <= LastDay /\ LastDay \in Nat
  BY <1>1, <1>2, ConfigFacts DEF Clock
<1>5. LoopTypeOK'
  <2>1. idx' \in 0 .. LastDay + 1 /\ stage' \in Stages
    BY <1>2, <1>4 DEF Stages
  <2> QED BY <1>1, <2>1 DEF LoopTypeOK, quiet, manager
<1>6. Clock' /\ Schedule'
  <2>1. Reached(idx)' = Reached(idx + 1)
    BY <1>2, <1>3 DEF Reached
  <2>2. Clock'
    BY <1>2, <1>3, <1>4 DEF Clock
  <2>3. stage' \in {"decide", "done"} /\ Len(draft) = idx + 1 /\ Len(scored) = Reached(idx + 1)
    BY <1>1, <1>2 DEF Schedule, LivedThrough
  <2>4. Schedule'
    BY <1>1, <1>2, <1>3, <2>1, <2>3 DEF Schedule, LivedThrough
  <2> QED BY <2>2, <2>4
<1>7. EditsAreOlder'
  <2>1. ASSUME NEW e \in EditsOf(heap[live]) PROVE e.day <= idx /\ e.day \in Int
    <3>1. heap[live] \in Harness
      BY <1>1 DEF LoopTypeOK
    <3>2. e \in Edits
      BY <3>1 DEF EditsOf, Harness
    <3> QED BY <1>1, <3>2 DEF EditsAreOlder, Edits
  <2>2. ASSUME NEW c \in ckpts PROVE c[2] <= idx /\ c[2] \in Int
    BY <1>1 DEF EditsAreOlder, LoopTypeOK, Day
  <2> QED BY <1>1, <1>2, <1>3, <2>1, <2>2 DEF EditsAreOlder
<1>8. BreakerIsFresh'
  BY <1>1, <1>3 DEF BreakerIsFresh
<1> QED BY <1>1, <1>5, <1>6, <1>7, <1>8, QuietKeeps DEF LInv

------------------------------------------------------------------------------
(* Scoring *)

\* At most one day becomes due at a time, and it is the oldest one pending.
LEMMA DueDays ==
    ASSUME LoopTypeOK, Clock, Schedule, stage = "score"
    PROVE  \E m \in 0 .. 1 :
             /\ m <= Len(pending) /\ Len(scored) + m = Reached(idx + 1)
             /\ Only(pending, {j \in Day : Due(j)}) = SubSeq(pending, 1, m)
             /\ Only(pending, {j \in Day : ~ Due(j)}) = SubSeq(pending, m + 1, Len(pending))
<1> DEFINE m == Reached(idx + 1) - Reached(idx)
<1>1. /\ idx \in Nat /\ cfg.horizon \in Nat \ {0} /\ pending \in Seq(Day) /\ Day \subseteq Nat
      /\ Len(pending) \in Nat /\ Len(scored) \in Nat /\ Len(draft) \in Nat
  <2>1. cfg.horizon \in Nat \ {0} /\ LastDay \in Nat
    BY ConfigFacts
  <2>2. /\ idx \in 0 .. LastDay + 1 /\ pending \in Seq(Day) /\ scored \in Seq(Steps)
        /\ draft \in Seq(DOMAIN heap)
    BY SMTT(30) DEF LoopTypeOK
  <2> QED BY <2>1, <2>2 DEF Day
<1>2. /\ Len(draft) = idx + 1 /\ Len(scored) = Reached(idx)
      /\ Len(scored) + Len(pending) = idx + 1
  BY DEF Schedule
<1>3. m \in 0 .. 1 /\ Reached(idx) \in Nat /\ Reached(idx + 1) = Reached(idx) + m
  BY <1>1 DEF Reached
<1>4. m <= Len(pending) /\ Len(scored) + m = Reached(idx + 1)
  <2>1. Reached(idx + 1) <= idx + 1
    BY <1>1 DEF Reached
  <2> HIDE DEF m
  <2> QED BY <1>1, <1>2, <1>3, <2>1
<1>5. ASSUME NEW i \in 1 .. Len(pending) PROVE Due(pending[i]) <=> i <= m
  <2>1. pending[i] = Len(scored) + i - 1
    BY DEF Schedule
  <2>2. Due(pending[i]) <=> i <= idx + 1 - cfg.horizon - Reached(idx)
    BY <1>1, <1>2, <1>3, <2>1 DEF Due
  <2>3. CASE idx >= cfg.horizon
    BY <1>1, <2>2, <2>3 DEF Reached
  <2>4. CASE idx < cfg.horizon
    BY <1>1, <2>2, <2>4 DEF Reached
  <2> QED BY <1>1, <2>3, <2>4
<1>6. \A i \in 1 .. Len(pending) : pending[i] \in Day
  BY <1>1
<1> HIDE DEF m
<1>7. Only(pending, {j \in Day : Due(j)}) = SubSeq(pending, 1, m)
  <2>1. \A i \in 1 .. Len(pending) : pending[i] \in {j \in Day : Due(j)} <=> i <= m
    BY <1>5, <1>6
  <2>2. m \in 0 .. Len(pending)
    BY <1>1, <1>3, <1>4
  <2> QED BY <1>1, <2>1, <2>2, OnlyFirst
<1>8. Only(pending, {j \in Day : ~ Due(j)}) = SubSeq(pending, m + 1, Len(pending))
  <2>1. \A i \in 1 .. Len(pending) : pending[i] \in {j \in Day : ~ Due(j)} <=> i > m
    BY <1>1, <1>3, <1>5, <1>6
  <2>2. m \in 0 .. Len(pending)
    BY <1>1, <1>3, <1>4
  <2> QED BY <1>1, <2>1, <2>2, OnlyRest
<1> QED BY <1>3, <1>4, <1>7, <1>8

\* What a day's scoring does, with the m steps that are scored.
Scored(m, newly) ==
    /\ newly \in Seq(Steps) /\ Len(newly) = m
    /\ \A i \in 1 .. m : newly[i].day = Len(scored)
    /\ m <= Len(pending) /\ Len(scored) + m = Reached(idx + 1)
    /\ scored' = scored \o newly
    /\ pending' = SubSeq(pending, m + 1, Len(pending))
    /\ IF frozen
       THEN UNCHANGED <<heap, reports, days>>
       ELSE /\ Credit(newly)
            /\ reports' = reports \o ReportsOf(newly)
            /\ days' = days \o [i \in 1 .. m |-> [day |-> newly[i].day, v |-> newly[i].v]]

LEMMA ScoreEffect ==
    ASSUME LoopTypeOK, Clock, Schedule, Score
    PROVE  \E m \in 0 .. 1, newly \in Seq(Steps) : Scored(m, newly)
<1> DEFINE due == Only(pending, {j \in Day : Due(j)})
<1>1. PICK m \in 0 .. 1 :
             /\ m <= Len(pending) /\ Len(scored) + m = Reached(idx + 1)
             /\ due = SubSeq(pending, 1, m)
             /\ Only(pending, {j \in Day : ~ Due(j)}) = SubSeq(pending, m + 1, Len(pending))
  BY DueDays DEF Score
<1>2. pending \in Seq(Day) /\ Len(scored) \in Nat /\ Day \subseteq Nat
  BY SMTT(30) DEF LoopTypeOK, Day
<1>3. /\ DOMAIN due = 1 .. m
      /\ \A i \in 1 .. m : due[i] = Len(scored) /\ due[i] \in Day
  <2>1. due \in Seq(Day) /\ Len(due) = m /\ \A i \in 1 .. m : due[i] = pending[i]
    <3> HIDE DEF due
    <3> QED BY <1>1, <1>2
  <2>2. \A i \in 1 .. m : i = 1
    OBVIOUS
  <2>3. \A i \in 1 .. m : pending[i] = Len(scored) + i - 1
    BY <1>1, <1>2 DEF Schedule
  <2> HIDE DEF due
  <2> QED BY <1>2, <2>1, <2>2, <2>3
<1>4. PICK newly \in {f \in [DOMAIN due -> UNION {Outcomes(j) : j \in Day}] :
                            \A i \in DOMAIN due : f[i].day = due[i]} :
             /\ scored' = scored \o newly
             /\ pending' = Only(pending, {j \in Day : ~ Due(j)})
             /\ IF frozen
                THEN UNCHANGED <<heap, reports, days>>
                ELSE /\ Credit(newly)
                     /\ reports' = reports \o ReportsOf(newly)
                     /\ days' = days \o MapSeq(newly, LAMBDA s : [day |-> s.day, v |-> s.v])
  BY DEF Score
<1>5. UNION {Outcomes(j) : j \in Day} \subseteq Steps
  <2> SUFFICES ASSUME NEW j \in Day PROVE Outcomes(j) \subseteq Steps
      OBVIOUS
  <2>1. cfg.advantages \subseteq Advantages
    BY ConfigFacts
  <2>2. {0, 1} \subseteq 0 .. 1
    OBVIOUS
  <2>3. \A a \in cfg.advantages : [day |-> j, n |-> 1, traded |-> TRUE, v |-> a] \in Steps
    BY <2>1, <2>2 DEF Steps
  <2>4. /\ [day |-> j, n |-> 0, traded |-> FALSE, v |-> 0] \in Steps
        /\ [day |-> j, n |-> 1, traded |-> FALSE, v |-> 0] \in Steps
    BY <2>2 DEF Steps
  <2> QED BY <2>3, <2>4 DEF Outcomes
<1>6. newly \in [1 .. m -> Steps] /\ \A i \in 1 .. m : newly[i].day = Len(scored)
  <2> HIDE DEF due
  <2> QED BY <1>3, <1>4, <1>5
<1>7. newly \in Seq(Steps) /\ Len(newly) = m /\ DOMAIN newly = 1 .. m
  BY <1>6
<1>8. MapSeq(newly, LAMBDA s : [day |-> s.day, v |-> s.v])
        = [i \in 1 .. m |-> [day |-> newly[i].day, v |-> newly[i].v]]
  BY <1>7 DEF MapSeq
<1>9. Scored(m, newly)
  BY <1>1, <1>4, <1>6, <1>7, <1>8 DEF Scored
<1> QED BY <1>7, <1>9

\* A credit appends the day that is scored to the statistics, or nothing.
LEMMA CreditEffect ==
    ASSUME LoopTypeOK, NEW m \in 0 .. 1, NEW newly \in Seq(Steps), Scored(m, newly), ~ frozen
    PROVE  \E t \in Seq(Day) : /\ Len(t) <= m /\ \A i \in 1 .. Len(t) : t[i] = Len(scored)
                               /\ heap' = [heap EXCEPT ![live].stats = @ \o t]
<1> DEFINE f == Only(newly, TradedSteps)
           t == MapSeq(f, LAMBDA s : s.day)
<1>1. heap' = [heap EXCEPT ![live].stats = @ \o t]
  BY DEF Scored, Credit, CountDays
<1>2. /\ f \in Seq(Steps) /\ Len(f) <= m
      /\ \A i \in 1 .. Len(f) : \E j \in 1 .. Len(newly) : f[i] = newly[j]
  BY OnlyTyped DEF Scored
<1> HIDE DEF f
<1>3. t = [i \in 1 .. Len(f) |-> f[i].day]
  BY <1>2 DEF MapSeq
<1>4. ASSUME NEW i \in 1 .. Len(f) PROVE f[i].day \in Day /\ f[i].day = Len(scored)
  <2>1. PICK j \in 1 .. Len(newly) : f[i] = newly[j]
    BY <1>2
  <2>2. newly[j] \in Steps /\ newly[j].day = Len(scored)
    BY DEF Scored
  <2> QED BY <2>1, <2>2 DEF Steps
<1>5. t \in Seq(Day) /\ Len(t) = Len(f) /\ \A i \in 1 .. Len(f) : t[i] = Len(scored)
  BY <1>2, <1>3, <1>4
<1>6. Len(t) <= m /\ \A i \in 1 .. Len(t) : t[i] = Len(scored)
  <2> HIDE DEF t
  <2> QED BY <1>2, <1>5
<1> HIDE DEF t
<1> QED BY <1>1, <1>5, <1>6

\* What scoring does to harnesses: nobody's edits, and one day more at most.
DaysMore(o, m) ==
    /\ heap'[o].edits = heap[o].edits /\ heap'[o].log = heap[o].log
    /\ \E t \in Seq(Day) : /\ Len(t) <= m /\ \A i \in 1 .. Len(t) : t[i] = Len(scored)
                           /\ heap'[o].stats = heap[o].stats \o t

LEMMA ScoredHarnesses ==
    ASSUME LoopTypeOK, NEW m \in 0 .. 1, NEW newly \in Seq(Steps), Scored(m, newly)
    PROVE  /\ heap' \in Seq(Harness) /\ Len(heap') = Len(heap)
           /\ \A o \in 1 .. Len(heap) : DaysMore(o, m)
<1>1. /\ heap \in Seq(Harness) /\ live \in 1 .. Len(heap)
      /\ << >> \in Seq(Day) /\ Len(<< >>) = 0
      /\ \A o \in 1 .. Len(heap) : heap[o] \in Harness /\ heap[o].stats \in Seq(Day)
  <2>1. heap \in Seq(Harness) /\ live \in 1 .. Len(heap)
    BY SMTT(30) DEF LoopTypeOK
  <2>2. << >> \in Seq(Day) /\ Len(<< >>) = 0
    OBVIOUS
  <2> QED BY <2>1, <2>2, HarnessFields
<1>2. ASSUME NEW o \in 1 .. Len(heap), heap'[o] = heap[o] PROVE DaysMore(o, m)
  <2>1. heap'[o].stats = heap[o].stats \o << >>
    BY <1>1, <1>2
  <2>2. Len(<< >>) <= m /\ \A i \in 1 .. Len(<< >>) : << >>[i] = Len(scored)
    BY <1>1
  <2> QED BY <1>1, <1>2, <2>1, <2>2 DEF DaysMore
<1>3. CASE frozen
  <2>1. heap' = heap
    BY <1>3 DEF Scored
  <2> QED BY <1>1, <1>2, <2>1
<1>4. CASE ~ frozen
  <2>1. PICK t \in Seq(Day) : /\ Len(t) <= m /\ \A i \in 1 .. Len(t) : t[i] = Len(scored)
                              /\ heap' = [heap EXCEPT ![live].stats = @ \o t]
    BY <1>4, CreditEffect
  <2>2. /\ heap' \in Seq(Harness) /\ Len(heap') = Len(heap)
        /\ \A o \in 1 .. Len(heap) : o # live => heap'[o] = heap[o]
        /\ heap'[live].edits = heap[live].edits /\ heap'[live].log = heap[live].log
        /\ heap'[live].stats = heap[live].stats \o t
    BY <2>1, CountEffect
  <2>3. DaysMore(live, m)
    BY <2>1, <2>2 DEF DaysMore
  <2>4. ASSUME NEW o \in 1 .. Len(heap), o # live PROVE DaysMore(o, m)
    BY <1>2, <2>2, <2>4
  <2> QED BY <2>2, <2>3, <2>4
<1> QED BY <1>3, <1>4

\* What scoring does to the lists of days.
LEMMA ScoredLists ==
    ASSUME LoopTypeOK, Schedule, NEW m \in 0 .. 1, NEW newly \in Seq(Steps), Scored(m, newly)
    PROVE  /\ scored' \in Seq(Steps) /\ Len(scored') = Len(scored) + m
           /\ \A i \in 1 .. Len(scored) : scored'[i] = scored[i]
           /\ \A i \in 1 .. Len(scored') : scored'[i].day = i - 1
           /\ pending' \in Seq(Day) /\ Len(pending') = Len(pending) - m
           /\ \A i \in 1 .. Len(pending') : pending'[i] = Len(scored') + i - 1
           /\ Len(scored') + Len(pending') = Len(scored) + Len(pending)
           /\ reports' \in Seq(Day) /\ days' \in Seq(BreakerDays)
           /\ frozen \/ /\ Len(days') = Len(days) + m
                        /\ \A i \in 1 .. Len(days) : days'[i] = days[i]
                        /\ \A i \in Len(days) + 1 .. Len(days') : days'[i].day = Len(scored)
<1>1. /\ scored \in Seq(Steps) /\ pending \in Seq(Day) /\ newly \in Seq(Steps)
      /\ reports \in Seq(Day) /\ days \in Seq(BreakerDays)
      /\ Len(newly) = m /\ scored' = scored \o newly /\ m <= Len(pending)
      /\ pending' = SubSeq(pending, m + 1, Len(pending))
      /\ \A i \in 1 .. m : newly[i].day = Len(scored)
  BY DEF LoopTypeOK, Scored
<1>2. /\ scored' \in Seq(Steps) /\ Len(scored') = Len(scored) + m
      /\ \A i \in 1 .. Len(scored) : scored'[i] = scored[i]
      /\ \A i \in 1 .. m : scored'[Len(scored) + i] = newly[i]
  BY <1>1
<1>3. ASSUME NEW i \in 1 .. Len(scored') PROVE scored'[i].day = i - 1
  <2>1. CASE i <= Len(scored)
    BY <1>1, <1>2, <2>1 DEF Schedule
  <2>2. CASE i > Len(scored)
    <3>1. m = 1 /\ i = Len(scored) + 1
      BY <1>1, <1>2, <2>2
    <3>2. scored'[i] = newly[1] /\ newly[1].day = Len(scored)
      BY <1>1, <1>2, <3>1
    <3> QED BY <1>1, <3>1, <3>2
  <2> QED BY <1>1, <1>2, <2>1, <2>2
<1>4. /\ pending' \in Seq(Day) /\ Len(pending') = Len(pending) - m
      /\ \A i \in 1 .. Len(pending') : i + m \in 1 .. Len(pending) /\ pending'[i] = pending[i + m]
  BY <1>1
<1>5. ASSUME NEW i \in 1 .. Len(pending') PROVE pending'[i] = Len(scored') + i - 1
  <2>1. pending[i + m] = Len(scored) + (i + m) - 1
    BY <1>4 DEF Schedule
  <2> QED BY <1>1, <1>2, <1>4, <2>1
<1>6. Len(scored') + Len(pending') = Len(scored) + Len(pending)
  <2>1. Len(scored) \in Nat /\ Len(pending) \in Nat
    BY <1>1
  <2> QED BY <1>2, <1>4, <2>1
<1>7. CASE frozen
  <2>1. reports' = reports /\ days' = days
    BY <1>7 DEF Scored
  <2>2. reports' \in Seq(Day) /\ days' \in Seq(BreakerDays)
    BY <1>1, <2>1
  <2> QED BY <1>2, <1>3, <1>4, <1>5, <1>7, <1>6, <2>2
<1>8. CASE ~ frozen
  <2> DEFINE more == [i \in 1 .. m |-> [day |-> newly[i].day, v |-> newly[i].v]]
  <2>1. reports' = reports \o ReportsOf(newly) /\ days' = days \o more
    BY <1>8 DEF Scored
  <2>2. \A i \in 1 .. m : newly[i] \in Steps
    BY <1>1
  <2>3. ReportsOf(newly) = [i \in 1 .. m |-> newly[i].day] /\ ReportsOf(newly) \in Seq(Day)
    <3>1. ReportsOf(newly) = [i \in 1 .. m |-> newly[i].day]
      BY <1>1 DEF ReportsOf, MapSeq
    <3>2. \A i \in 1 .. m : newly[i].day \in Day
      BY <2>2 DEF Steps
    <3> QED BY <3>1, <3>2
  <2>4. more \in Seq(BreakerDays) /\ Len(more) = m /\ \A i \in 1 .. m : more[i].day = Len(scored)
    <3>1. \A i \in 1 .. m : [day |-> newly[i].day, v |-> newly[i].v] \in BreakerDays
      BY <2>2 DEF Steps, BreakerDays
    <3> QED BY <1>1, <3>1
  <2> HIDE DEF more
  <2>5. /\ Len(days') = Len(days) + m /\ days' \in Seq(BreakerDays)
        /\ \A i \in 1 .. Len(days) : days'[i] = days[i]
        /\ \A i \in Len(days) + 1 .. Len(days') : days'[i].day = Len(scored)
    <3>1. /\ Len(days') = Len(days) + m /\ days' \in Seq(BreakerDays)
          /\ \A i \in 1 .. Len(days) : days'[i] = days[i]
          /\ \A i \in 1 .. m : days'[Len(days) + i] = more[i]
      <4>1. days \in Seq(BreakerDays) /\ days' = days \o more
        BY <1>1, <2>1
      <4> QED BY <2>4, <4>1
    <3>2. ASSUME NEW i \in Len(days) + 1 .. Len(days') PROVE days'[i].day = Len(scored)
      <4>1. i - Len(days) \in 1 .. m /\ i = Len(days) + (i - Len(days))
        BY <1>1, <3>1
      <4> QED BY <2>4, <3>1, <4>1
    <3> QED BY <3>1, <3>2
  <2>6. reports' \in Seq(Day)
    BY <1>1, <2>1, <2>3
  <2> QED BY <1>1, <1>2, <1>3, <1>4, <1>5, <1>6, <2>5, <2>6
<1> QED BY <1>7, <1>8

\* A scored day appended to days that are in order and older.
LEMMA OneMoreInOrder ==
    ASSUME NEW s \in Seq(Day), NEW t \in Seq(Day), NEW n \in Nat, NEW m \in 0 .. 1,
           Increasing(s), \A i \in 1 .. Len(s) : s[i] < n,
           Len(t) <= m, \A i \in 1 .. Len(t) : t[i] = n
    PROVE  Increasing(s \o t) /\ \A i \in 1 .. Len(s \o t) : (s \o t)[i] < n + m
<1> DEFINE u == s \o t
<1>1. /\ Len(s) \in Nat /\ Len(t) \in Nat /\ Len(u) = Len(s) + Len(t)
      /\ DOMAIN u = 1 .. Len(u) /\ DOMAIN s = 1 .. Len(s)
      /\ \A i \in 1 .. Len(s) : u[i] = s[i] /\ s[i] \in Day
      /\ \A i \in 1 .. Len(t) : u[Len(s) + i] = t[i]
  OBVIOUS
<1>2. \A i \in 1 .. Len(s) : s[i] \in Nat
  BY <1>1, LoopBoundsAssumption DEF Day
<1> HIDE DEF u
<1>3. ASSUME NEW i \in 1 .. Len(u), i > Len(s)
      PROVE  i = Len(s) + 1 /\ u[i] = n /\ m = 1
  <2> DEFINE a == Len(s)
             b == Len(t)
  <2>1. i \in Nat /\ a \in Nat /\ b \in Nat /\ b <= m /\ i > a /\ i <= a + b
    BY <1>1, <1>3
  <2>2. b = 1 /\ m = 1 /\ i = a + 1
    <3> HIDE DEF a, b
    <3> QED BY <2>1
  <2> QED BY <1>1, <2>2
<1>4. ASSUME NEW i \in 1 .. Len(u) PROVE u[i] < n + m
  <2>1. CASE i \in 1 .. Len(s)
    BY <1>1, <1>2, <2>1
  <2>2. CASE i > Len(s)
    BY <1>3, <2>2
  <2> QED BY <1>1, <2>1, <2>2
<1>5. ASSUME NEW i \in 1 .. Len(u), NEW j \in 1 .. Len(u), i < j
      PROVE  u[i] < u[j]
  <2>1. i \in 1 .. Len(s)
    BY <1>1, <1>3, <1>5
  <2>2. CASE j \in 1 .. Len(s)
    BY <1>1, <1>5, <2>1, <2>2 DEF Increasing
  <2>3. CASE j > Len(s)
    BY <1>1, <1>3, <2>1, <2>3
  <2> QED BY <1>1, <2>2, <2>3
<1>6. Increasing(u)
  BY <1>1, <1>5 DEF Increasing
<1> QED BY <1>4, <1>6 DEF u

LEMMA StepScore ==
    ASSUME LInv, Score
    PROVE  LInv'
<1>1. LoopTypeOK /\ Clock /\ Schedule /\ EditsAreOlder /\ BreakerIsFresh /\ stage = "score"
  BY DEF LInv, Score
<1>2. PICK m \in 0 .. 1, newly \in Seq(Steps) : Scored(m, newly)
  BY <1>1, ScoreEffect
<1>3. /\ cfg' = cfg /\ idx' = idx /\ live' = live /\ agent' = agent /\ refiner' = refiner
      /\ recent' = recent /\ disk' = disk /\ draft' = draft /\ watermark' = watermark
      /\ ckpts' = ckpts /\ trips' = trips /\ frozen' = frozen /\ refines' = refines
      /\ breaks' = breaks /\ stage' = "breaker"
  BY DEF Score
<1>4. /\ heap' \in Seq(Harness) /\ Len(heap') = Len(heap)
      /\ \A o \in 1 .. Len(heap) : DaysMore(o, m)
  BY <1>1, <1>2, ScoredHarnesses
<1>5. /\ scored' \in Seq(Steps) /\ Len(scored') = Len(scored) + m
      /\ \A i \in 1 .. Len(scored) : scored'[i] = scored[i]
      /\ \A i \in 1 .. Len(scored') : scored'[i].day = i - 1
      /\ pending' \in Seq(Day) /\ Len(pending') = Len(pending) - m
      /\ \A i \in 1 .. Len(pending') : pending'[i] = Len(scored') + i - 1
      /\ Len(scored') + Len(pending') = Len(scored) + Len(pending)
      /\ reports' \in Seq(Day) /\ days' \in Seq(BreakerDays)
      /\ frozen \/ /\ Len(days') = Len(days) + m
                   /\ \A i \in 1 .. Len(days) : days'[i] = days[i]
                   /\ \A i \in Len(days) + 1 .. Len(days') : days'[i].day = Len(scored)
  BY <1>1, <1>2, ScoredLists
<1>6. /\ heap \in Seq(Harness) /\ disk \in Seq(Harness) /\ live \in 1 .. Len(heap)
      /\ scored \in Seq(Steps) /\ days \in Seq(BreakerDays)
      /\ DOMAIN heap = 1 .. Len(heap) /\ DOMAIN heap' = 1 .. Len(heap)
      /\ ckpts \subseteq (0 .. Len(disk) - 1) \X Day
      /\ Len(scored) \in Nat /\ watermark \in 0 .. Len(scored)
      /\ Len(scored) + m = Reached(idx + 1)
  <2>1. /\ heap \in Seq(Harness) /\ disk \in Seq(Harness) /\ live \in DOMAIN heap
        /\ scored \in Seq(Steps) /\ days \in Seq(BreakerDays) /\ watermark \in 0 .. Len(scored)
        /\ ckpts \subseteq (0 .. Len(disk) - 1) \X Day
    BY <1>1 DEF LoopTypeOK
  <2>2. Len(scored) + m = Reached(idx + 1)
    BY <1>2 DEF Scored
  <2> QED BY <1>4, <2>1, <2>2
<1>7. \A o \in 1 .. Len(heap) : heap'[o].edits = heap[o].edits /\ heap'[o].log = heap[o].log
                                /\ EditsOf(heap'[o]) = EditsOf(heap[o])
  BY <1>4 DEF DaysMore, EditsOf
<1>8. LoopTypeOK'
  <2>1. stage' \in Stages /\ watermark' \in 0 .. Len(scored')
    BY <1>3, <1>5, <1>6, SMTT(30) DEF Stages
  <2> QED BY <1>1, <1>3, <1>4, <1>5, <1>6, <2>1 DEF LoopTypeOK
<1>9. Clock' /\ Schedule'
  <2>1. Reached(idx + 1)' = Reached(idx + 1)
    BY <1>3 DEF Reached
  <2>2. Len(draft') = idx' + 1 /\ Len(scored') + Len(pending') = Len(draft')
    BY <1>1, <1>3, <1>5 DEF Schedule
  <2>3. Clock'
    BY <1>1, <1>3 DEF Clock
  <2> QED BY <1>3, <1>5, <1>6, <2>1, <2>2, <2>3 DEF Schedule, LivedThrough
<1>10. BoundToLive' /\ LogTellsTheHarness'
  BY <1>3, <1>6, <1>7 DEF LInv, BoundToLive, LogTellsTheHarness
<1>11. EditsAreOlder' /\ NothingOlderIsMissing' /\ OneLine'
  <2>1. EditsOf(heap[live])' = EditsOf(heap[live])
    BY <1>3, <1>6, <1>7
  <2>2. \A v : EditsOf(disk[v])' = EditsOf(disk[v])
    BY <1>3
  <2>3. EditsAreOlder'
    BY <1>1, <1>3, <2>1, <2>2 DEF EditsAreOlder
  <2>4. NothingOlderIsMissing'
    BY <1>3, <2>1, <2>2 DEF LInv, NothingOlderIsMissing
  <2> QED BY <1>3, <2>3, <2>4 DEF LInv, OneLine
<1>12. CheckpointsAreAncestors'
  <2> SUFFICES ASSUME ~ frozen, NEW c \in ckpts
               PROVE  /\ IsPrefixOf(disk[c[1] + 1].edits, heap'[live].edits)
                      /\ IsPrefixOf(disk[c[1] + 1].stats, heap'[live].stats)
      BY <1>3 DEF CheckpointsAreAncestors
  <2>1. /\ IsPrefixOf(disk[c[1] + 1].edits, heap[live].edits)
        /\ IsPrefixOf(disk[c[1] + 1].stats, heap[live].stats)
    BY DEF LInv, CheckpointsAreAncestors
  <2>2. disk[c[1] + 1] \in Harness /\ heap[live] \in Harness
    BY <1>6
  <2>3. PICK t \in Seq(Day) : heap'[live].stats = heap[live].stats \o t
    BY <1>4, <1>6 DEF DaysMore
  <2>4. IsPrefixOf(disk[c[1] + 1].stats, heap'[live].stats)
    <3>1. disk[c[1] + 1].stats \in Seq(Day) /\ heap[live].stats \in Seq(Day)
      BY <2>2 DEF Harness
    <3> QED BY <2>1, <2>3, <3>1, PrefixAppended
  <2> QED BY <1>6, <1>7, <2>1, <2>4
<1>13. Counted' /\ CreditsInDayOrder'
  <2>1. ASSUME NEW o \in 1 .. Len(heap)
        PROVE  /\ \A i \in 1 .. Len(heap'[o].stats) : heap'[o].stats[i] < Len(scored')
               /\ Increasing(heap'[o].stats)
    <3>1. PICK t \in Seq(Day) : /\ Len(t) <= m /\ \A i \in 1 .. Len(t) : t[i] = Len(scored)
                                /\ heap'[o].stats = heap[o].stats \o t
      BY <1>4 DEF DaysMore
    <3>2. heap[o].stats \in Seq(Day)
      BY <1>6, HarnessFields
    <3>3. /\ \A i \in 1 .. Len(heap[o].stats) : heap[o].stats[i] < Len(scored)
          /\ Increasing(heap[o].stats)
      BY <1>6 DEF LInv, Counted, CreditsInDayOrder
    <3> QED BY <1>5, <1>6, <3>1, <3>2, <3>3, OneMoreInOrder
  <2>2. ASSUME NEW v \in 1 .. Len(disk), NEW i \in 1 .. Len(disk[v].stats)
        PROVE  disk[v].stats[i] < Len(scored')
    <3>1. disk[v].stats[i] \in Nat
      BY <1>6, HarnessFields
    <3>2. disk[v].stats[i] < Len(scored)
      BY DEF LInv, Counted
    <3>3. Len(scored) <= Len(scored') /\ Len(scored') \in Nat
      <4>1. Len(scored') = Len(scored) + m /\ Len(scored) \in Nat
        BY <1>5, <1>6, SMTT(30)
      <4> QED BY <4>1
    <3> QED BY <1>6, <3>1, <3>2, <3>3, SMTT(30)
  <2>3. Counted'
    BY <1>3, <1>4, <2>1, <2>2 DEF Counted
  <2> QED BY <1>3, <1>6, <2>1, <2>3 DEF LInv, CreditsInDayOrder
<1>14. EvidenceIsAPartition'
  <2>1. \A i \in 1 .. watermark : i \in 1 .. Len(scored) /\ scored'[i] = scored[i]
    BY <1>5, <1>6
  <2> QED BY <1>3, <2>1, WindowsKept DEF LInv
<1>15. BreakerIsFresh'
  <2> SUFFICES ASSUME ~ frozen PROVE BreakerIsFresh'
      BY <1>3 DEF BreakerIsFresh
  <2>1. /\ trips <= 1 /\ Len(days) <= Len(scored) /\ Len(days) \in Nat
        /\ \A i \in 1 .. Len(days) : days[i].day = Len(scored) - Len(days) + i - 1
    BY <1>1, <1>6 DEF BreakerIsFresh
  <2>2. /\ Len(days') <= Len(scored')
        /\ Len(scored') - Len(days') = Len(scored) - Len(days)
    <3>1. Len(scored') = Len(scored) + m /\ Len(days') = Len(days) + m
      BY <1>5
    <3> QED BY <1>6, <2>1, <3>1
  <2>3. ASSUME NEW i \in 1 .. Len(days') PROVE days'[i].day = Len(scored) - Len(days) + i - 1
    <3>1. CASE i <= Len(days)
      BY <1>5, <2>1, <3>1, SMTT(30)
    <3>2. CASE i > Len(days)
      <4>1. i = Len(days) + 1 /\ days'[i].day = Len(scored)
        BY <1>5, <2>1, <3>2
      <4> QED BY <1>6, <2>1, <4>1
    <3> QED BY <1>5, <2>1, <3>1, <3>2
  <2> QED BY <1>1, <1>3, <2>1, <2>2, <2>3 DEF BreakerIsFresh
<1> QED BY <1>8, <1>9, <1>10, <1>11, <1>12, <1>13, <1>14, <1>15 DEF LInv

------------------------------------------------------------------------------
(* Rolling back *)

LEMMA DayOfLoop ==
    ASSUME LoopTypeOK, Clock, stage # "done"
    PROVE  idx \in Day /\ idx \in Nat
<1>1. idx \in Nat /\ idx <= cfg.lastDay
  BY LoopBoundsAssumption DEF LoopTypeOK, Clock
<1> QED BY <1>1, ConfigFacts DEF Day

\* The live harness becomes a copy of a checkpoint, whatever else is dropped.
LEMMA RolledBack ==
    ASSUME LInv, Candidates # {}, RollBackTo(Target), ckpts' \subseteq ckpts,
           stage = "breaker", stage' = "refine", idx' = idx, scored' = scored
    PROVE  /\ heap' \in Seq(Harness) /\ Len(heap') = Len(heap) + 1 /\ live' \in DOMAIN heap'
           /\ agent' = live' /\ refiner' = live' /\ recent' = << >> /\ disk' = disk
           /\ heap'[live'] = disk[Target + 1]
           /\ BoundToLive' /\ LogTellsTheHarness' /\ EditsAreOlder' /\ Counted'
           /\ CreditsInDayOrder'
<1>1. /\ heap' \in Seq(Harness) /\ Len(heap') = Len(heap) + 1 /\ live' = Len(heap) + 1
      /\ \A o \in 1 .. Len(heap) : heap'[o] = heap[o]
      /\ heap'[live'] = disk[Target + 1]
      /\ agent' = live' /\ refiner' = live' /\ recent' = << >> /\ disk' = disk
  BY RollBackEffect DEF LInv
<1>2. /\ heap \in Seq(Harness) /\ disk \in Seq(Harness) /\ Len(heap) \in Nat
      /\ Target + 1 \in 1 .. Len(disk) /\ DOMAIN heap = 1 .. Len(heap)
      /\ DOMAIN disk = 1 .. Len(disk)
      /\ DOMAIN heap' = 1 .. Len(heap) + 1 /\ live' \in DOMAIN heap' /\ idx \in Nat
  <2>1. /\ heap \in Seq(Harness) /\ disk \in Seq(Harness)
    BY DEF LInv, LoopTypeOK
  <2>2. Target + 1 \in DOMAIN disk
    BY TargetIsACheckpoint DEF LInv
  <2>3. idx \in Nat
    BY DayOfLoop DEF LInv
  <2> QED BY <1>1, <2>1, <2>2, <2>3
<1>3. PICK t \in ckpts : t[1] = Target /\ t[2] \in Day
  <2>1. PICK t \in Candidates : t[1] = Target
    BY TargetIsACheckpoint DEF LInv
  <2> QED BY <2>1 DEF Candidates, LInv, LoopTypeOK
<1>4. \A o \in DOMAIN heap' : o \in DOMAIN heap \/ heap'[o] = disk[Target + 1]
  BY <1>1, <1>2
<1>5. BoundToLive' /\ LogTellsTheHarness'
  BY <1>1, <1>2, <1>4 DEF LInv, BoundToLive, LogTellsTheHarness
<1>6. EditsAreOlder'
  <2>1. EditsOf(heap[live])' = EditsOf(disk[Target + 1])
    BY <1>1 DEF EditsOf
  <2>2. ASSUME NEW e \in EditsOf(disk[Target + 1]) PROVE e.day <= idx /\ e.day < idx
    <3>1. e.day \in Int /\ t[2] \in Nat
      <4>1. \A d \in EditsOf(disk[Target + 1]) : d.day \in Int
        BY <1>2, HarnessFields
      <4> QED BY <1>3, <4>1, LoopBoundsAssumption DEF Day
    <3>2. e.day < t[2] /\ t[2] <= idx
      BY <1>3 DEF LInv, EditsAreOlder
    <3> QED BY <1>2, <3>1, <3>2
  <2>3. \A v : EditsOf(disk[v])' = EditsOf(disk[v])
    BY <1>1
  <2> QED BY <2>1, <2>2, <2>3 DEF LInv, EditsAreOlder
<1>7. Counted'
  BY <1>1, <1>2, <1>4 DEF LInv, Counted
<1>8. CreditsInDayOrder'
  BY <1>1, <1>2, <1>4 DEF LInv, CreditsInDayOrder
<1> QED BY <1>1, <1>2, <1>5, <1>6, <1>7, <1>8

\* What the breaker writes down.
LEMMA BreakRecorded ==
    ASSUME LInv, Armed, stage = "breaker", NEW target \in {-1} \cup Nat,
           NEW mode \in {"rollback", "frozen"}, BreakEvent(target, mode)
    PROVE  breaks' \in Seq(BreakEvents)
<1>1. WindowStart \in Day /\ idx \in Day /\ Len(scored) \in Nat /\ breaks \in Seq(BreakEvents)
  BY WindowHasStart, DayOfLoop, SMTT(30) DEF LInv, LoopTypeOK
<1>2. [day |-> idx, start |-> WindowStart, target |-> target, mode |-> mode,
       scored |-> Len(scored)] \in BreakEvents
  BY <1>1 DEF BreakEvents
<1> QED BY <1>1, <1>2 DEF BreakEvent

\* The breaker leaves the schedule and the evidence of refines alone.
LEMMA BreakerKeeps ==
    ASSUME LInv, stage = "breaker", stage' = "refine",
           UNCHANGED <<cfg, idx, draft, pending, scored, watermark, refines>>
    PROVE  Clock' /\ Schedule' /\ EvidenceIsAPartition'
<1>1. Clock'
  BY DEF LInv, Clock
<1>2. Reached(idx + 1)' = Reached(idx + 1)
  BY DEF Reached
<1>3. Schedule'
  BY <1>2 DEF LInv, Schedule, LivedThrough
<1> QED BY <1>1, <1>3, WindowsKept DEF LInv

LEMMA StepRearm ==
    ASSUME LInv, Rearm
    PROVE  LInv'
<1>1. /\ stage = "breaker" /\ stage' = "refine" /\ ~ frozen /\ Armed /\ Candidates # {}
      /\ RollBackTo(Target) /\ ckpts' = Remaining(Target) /\ days' = << >>
      /\ BreakEvent(Target, "rollback") /\ trips' = 1 /\ frozen' = frozen
      /\ UNCHANGED <<cfg, idx, draft, pending, scored, watermark, reports, refines>>
  <2>1. trips' = trips + 1 /\ trips = 0
    BY DEF Rearm, MayRearm
  <2>2. trips' = 1
    BY <2>1
  <2> QED BY <2>2, Zenon DEF Rearm, Tripped, MayRearm, EvidenceCleared
<1>2. /\ ckpts' \subseteq ckpts /\ \A c \in ckpts' : c[1] <= Target
  BY <1>1 DEF Remaining
<1>3. /\ heap' \in Seq(Harness) /\ Len(heap') = Len(heap) + 1 /\ live' \in DOMAIN heap'
      /\ agent' = live' /\ refiner' = live' /\ recent' = << >> /\ disk' = disk
      /\ heap'[live'] = disk[Target + 1]
      /\ BoundToLive' /\ LogTellsTheHarness' /\ EditsAreOlder' /\ Counted'
      /\ CreditsInDayOrder'
  BY <1>1, <1>2, RolledBack
<1>4. Clock' /\ Schedule' /\ EvidenceIsAPartition'
  BY <1>1, BreakerKeeps
<1>5. /\ heap \in Seq(Harness) /\ disk \in Seq(Harness) /\ live \in 1 .. Len(heap)
      /\ ckpts \subseteq (0 .. Len(disk) - 1) \X Day /\ draft \in Seq(DOMAIN heap)
      /\ Target \in Nat /\ Target + 1 \in 1 .. Len(disk)
  <2>1. LoopTypeOK
    BY DEF LInv
  <2>2. Target \in 0 .. Len(disk) - 1 /\ Target + 1 \in DOMAIN disk
    BY <1>1, <2>1, TargetIsACheckpoint
  <2>3. draft \in Seq(DOMAIN heap)
    BY <2>1 DEF LoopTypeOK
  <2> QED BY <2>1, <2>2, <2>3, TypeFacts
<1>6. PICK t \in ckpts : t[1] = Target
  BY <1>1, TargetIsACheckpoint DEF LInv, Candidates
<1>7. LoopTypeOK'
  <2>1. breaks' \in Seq(BreakEvents)
    BY <1>1, <1>5, BreakRecorded
  <2>2. draft' \in Seq(DOMAIN heap')
    <3>1. DOMAIN heap \subseteq DOMAIN heap'
      BY <1>3, <1>5
    <3> QED BY <1>1, <1>5, <3>1
  <2>3. << >> \in Seq(Seq(Edits)) /\ Len(<< >>) = 0 /\ << >> \in Seq(BreakerDays)
    OBVIOUS
  <2>4. ckpts' \subseteq (0 .. Len(disk') - 1) \X Day /\ trips' \in 0 .. 2 /\ stage' \in Stages
    BY <1>1, <1>2, <1>3, <1>5 DEF Stages
  <2>5. /\ cfg \in Configs /\ idx \in 0 .. LastDay + 1 /\ pending \in Seq(Day)
        /\ scored \in Seq(Steps) /\ watermark \in 0 .. Len(scored) /\ reports \in Seq(Day)
        /\ frozen \in BOOLEAN /\ refines \in Seq(RefineEvents)
    BY DEF LInv, LoopTypeOK
  <2> QED BY <1>1, <1>3, <1>5, <2>1, <2>2, <2>3, <2>4, <2>5 DEF LoopTypeOK
<1>8. OneLine'
  BY <1>1, <1>2, <1>3 DEF LInv, OneLine
<1>9. CheckpointsAreAncestors'
  <2> SUFFICES ASSUME NEW c \in ckpts'
               PROVE  /\ IsPrefixOf(disk'[c[1] + 1].edits, heap'[live'].edits)
                      /\ IsPrefixOf(disk'[c[1] + 1].stats, heap'[live'].stats)
      BY DEF CheckpointsAreAncestors
  <2>1. c \in ckpts /\ c[1] <= t[1]
    BY <1>2, <1>6
  <2> QED BY <1>1, <1>3, <1>6, <2>1 DEF LInv, OneLine
<1>10. NothingOlderIsMissing'
  <2> SUFFICES ASSUME NEW c \in ckpts', NEW e \in EditsOf(disk[Target + 1]), e.day < c[2]
               PROVE  e \in EditsOf(disk[c[1] + 1])
      BY <1>3 DEF NothingOlderIsMissing, EditsOf
  <2>1. IsPrefixOf(disk[t[1] + 1].edits, heap[live].edits)
    BY <1>1 DEF LInv, CheckpointsAreAncestors
  <2>2. e \in EditsOf(heap[live])
    <3>1. disk[Target + 1] \in Harness /\ heap[live] \in Harness
      BY <1>5
    <3> QED BY <1>6, <2>1, <3>1, PrefixEdits
  <2> QED BY <1>1, <1>2, <2>2 DEF LInv, NothingOlderIsMissing
<1>11. BreakerIsFresh'
  <2>1. /\ Len(scored) \in Nat /\ cfg.horizon \in Nat /\ idx \in Nat
        /\ Len(draft) = idx + 1 /\ Len(scored) = Reached(idx + 1)
    <3>1. LoopTypeOK /\ Clock /\ Schedule
      BY DEF LInv
    <3>2. cfg.horizon \in Nat /\ idx \in Nat /\ Len(scored) \in Nat
      BY <1>1, <3>1, ConfigFacts, DayOfLoop, TypeFacts
    <3> QED BY <1>1, <3>1, <3>2 DEF Schedule, LivedThrough
  <2>2. Len(scored) + cfg.horizon >= Len(draft)
    BY <2>1 DEF Reached
  <2>3. Len(days') = 0 /\ trips' <= 1
    BY <1>1
  <2>4. \A j \in 1 .. Len(draft) : ~ (j > Len(scored) - 0 + cfg.horizon)
    BY <2>1, <2>2
  <2> QED BY <1>1, <2>1, <2>3, <2>4 DEF BreakerIsFresh
<1> QED BY <1>3, <1>4, <1>7, <1>8, <1>9, <1>10, <1>11 DEF LInv

LEMMA StepFreeze ==
    ASSUME LInv, Freeze
    PROVE  LInv'
<1>1. /\ stage = "breaker" /\ stage' = "refine" /\ ~ frozen /\ Armed /\ frozen' = TRUE
      /\ trips' = trips + 1
      /\ UNCHANGED <<cfg, idx, draft, pending, scored, watermark, reports, days, ckpts, refines>>
      /\ \/ Candidates = {} /\ UNCHANGED manager /\ BreakEvent(-1, "frozen")
         \/ Candidates # {} /\ RollBackTo(Target) /\ BreakEvent(Target, "frozen")
  BY DEF Freeze, Tripped
<1>2. Clock' /\ Schedule' /\ EvidenceIsAPartition'
  BY <1>1, BreakerKeeps
<1>3. /\ heap \in Seq(Harness) /\ disk \in Seq(Harness) /\ live \in 1 .. Len(heap)
      /\ draft \in Seq(DOMAIN heap) /\ ckpts \subseteq (0 .. Len(disk) - 1) \X Day
  BY SMTT(30) DEF LInv, LoopTypeOK
<1>4. /\ heap' \in Seq(Harness) /\ disk' = disk /\ DOMAIN heap \subseteq DOMAIN heap'
      /\ {live', agent', refiner'} \subseteq DOMAIN heap'
      /\ recent' \in Seq(Seq(Edits)) /\ Len(recent') <= 2
      /\ breaks' \in Seq(BreakEvents)
      /\ BoundToLive' /\ LogTellsTheHarness' /\ EditsAreOlder' /\ Counted' /\ CreditsInDayOrder'
  <2>1. CASE Candidates = {} /\ UNCHANGED manager /\ BreakEvent(-1, "frozen")
    <3>1. /\ heap' = heap /\ live' = live /\ agent' = agent /\ refiner' = refiner
          /\ recent' = recent /\ disk' = disk
      BY <2>1 DEF manager
    <3>2. breaks' \in Seq(BreakEvents)
      BY <1>1, <2>1, BreakRecorded
    <3>3. BoundToLive' /\ LogTellsTheHarness' /\ EditsAreOlder'
      BY <1>1, <3>1 DEF LInv, BoundToLive, LogTellsTheHarness, EditsAreOlder
    <3>4. Counted' /\ CreditsInDayOrder'
      BY <1>1, <3>1 DEF LInv, Counted, CreditsInDayOrder
    <3> QED BY <3>1, <3>2, <3>3, <3>4 DEF LInv, LoopTypeOK
  <2>2. CASE Candidates # {} /\ RollBackTo(Target) /\ BreakEvent(Target, "frozen")
    <3>1. /\ heap' \in Seq(Harness) /\ Len(heap') = Len(heap) + 1 /\ live' \in DOMAIN heap'
          /\ agent' = live' /\ refiner' = live' /\ recent' = << >> /\ disk' = disk
          /\ BoundToLive' /\ LogTellsTheHarness' /\ EditsAreOlder' /\ Counted'
          /\ CreditsInDayOrder'
      BY <1>1, <2>2, RolledBack
    <3>2. Target \in Nat
      BY <2>2, TargetIsACheckpoint DEF LInv
    <3>3. breaks' \in Seq(BreakEvents)
      BY <1>1, <2>2, <3>2, BreakRecorded
    <3>4. << >> \in Seq(Seq(Edits)) /\ Len(<< >>) = 0 /\ DOMAIN heap \subseteq DOMAIN heap'
      BY <1>3, <3>1
    <3> QED BY <3>1, <3>3, <3>4
  <2> QED BY <1>1, <2>1, <2>2
<1>5. LoopTypeOK'
  <2>1. trips' \in 0 .. 2
    <3>1. trips <= 1 /\ trips \in 0 .. 2
      BY <1>1 DEF LInv, BreakerIsFresh, LoopTypeOK
    <3> QED BY <1>1, <3>1
  <2>2. draft' \in Seq(DOMAIN heap')
    BY <1>1, <1>3, <1>4
  <2>3. /\ cfg \in Configs /\ idx \in 0 .. LastDay + 1 /\ pending \in Seq(Day)
        /\ scored \in Seq(Steps) /\ watermark \in 0 .. Len(scored) /\ reports \in Seq(Day)
        /\ days \in Seq(BreakerDays) /\ refines \in Seq(RefineEvents)
    BY DEF LInv, LoopTypeOK
  <2> QED BY <1>1, <1>3, <1>4, <2>1, <2>2, <2>3 DEF LoopTypeOK, Stages
<1>6. NothingOlderIsMissing' /\ OneLine' /\ CheckpointsAreAncestors' /\ BreakerIsFresh'
  BY <1>1 DEF NothingOlderIsMissing, OneLine, CheckpointsAreAncestors, BreakerIsFresh
<1> QED BY <1>2, <1>4, <1>5, <1>6 DEF LInv

------------------------------------------------------------------------------
(* Refining *)

\* What a refine does: a snapshot of the live harness, then edits of this day.
Refined(made) ==
    /\ made \in Seq(Edits) /\ \A i \in 1 .. Len(made) : made[i].day = idx
    /\ heap' = [heap EXCEPT ![live].edits = @ \o made, ![live].log = @ \o made]
    /\ \/ /\ recent' = LastTwo(Append(recent, made))
          /\ \E evidence \in Seq(Day), n \in 0 .. MaxEdits :
               /\ refines' = Append(refines, [day |-> idx, scored |-> Len(scored), edits |-> n,
                                              evidence |-> evidence])
               /\ DOMAIN evidence = 1 .. Len(scored) - watermark
               /\ \A i \in DOMAIN evidence : evidence[i] = watermark + i - 1
          /\ watermark' = Len(scored) /\ stage' = "step"
       \/ stage' = "raised" /\ UNCHANGED <<recent, refines, watermark>>

LEMMA RefineEffect ==
    ASSUME LInv, Refine
    PROVE  \E made \in Seq(Edits) : Refined(made)
<1>1. /\ idx \in Day /\ idx \in Nat /\ refiner = live /\ scored \in Seq(Steps)
      /\ Len(scored) \in Nat /\ watermark \in 0 .. Len(scored)
      /\ \A i \in 1 .. Len(scored) : scored[i].day = i - 1
  <2>1. LoopTypeOK /\ Clock /\ Schedule /\ BoundToLive /\ stage = "refine"
    BY DEF LInv, Refine
  <2> QED BY <2>1, DayOfLoop, TypeFacts DEF BoundToLive, Schedule
<1> DEFINE evidence == MapSeq(Fresh, LAMBDA s : s.day)
<1>2. PICK n \in 0 .. MaxEdits :
         LET made == [i \in 1 .. n |-> [day |-> idx, i |-> i]]
         IN  /\ heap' = [heap EXCEPT ![refiner].edits = @ \o made, ![refiner].log = @ \o made]
             /\ \/ /\ recent' = LastTwo(Append(recent, made))
                   /\ refines' = Append(refines, [day |-> idx, scored |-> Len(scored), edits |-> n,
                                                  evidence |-> evidence])
                   /\ watermark' = Len(scored)
                   /\ stage' = "step"
                \/ stage' = "raised" /\ UNCHANGED <<recent, refines, watermark>>
  BY DEF Refine
<1> DEFINE made == [i \in 1 .. n |-> [day |-> idx, i |-> i]]
<1>3. made \in Seq(Edits) /\ \A i \in 1 .. Len(made) : made[i].day = idx
  <2>1. n \in Nat /\ idx \in -1 .. LastDay
    BY <1>1, LoopBoundsAssumption DEF Day
  <2>2. \A i \in 1 .. n : [day |-> idx, i |-> i] \in Edits
    BY <2>1 DEF Edits
  <2> QED BY <2>1, <2>2
<1>4. /\ evidence \in Seq(Day) /\ DOMAIN evidence = 1 .. Len(scored) - watermark
      /\ \A i \in DOMAIN evidence : evidence[i] = watermark + i - 1
  <2>1. /\ Fresh \in Seq(Steps) /\ Len(Fresh) = Len(scored) - watermark
        /\ \A i \in 1 .. Len(Fresh) : Fresh[i] = scored[watermark + i] /\ Fresh[i] \in Steps
    BY <1>1 DEF Fresh
  <2>2. \A i \in 1 .. Len(Fresh) : Fresh[i].day = watermark + i - 1 /\ Fresh[i].day \in Day
    <3>1. \A i \in 1 .. Len(Fresh) : watermark + i \in 1 .. Len(scored)
      BY <1>1, <2>1
    <3> QED BY <1>1, <2>1, <3>1 DEF Steps
  <2>3. evidence = [i \in 1 .. Len(Fresh) |-> Fresh[i].day]
    BY <2>1 DEF MapSeq
  <2>4. Len(Fresh) \in Nat
    BY <2>1
  <2> HIDE DEF evidence
  <2>5. DOMAIN evidence = 1 .. Len(Fresh) /\ \A i \in 1 .. Len(Fresh) : evidence[i] = Fresh[i].day
    BY <2>3
  <2>6. evidence \in Seq(Day)
    BY <2>2, <2>3, <2>4
  <2> QED BY <2>1, <2>2, <2>5, <2>6
<1> HIDE DEF made, evidence
<1>5. Refined(made)
  BY <1>1, <1>2, <1>3, <1>4 DEF Refined, made
<1> QED BY <1>3, <1>5

LEMMA LastTwoTyped ==
    ASSUME NEW E, NEW s \in Seq(E)
    PROVE  LastTwo(s) \in Seq(E) /\ Len(LastTwo(s)) <= 2
BY DEF LastTwo

LEMMA StepRefine ==
    ASSUME LInv, Refine
    PROVE  LInv'
<1>1. LoopTypeOK /\ Clock /\ Schedule /\ stage = "refine" /\ ~ frozen /\ BoundToLive
  BY DEF LInv, Refine, WantsRefine
<1>2. PICK made \in Seq(Edits) : Refined(made)
  BY RefineEffect
<1>3. /\ disk' = Append(disk, heap[live]) /\ ckpts' = ckpts \cup {<<Len(disk), idx>>}
      /\ UNCHANGED <<cfg, idx, live, agent, refiner, draft, pending, scored, reports, days,
                     trips, frozen, breaks>>
  BY DEF Refine
<1>4. /\ heap \in Seq(Harness) /\ disk \in Seq(Harness) /\ live \in 1 .. Len(heap)
      /\ DOMAIN heap = 1 .. Len(heap) /\ DOMAIN disk = 1 .. Len(disk) /\ Len(disk) \in Nat
      /\ heap[live] \in Harness
      /\ ckpts \subseteq (0 .. Len(disk) - 1) \X Day
      /\ idx \in Day /\ idx \in Nat /\ Len(scored) \in Nat /\ watermark \in 0 .. Len(scored)
  BY <1>1, DayOfLoop, TypeFacts
<1>5. /\ heap' \in Seq(Harness) /\ Len(heap') = Len(heap) /\ heap'[live] \in Harness
      /\ DOMAIN heap' = 1 .. Len(heap)
      /\ \A o \in 1 .. Len(heap) : o # live => heap'[o] = heap[o]
      /\ heap'[live].edits = heap[live].edits \o made
      /\ heap'[live].log = heap[live].log \o made
      /\ heap'[live].stats = heap[live].stats
  <2>1. heap' = [heap EXCEPT ![live].edits = @ \o made, ![live].log = @ \o made]
    BY <1>2 DEF Refined
  <2>2. /\ heap' \in Seq(Harness) /\ Len(heap') = Len(heap) /\ heap'[live] \in Harness
        /\ \A o \in 1 .. Len(heap) : o # live => heap'[o] = heap[o]
        /\ heap'[live].edits = heap[live].edits \o made
        /\ heap'[live].log = heap[live].log \o made
        /\ heap'[live].stats = heap[live].stats
    BY <1>1, <2>1, EditEffect
  <2>3. DOMAIN heap' = 1 .. Len(heap')
    BY <2>2
  <2> QED BY <2>2, <2>3
<1>6. /\ disk' \in Seq(Harness) /\ Len(disk') = Len(disk) + 1 /\ DOMAIN disk' = 1 .. Len(disk) + 1
      /\ disk'[Len(disk) + 1] = heap[live]
      /\ \A v \in 1 .. Len(disk) : disk'[v] = disk[v]
  BY <1>3, <1>4
<1>7. \A c \in ckpts : c[1] + 1 \in 1 .. Len(disk) /\ c[1] \in Nat /\ c[2] \in Nat
                       /\ disk'[c[1] + 1] = disk[c[1] + 1]
  BY <1>4, <1>6, LoopBoundsAssumption, SMTT(30) DEF Day
<1>8. ASSUME NEW e \in EditsOf(heap'[live])
      PROVE  e.day \in Int /\ (e \in EditsOf(heap[live]) \/ e.day = idx)
  <2>1. heap[live].edits \in Seq(Edits) /\ made \in Seq(Edits)
    BY <1>4 DEF Harness
  <2>2. PICK i \in DOMAIN (heap[live].edits \o made) : e = (heap[live].edits \o made)[i]
    BY <1>5 DEF EditsOf
  <2>3. CASE i <= Len(heap[live].edits)
    <3>1. e = heap[live].edits[i] /\ i \in DOMAIN heap[live].edits
      BY <2>1, <2>2, <2>3
    <3>2. e \in EditsOf(heap[live])
      BY <3>1 DEF EditsOf
    <3> QED BY <1>4, <3>2, HarnessFields
  <2>4. CASE i > Len(heap[live].edits)
    <3>1. i - Len(heap[live].edits) \in 1 .. Len(made) /\ e = made[i - Len(heap[live].edits)]
      BY <2>1, <2>2, <2>4
    <3> QED BY <1>2, <1>4, <3>1, SMTT(30) DEF Refined
  <2>5. i \in Nat /\ Len(heap[live].edits) \in Nat
    BY <2>1, <2>2
  <2> QED BY <2>3, <2>4, <2>5
<1>9. stage' \in {"step", "raised"}
  BY <1>2 DEF Refined
<1>10. LoopTypeOK'
  <2>1. recent' \in Seq(Seq(Edits)) /\ Len(recent') <= 2
    <3>1. recent \in Seq(Seq(Edits)) /\ Len(recent) <= 2 /\ Append(recent, made) \in Seq(Seq(Edits))
      BY <1>1 DEF LoopTypeOK
    <3> QED BY <1>2, <3>1, LastTwoTyped DEF Refined
  <2>2. refines' \in Seq(RefineEvents) /\ watermark' \in 0 .. Len(scored)
    <3>1. refines \in Seq(RefineEvents)
      BY <1>1 DEF LoopTypeOK
    <3>2. ASSUME NEW evidence \in Seq(Day), NEW n \in 0 .. MaxEdits
          PROVE  [day |-> idx, scored |-> Len(scored), edits |-> n, evidence |-> evidence]
                   \in RefineEvents
      BY <1>4 DEF RefineEvents
    <3>3. CASE UNCHANGED <<recent, refines, watermark>>
      BY <1>4, <3>1, <3>3
    <3>4. ASSUME NEW evidence \in Seq(Day), NEW n \in 0 .. MaxEdits, watermark' = Len(scored),
                 refines' = Append(refines, [day |-> idx, scored |-> Len(scored), edits |-> n,
                                             evidence |-> evidence])
          PROVE  refines' \in Seq(RefineEvents) /\ watermark' \in 0 .. Len(scored)
      BY <1>4, <3>1, <3>2, <3>4
    <3> QED BY <1>2, <3>3, <3>4 DEF Refined
  <2>3. ckpts' \subseteq (0 .. Len(disk') - 1) \X Day
    BY <1>3, <1>4, <1>6
  <2>4. stage' \in Stages
    BY <1>9 DEF Stages
  <2>5. /\ cfg \in Configs /\ idx \in 0 .. LastDay + 1 /\ {live, agent, refiner} \subseteq DOMAIN heap
        /\ draft \in Seq(DOMAIN heap) /\ pending \in Seq(Day) /\ scored \in Seq(Steps)
        /\ reports \in Seq(Day) /\ days \in Seq(BreakerDays) /\ trips \in 0 .. 2
        /\ frozen \in BOOLEAN /\ breaks \in Seq(BreakEvents)
    BY <1>1 DEF LoopTypeOK
  <2>6. DOMAIN heap' = DOMAIN heap
    BY <1>4, <1>5
  <2> QED BY <1>3, <1>5, <1>6, <2>1, <2>2, <2>3, <2>4, <2>5, <2>6 DEF LoopTypeOK
<1>11. Clock' /\ Schedule'
  <2>1. Reached(idx + 1)' = Reached(idx + 1)
    BY <1>3 DEF Reached
  <2> QED BY <1>1, <1>3, <1>9, <2>1 DEF Clock, Schedule, LivedThrough
<1>12. BoundToLive'
  BY <1>1, <1>3 DEF BoundToLive
<1>13. LogTellsTheHarness'
  <2>1. \A o \in 1 .. Len(heap) : heap[o].log = heap[o].edits
    BY <1>4 DEF LInv, LogTellsTheHarness
  <2>2. \A o \in 1 .. Len(heap) : heap'[o].log = heap'[o].edits
    BY <1>4, <1>5, <2>1
  <2>3. \A v \in 1 .. Len(disk) + 1 : v \in 1 .. Len(disk) \/ v = Len(disk) + 1
    BY <1>4
  <2>4. \A v \in 1 .. Len(disk) : disk[v].log = disk[v].edits
    BY <1>4 DEF LInv, LogTellsTheHarness
  <2>5. \A v \in 1 .. Len(disk) : disk'[v].log = disk'[v].edits
    BY <1>6, <2>4
  <2>6. disk'[Len(disk) + 1].log = disk'[Len(disk) + 1].edits
    BY <1>4, <1>6, <2>1
  <2>7. \A v \in 1 .. Len(disk) + 1 : disk'[v].log = disk'[v].edits
    BY <2>3, <2>5, <2>6
  <2> QED BY <1>5, <1>6, <2>2, <2>7 DEF LogTellsTheHarness
<1>14. EditsAreOlder'
  <2>1. \A e \in EditsOf(heap[live]) : e.day < idx /\ e.day \in Int
    BY <1>1, <1>4, HarnessFields DEF LInv, EditsAreOlder
  <2>2. \A e \in EditsOf(heap'[live]) : e.day <= idx
    BY <1>4, <1>8, <2>1
  <2>3. ASSUME NEW c \in ckpts'
        PROVE  c[2] <= idx /\ \A e \in EditsOf(disk'[c[1] + 1]) : e.day < c[2]
    <3>1. CASE c \in ckpts
      BY <1>7, <3>1 DEF LInv, EditsAreOlder
    <3>2. CASE c = <<Len(disk), idx>>
      BY <1>4, <1>6, <2>1, <3>2
    <3> QED BY <1>3, <3>1, <3>2
  <2>4. \A v : EditsOf(disk[v])' = EditsOf(disk'[v]) /\ EditsOf(heap[live])' = EditsOf(heap'[live])
    BY <1>3 DEF EditsOf
  <2> QED BY <1>3, <1>9, <2>2, <2>3, <2>4 DEF EditsAreOlder
<1>15. NothingOlderIsMissing'
  <2>1. ASSUME NEW c \in ckpts', NEW e \in EditsOf(heap'[live]), e.day < c[2]
        PROVE  e \in EditsOf(disk'[c[1] + 1])
    <3>1. c[2] <= idx /\ c[2] \in Nat
      <4>1. CASE c \in ckpts
        BY <1>7, <4>1 DEF LInv, EditsAreOlder
      <4>2. CASE c = <<Len(disk), idx>>
        BY <1>4, <4>2
      <4> QED BY <1>3, <4>1, <4>2
    <3>2. e \in EditsOf(heap[live])
      BY <1>4, <1>8, <2>1, <3>1
    <3>3. CASE c \in ckpts
      BY <1>1, <1>7, <2>1, <3>2, <3>3 DEF LInv, NothingOlderIsMissing
    <3>4. CASE c = <<Len(disk), idx>>
      BY <1>6, <3>2, <3>4
    <3> QED BY <1>3, <3>3, <3>4
  <2>2. \A v : EditsOf(disk[v])' = EditsOf(disk'[v]) /\ EditsOf(heap[live])' = EditsOf(heap'[live])
    BY <1>3 DEF EditsOf
  <2> QED BY <1>3, <2>1, <2>2 DEF NothingOlderIsMissing
<1>16. ASSUME NEW c \in ckpts'
       PROVE  /\ IsPrefixOf(disk'[c[1] + 1].edits, heap[live].edits)
              /\ IsPrefixOf(disk'[c[1] + 1].stats, heap[live].stats)
              /\ disk'[c[1] + 1] \in Harness
  <2>1. CASE c \in ckpts
    BY <1>1, <1>4, <1>7, <2>1 DEF LInv, CheckpointsAreAncestors
  <2>2. CASE c = <<Len(disk), idx>>
    BY <1>4, <1>6, <2>2, PrefixSelf, HarnessFields
  <2> QED BY <1>3, <2>1, <2>2
<1>17. CheckpointsAreAncestors'
  <2>1. ASSUME NEW c \in ckpts'
        PROVE  /\ IsPrefixOf(disk'[c[1] + 1].edits, heap'[live].edits)
               /\ IsPrefixOf(disk'[c[1] + 1].stats, heap'[live].stats)
    <3>1. disk'[c[1] + 1].edits \in Seq(Edits) /\ heap[live].edits \in Seq(Edits)
      BY <1>4, <1>16 DEF Harness
    <3>2. IsPrefixOf(disk'[c[1] + 1].edits, heap[live].edits \o made)
      BY <1>2, <1>16, <3>1, PrefixAppended
    <3> QED BY <1>5, <1>16, <3>2
  <2> QED BY <1>3, <2>1 DEF CheckpointsAreAncestors
<1>18. OneLine'
  <2>1. ASSUME NEW c \in ckpts', NEW d \in ckpts', c[1] <= d[1]
        PROVE  /\ IsPrefixOf(disk'[c[1] + 1].edits, disk'[d[1] + 1].edits)
               /\ IsPrefixOf(disk'[c[1] + 1].stats, disk'[d[1] + 1].stats)
    <3>1. CASE d = <<Len(disk), idx>>
      BY <1>6, <1>16, <3>1
    <3>2. CASE d \in ckpts
      <4>1. c \in ckpts
        <5>1. c # <<Len(disk), idx>>
          BY <1>4, <1>7, <2>1, <3>2
        <5> QED BY <1>3, <5>1
      <4> QED BY <1>1, <1>7, <2>1, <3>2, <4>1 DEF LInv, OneLine
    <3> QED BY <1>3, <3>1, <3>2
  <2> QED BY <1>3, <2>1 DEF OneLine
<1>19. Counted' /\ CreditsInDayOrder'
  <2>1. \A o \in 1 .. Len(heap) : heap'[o].stats = heap[o].stats
    BY <1>4, <1>5
  <2>2. \A v \in 1 .. Len(disk) + 1 :
           (v \in 1 .. Len(disk) /\ disk'[v] = disk[v]) \/ disk'[v] = heap[live]
    BY <1>4, <1>6
  <2>3. Counted'
    <3>1. /\ \A o \in 1 .. Len(heap) : \A i \in 1 .. Len(heap[o].stats) :
                heap[o].stats[i] < Len(scored)
          /\ \A v \in 1 .. Len(disk) : \A i \in 1 .. Len(disk[v].stats) :
                disk[v].stats[i] < Len(scored)
      BY DEF LInv, Counted
    <3>2. \A o \in 1 .. Len(heap') : \A i \in 1 .. Len(heap'[o].stats) :
             heap'[o].stats[i] < Len(scored)
      BY <1>5, <2>1, <3>1
    <3>3. \A v \in 1 .. Len(disk') : \A i \in 1 .. Len(disk'[v].stats) :
             disk'[v].stats[i] < Len(scored)
      BY <1>4, <1>6, <2>2, <3>1
    <3> QED BY <1>3, <3>2, <3>3 DEF Counted
  <2> QED BY <1>4, <1>5, <1>6, <2>1, <2>2, <2>3 DEF LInv, CreditsInDayOrder
<1>20. EvidenceIsAPartition'
  <2>1. CASE UNCHANGED <<recent, refines, watermark>>
    BY <1>3, <2>1, WindowsKept DEF LInv
  <2>2. ASSUME NEW evidence \in Seq(Day), NEW n \in 0 .. MaxEdits,
               refines' = Append(refines, [day |-> idx, scored |-> Len(scored), edits |-> n,
                                           evidence |-> evidence]),
               DOMAIN evidence = 1 .. Len(scored) - watermark,
               \A i \in DOMAIN evidence : evidence[i] = watermark + i - 1,
               watermark' = Len(scored)
        PROVE  EvidenceIsAPartition'
    <3> DEFINE new == {evidence[i] : i \in DOMAIN evidence}
    <3>0. PICK k \in Nat : k = Len(refines)
      BY <1>1 DEF LoopTypeOK
    <3>1. /\ refines \in Seq(RefineEvents) /\ k \in Nat /\ DOMAIN refines = 1 .. k
          /\ DOMAIN refines' = 1 .. k + 1
          /\ \A r \in 1 .. k : refines'[r] = refines[r]
          /\ refines'[k + 1].evidence = evidence
      <4> DEFINE event == [day |-> idx, scored |-> Len(scored), edits |-> n,
                           evidence |-> evidence]
      <4>1. refines \in Seq(RefineEvents) /\ event.evidence = evidence
        BY <1>1 DEF LoopTypeOK
      <4>2. refines' = Append(refines, event)
        BY <2>2
      <4> HIDE DEF event
      <4> QED BY <3>0, <4>1, <4>2
    <3>2. ASSUME NEW r \in 1 .. k PROVE Used(r)' = Used(r)
      <4>1. refines'[r] = refines[r]
        BY <3>1
      <4> QED BY <4>1 DEF Used
    <3>3. Used(k + 1)' = new
      <4>1. Used(k + 1)' = {refines'[k + 1].evidence[i] : i \in DOMAIN refines'[k + 1].evidence}
        BY DEF Used
      <4> QED BY <3>1, <4>1
    <3>4. \A i \in 1 .. Len(scored) : scored[i].day = i - 1
      BY <1>1 DEF Schedule
    <3>5. new = {scored[i].day : i \in watermark + 1 .. Len(scored)}
      <4>1. ASSUME NEW i \in DOMAIN evidence
            PROVE  evidence[i] \in {scored[j].day : j \in watermark + 1 .. Len(scored)}
        <5>1. watermark + i \in watermark + 1 .. Len(scored) /\ watermark + i \in 1 .. Len(scored)
          BY <1>4, <2>2, SMTT(30)
        <5>2. evidence[i] = (watermark + i) - 1
          BY <1>4, <2>2
        <5>3. scored[watermark + i].day = (watermark + i) - 1
          BY <3>4, <5>1
        <5> QED BY <5>1, <5>2, <5>3
      <4>2. ASSUME NEW j \in watermark + 1 .. Len(scored)
            PROVE  scored[j].day \in new
        <5>1. j - watermark \in DOMAIN evidence /\ j \in 1 .. Len(scored)
          BY <1>4, <2>2
        <5>2. evidence[j - watermark] = j - 1 /\ scored[j].day = j - 1
          <6>1. evidence[j - watermark] = watermark + (j - watermark) - 1
            BY <2>2, <5>1
          <6>2. watermark + (j - watermark) - 1 = j - 1
            BY <1>4
          <6>3. scored[j].day = j - 1
            BY <3>4, <5>1
          <6> QED BY <6>1, <6>2, <6>3
        <5> QED BY <5>1, <5>2
      <4> QED BY <4>1, <4>2
    <3>6. UNION {Used(r) : r \in 1 .. k} = {scored[i].day : i \in 1 .. watermark}
          /\ \A r, q \in 1 .. k : r # q => Used(r) \cap Used(q) = {}
      BY <3>1 DEF LInv, EvidenceIsAPartition
    <3>7. \A r \in 1 .. k : Used(r) \cap new = {}
      <4> SUFFICES ASSUME NEW r \in 1 .. k, NEW x \in Used(r), x \in new PROVE FALSE
          OBVIOUS
      <4> HIDE DEF new
      <4>1. PICK i \in 1 .. watermark : x = scored[i].day
        BY <3>6
      <4>2. PICK j \in watermark + 1 .. Len(scored) : x = scored[j].day
        BY <3>5
      <4>3. /\ i \in 1 .. Len(scored) /\ j \in 1 .. Len(scored) /\ i < j
            /\ i \in Nat /\ j \in Nat
        BY <1>4
      <4>4. scored[i].day = i - 1 /\ scored[j].day = j - 1
        BY <3>4, <4>3
      <4>5. i - 1 = j - 1
        BY <4>1, <4>2, <4>4
      <4> QED BY <4>3, <4>5
    <3> HIDE DEF new
    <3>8. \A r, q \in 1 .. k + 1 : r # q => Used(r)' \cap Used(q)' = {}
      <4>1. \A r \in 1 .. k + 1 : r \in 1 .. k \/ r = k + 1
        BY <3>1
      <4> DEFINE now(r) == Used(r)'
                 old(r) == Used(r)
      <4>2. /\ \A r \in 1 .. k : now(r) = old(r)
            /\ now(k + 1) = new
            /\ \A r, q \in 1 .. k : r # q => old(r) \cap old(q) = {}
            /\ \A r \in 1 .. k : old(r) \cap new = {}
        BY <3>2, <3>3, <3>6, <3>7
      <4> HIDE DEF now, old
      <4>3. ASSUME NEW r \in 1 .. k + 1, NEW q \in 1 .. k + 1, r # q
            PROVE  now(r) \cap now(q) = {}
        <5>1. CASE r \in 1 .. k /\ q \in 1 .. k
          BY <4>2, <4>3, <5>1
        <5>2. CASE r \in 1 .. k /\ q = k + 1
          BY <4>2, <5>2
        <5>3. CASE r = k + 1 /\ q \in 1 .. k
          BY <4>2, <5>3
        <5> QED BY <4>1, <4>3, <5>1, <5>2, <5>3
      <4> QED BY <4>3 DEF now
    <3>9. UNION {Used(r)' : r \in 1 .. k + 1} = {scored[i].day : i \in 1 .. Len(scored)}
      <4>1. \A r \in 1 .. k + 1 : r \in 1 .. k \/ r = k + 1
        BY <3>1
      <4>2. \A r \in 1 .. k : r \in 1 .. k + 1
        BY <3>1
      <4>3. k + 1 \in 1 .. k + 1
        BY <3>1
      <4>4. UNION {Used(r)' : r \in 1 .. k + 1} = (UNION {Used(r) : r \in 1 .. k}) \cup new
        <5> DEFINE now(r) == Used(r)'
                   old(r) == Used(r)
        <5>1. (\A r \in 1 .. k : now(r) = old(r)) /\ now(k + 1) = new
          BY <3>2, <3>3
        <5> HIDE DEF now, old
        <5>2. UNION {now(r) : r \in 1 .. k + 1} = (UNION {old(r) : r \in 1 .. k}) \cup new
          BY <4>1, <4>2, <4>3, <5>1
        <5> QED BY <5>2 DEF now, old
      <4>5. 1 .. Len(scored) = (1 .. watermark) \cup (watermark + 1 .. Len(scored))
        BY <1>4
      <4>6. {scored[i].day : i \in 1 .. Len(scored)}
              = {scored[i].day : i \in 1 .. watermark}
                  \cup {scored[i].day : i \in watermark + 1 .. Len(scored)}
        BY <4>5
      <4> QED BY <3>5, <3>6, <4>4, <4>6
    <3> QED BY <1>3, <2>2, <3>1, <3>8, <3>9 DEF EvidenceIsAPartition
  <2> QED BY <1>2, <2>1, <2>2 DEF Refined
<1>21. BreakerIsFresh'
  BY <1>3 DEF LInv, BreakerIsFresh
<1> QED BY <1>10, <1>11, <1>12, <1>13, <1>14, <1>15, <1>17, <1>18, <1>19, <1>20, <1>21 DEF LInv

------------------------------------------------------------------------------
(* The invariant *)

LEMMA InitLInv == LoopInit => LInv
<1> SUFFICES ASSUME LoopInit PROVE LInv
    OBVIOUS
<1>1. /\ idx = 0 /\ stage = "decide" /\ heap = <<Seed>> /\ live = 1 /\ agent = 1 /\ refiner = 1
      /\ recent = << >> /\ draft = << >> /\ pending = << >> /\ scored = << >> /\ watermark = 0
      /\ reports = << >> /\ days = << >> /\ ckpts = {} /\ trips = 0 /\ frozen = FALSE
      /\ refines = << >> /\ breaks = << >> /\ cfg \in Configs
  BY DEF LoopInit
<1>2. \A S : << >> \in Seq(S) /\ Len(<< >>) = 0 /\ DOMAIN << >> = {}
  OBVIOUS
<1>3. Seed \in Harness /\ heap \in Seq(Harness) /\ DOMAIN heap = {1} /\ Len(heap) = 1
      /\ heap[1] = Seed /\ Seed.edits = << >> /\ Seed.log = << >> /\ Seed.stats = << >>
  <2>1. Seed \in Harness
    BY <1>2 DEF Seed, Harness
  <2>2. Seed.edits = << >> /\ Seed.log = << >> /\ Seed.stats = << >>
    BY DEF Seed
  <2> QED BY <1>1, <2>1, <2>2
<1>4. OtherSnapshot \in Harness /\ OtherSnapshot.log = OtherSnapshot.edits
      /\ OtherSnapshot.stats = << >>
  <2>1. [day |-> -1, i |-> 1] \in Edits
    BY LoopBoundsAssumption DEF Edits
  <2>2. <<[day |-> -1, i |-> 1]>> \in Seq(Edits)
    BY <2>1
  <2> QED BY <1>2, <2>2 DEF OtherSnapshot, Harness
<1>5. PICK n \in 0 .. OldVersions : disk = [v \in 1 .. n |-> OtherSnapshot]
  BY DEF LoopInit
<1>6. n \in Nat
  BY LoopBoundsAssumption
<1>7. disk \in Seq(Harness) /\ DOMAIN disk = 1 .. n /\ Len(disk) = n
      /\ \A v \in 1 .. n : disk[v] = OtherSnapshot
  BY <1>4, <1>5, <1>6
<1>8. LoopTypeOK
  <2>1. idx \in 0 .. LastDay + 1 /\ {live, agent, refiner} \subseteq DOMAIN heap
        /\ watermark \in 0 .. Len(scored) /\ trips \in 0 .. 2 /\ stage \in Stages
        /\ Len(recent) <= 2 /\ frozen \in BOOLEAN
    <3>1. LastDay \in Nat
      BY LoopBoundsAssumption
    <3>2. idx \in 0 .. LastDay + 1 /\ trips \in 0 .. 2
      <4>1. idx = 0 /\ trips = 0
        BY <1>1
      <4> QED BY <3>1, <4>1
    <3>7. frozen \in BOOLEAN
      <4>1. frozen = FALSE
        BY <1>1
      <4> QED BY <4>1, Zenon
    <3>3. stage \in Stages
      BY <1>1 DEF Stages
    <3>4. {live, agent, refiner} \subseteq DOMAIN heap
      BY <1>1, <1>3
    <3>5. Len(scored) = 0 /\ Len(recent) = 0
      BY <1>1, <1>2
    <3>6. watermark \in 0 .. Len(scored) /\ Len(recent) <= 2
      BY <1>1, <3>5
    <3> QED BY <3>2, <3>3, <3>4, <3>6, <3>7
  <2> QED BY <1>1, <1>2, <1>3, <1>7, <2>1 DEF LoopTypeOK
<1>9. cfg.horizon \in Nat \ {0} /\ cfg.lastDay \in Nat
  BY <1>8, ConfigFacts
<1>10. BoundToLive /\ LogTellsTheHarness
  BY <1>1, <1>3, <1>4, <1>7 DEF BoundToLive, LogTellsTheHarness
<1>11. Clock /\ Schedule
  <2>1. Clock
    BY <1>1, <1>9 DEF Clock
  <2>2. Reached(idx) = 0
    BY <1>1, <1>9 DEF Reached
  <2>3. Len(scored) = 0 /\ Len(pending) = 0 /\ Len(draft) = 0
    BY <1>1, <1>2
  <2> QED BY <1>1, <2>1, <2>2, <2>3 DEF Schedule, LivedThrough
<1>12. EditsOf(heap[live]) = {}
  BY <1>1, <1>2, <1>3 DEF EditsOf
<1>13. EditsAreOlder /\ NothingOlderIsMissing /\ OneLine /\ CheckpointsAreAncestors
  BY <1>1, <1>12 DEF EditsAreOlder, NothingOlderIsMissing, OneLine, CheckpointsAreAncestors
<1>14. Counted /\ CreditsInDayOrder
  <2>1. \A v \in 1 .. n : disk[v].stats = << >>
    BY <1>4, <1>7
  <2>2. heap[1].stats = << >>
    BY <1>3
  <2> QED BY <1>2, <1>3, <1>7, <2>1, <2>2 DEF Counted, CreditsInDayOrder, Increasing
<1>15. EvidenceIsAPartition
  BY <1>1, <1>2 DEF EvidenceIsAPartition
<1>16. BreakerIsFresh
  BY <1>1, <1>2 DEF BreakerIsFresh
<1> QED BY <1>8, <1>10, <1>11, <1>13, <1>14, <1>15, <1>16 DEF LInv

LEMMA NextLInv == LInv /\ [LoopNext]_vars => LInv'
<1> SUFFICES ASSUME LInv, [LoopNext]_vars PROVE LInv'
    OBVIOUS
<1>1. CASE UNCHANGED vars
  <2>1. UNCHANGED quiet /\ idx' = idx /\ stage' = stage /\ draft' = draft /\ pending' = pending
    BY <1>1 DEF vars, quiet, local, manager
  <2>2. LoopTypeOK'
    BY <2>1 DEF LInv, LoopTypeOK, quiet, manager
  <2>3. Clock' /\ Schedule'
    BY <2>1 DEF LInv, Clock, Schedule, quiet, Reached
  <2>4. EditsAreOlder' /\ BreakerIsFresh'
    BY <2>1 DEF LInv, EditsAreOlder, BreakerIsFresh, quiet, manager
  <2> QED BY <2>1, <2>2, <2>3, <2>4, QuietKeeps DEF LInv
<1> QED BY <1>1, StepDecide, StepScore, StepCalm, StepRearm, StepFreeze, StepRefine, StepStep
    DEF LoopNext

LEMMA AlwaysLInv == LoopSpec => []LInv
BY InitLInv, NextLInv, PTL DEF LoopSpec

------------------------------------------------------------------------------
(* The theorems *)

\* References name objects that exist, checkpoints versions that the store has, and
\* the refiner's memory is two reports, for every configuration of the loop.
THEOREM LoopTypeCorrect == LoopSpec => []LoopTypeOK
<1>1. LInv => LoopTypeOK
  BY DEF LInv
<1> QED BY <1>1, AlwaysLInv, PTL

\* Nobody works on a harness that a rollback threw away.
THEOREM AlwaysBoundToLive == LoopSpec => []BoundToLive
<1>1. LInv => BoundToLive
  BY DEF LInv
<1> QED BY <1>1, AlwaysLInv, PTL

\* Harness and log agree in every object and snapshot, also when a pass of the
\* refiner raises in the middle of a refine.
THEOREM LogAlwaysTells == LoopSpec => []LogTellsTheHarness
<1>1. LInv => LogTellsTheHarness
  BY DEF LInv
<1> QED BY <1>1, AlwaysLInv, PTL

\* A rollback can only go back along the line that ends in the live harness.
THEOREM TargetsAreAncestors == LoopSpec => []CheckpointsAreAncestors
<1>1. LInv => CheckpointsAreAncestors
  BY DEF LInv
<1> QED BY <1>1, AlwaysLInv, PTL

\* Evidence windows never overlap and never leave a step out.
THEOREM EvidencePartitioned == LoopSpec => []EvidenceIsAPartition
<1>1. LInv => EvidenceIsAPartition
  BY DEF LInv
<1> QED BY <1>1, AlwaysLInv, PTL

\* Statistics count each day once and in order.
THEOREM CreditsAlwaysInOrder == LoopSpec => []CreditsInDayOrder
<1>1. LInv => CreditsInDayOrder
  BY DEF LInv
<1> QED BY <1>1, AlwaysLInv, PTL

\* The breaker never judges the live harness by more than `horizon` days of a
\* discarded one.
THEOREM StaleEvidenceBounded == LoopSpec => []StaleEvidenceIsBounded
<1>1. LInv => StaleEvidenceIsBounded
  <2> SUFFICES ASSUME LInv, ~ frozen
               PROVE  Cardinality({i \in DOMAIN days : draft[days[i].day + 1] # live}) <= cfg.horizon
      BY DEF StaleEvidenceIsBounded
  <2> DEFINE stale == {i \in DOMAIN days : draft[days[i].day + 1] # live}
  <2>1. /\ LoopTypeOK /\ Schedule /\ BreakerIsFresh
    BY DEF LInv
  <2>2. /\ cfg.horizon \in Nat /\ Len(scored) \in Nat /\ days \in Seq(BreakerDays)
        /\ DOMAIN days = 1 .. Len(days) /\ Len(days) \in Nat /\ Len(pending) \in Nat
        /\ Len(draft) \in Nat
    <3>1. days \in Seq(BreakerDays) /\ pending \in Seq(Day) /\ draft \in Seq(DOMAIN heap)
      BY <2>1 DEF LoopTypeOK
    <3> QED BY <2>1, <3>1, ConfigFacts, TypeFacts
  <2>3. stale \subseteq 1 .. cfg.horizon
    <3> SUFFICES ASSUME NEW i \in 1 .. Len(days), draft[days[i].day + 1] # live
                 PROVE  i <= cfg.horizon
        BY <2>2
    <3>1. days[i].day + 1 = Len(scored) - Len(days) + i /\ Len(days) <= Len(scored)
      BY <2>1, <2>2 DEF BreakerIsFresh
    <3>2. Len(scored) - Len(days) + i \in 1 .. Len(draft)
      BY <2>1, <2>2, <3>1 DEF Schedule
    <3>3. ~ (Len(scored) - Len(days) + i > Len(scored) - Len(days) + cfg.horizon)
      BY <2>1, <3>1, <3>2 DEF BreakerIsFresh
    <3> QED BY <2>2, <3>3
  <2> HIDE DEF stale
  <2>4. IsFiniteSet(1 .. cfg.horizon) /\ Cardinality(1 .. cfg.horizon) = cfg.horizon
    <3>1. cfg.horizon \in Nat \ {0}
      BY <2>1, ConfigFacts DEF LoopTypeOK
    <3>2. 1 \in Int /\ cfg.horizon \in Int /\ ~ (1 > cfg.horizon)
          /\ cfg.horizon - 1 + 1 = cfg.horizon
      BY <3>1
    <3>3. IsFiniteSet(1 .. cfg.horizon)
          /\ Cardinality(1 .. cfg.horizon)
               = IF 1 > cfg.horizon THEN 0 ELSE cfg.horizon - 1 + 1
      BY <3>2, FS_Interval
    <3> QED BY <3>2, <3>3
  <2>5. Cardinality(stale) <= cfg.horizon
    BY <2>3, <2>4, FS_Subset
  <2> QED BY <2>5 DEF stale
<1> QED BY <1>1, AlwaysLInv, PTL

\* A replay that ends has scored every day whose horizon it reaches, once and in
\* order, whatever was rolled back.
THEOREM DueDaysAreScored == LoopSpec => []EveryDueDayIsScored
<1>1. LInv => EveryDueDayIsScored
  <2> SUFFICES ASSUME LInv, stage = "done" PROVE EveryDueDayIsScored
      BY DEF EveryDueDayIsScored
  <2> DEFINE at == MapSeq(scored, LAMBDA s : s.day)
  <2>1. LoopTypeOK /\ Clock /\ Schedule
    BY DEF LInv
  <2>2. /\ cfg.horizon \in Nat \ {0} /\ cfg.lastDay \in Nat /\ cfg.lastDay <= LastDay
        /\ LastDay \in Nat /\ scored \in Seq(Steps) /\ Len(scored) \in Nat
    BY <2>1, ConfigFacts, TypeFacts
  <2>3. Len(scored) = Reached(cfg.lastDay + 1)
    BY <2>1 DEF Clock, Schedule
  <2>4. at = [i \in 1 .. Len(scored) |-> scored[i].day]
    BY <2>2 DEF MapSeq
  <2>5. DOMAIN at = 1 .. Len(scored) /\ \A i \in 1 .. Len(scored) : at[i] = i - 1
    BY <2>1, <2>4 DEF Schedule
  <2> HIDE DEF at
  <2>6. Increasing(at)
    BY <2>2, <2>5 DEF Increasing
  <2>7. {at[i] : i \in DOMAIN at} = {j \in Day : j + cfg.horizon <= cfg.lastDay}
    <3>1. ASSUME NEW i \in DOMAIN at
          PROVE  at[i] \in {j \in Day : j + cfg.horizon <= cfg.lastDay}
      <4>1. i \in 1 .. Len(scored) /\ at[i] = i - 1
        BY <2>5
      <4> QED BY <2>2, <2>3, <4>1, SMTT(30) DEF Reached, Day
    <3>2. ASSUME NEW j \in Day, j + cfg.horizon <= cfg.lastDay
          PROVE  j \in {at[i] : i \in DOMAIN at}
      <4>1. j \in Nat /\ j + 1 \in 1 .. Len(scored)
        BY <2>2, <2>3, <3>2 DEF Reached, Day
      <4>2. j + 1 \in DOMAIN at /\ at[j + 1] = j
        BY <2>5, <4>1
      <4> QED BY <4>2
    <3> QED BY <3>1, <3>2
  <2> QED BY <2>6, <2>7 DEF EveryDueDayIsScored, at
<1> QED BY <1>1, AlwaysLInv, PTL

\* No rollback keeps an edit of the window it answers to, or undoes one that is
\* older than the last checkpoint before that window.
THEOREM RollbacksUndoTheWindow == LoopSpec => RollbackUndoesTheWindow
<1> DEFINE Undoes ==
      live' # live =>
         LET start == breaks'[Len(breaks')].start
             kept  == EditsOf(heap'[live'])
         IN  /\ \A e \in kept : e.day < start
             /\ \A e \in EditsOf(heap[live]), c \in ckpts :
                    e.day < c[2] /\ c[2] < start => e \in kept
<1>1. LInv /\ [LoopNext]_vars => [Undoes]_vars
  <2> SUFFICES ASSUME LInv, LoopNext, live' # live
               PROVE  LET start == breaks'[Len(breaks')].start
                          kept  == EditsOf(heap'[live'])
                      IN  /\ \A e \in kept : e.day < start
                          /\ \A e \in EditsOf(heap[live]), c \in ckpts :
                                 e.day < c[2] /\ c[2] < start => e \in kept
      BY DEF vars, manager
  <2>1. Rearm \/ Freeze
    BY DEF LoopNext, Decide, Score, Calm, SkipRefine, Refine, Step, manager
  <2>2. ~ frozen /\ Armed /\ Candidates # {} /\ RollBackTo(Target)
        /\ \E mode \in {"rollback", "frozen"} : BreakEvent(Target, mode)
    BY <2>1 DEF Rearm, Freeze, Tripped, MayRearm, manager
  <2>3. breaks'[Len(breaks')].start = WindowStart
    <3>1. breaks \in Seq(BreakEvents)
      BY DEF LInv, LoopTypeOK
    <3> QED BY <2>2, <3>1 DEF BreakEvent
  <2>4. heap'[live'] = disk[Target + 1]
    BY <2>2, RollBackEffect DEF LInv
  <2>5. PICK t \in Candidates : t[1] = Target
    BY <2>2, TargetIsACheckpoint DEF LInv
  <2>6. /\ t \in ckpts /\ t[2] \in Nat /\ t[2] < WindowStart /\ WindowStart \in Nat
        /\ Target + 1 \in 1 .. Len(disk) /\ disk \in Seq(Harness)
    <3>1. t \in ckpts /\ t[2] < WindowStart /\ WindowStart \in Day /\ LoopTypeOK
      BY <2>2, <2>5, WindowHasStart DEF Candidates, LInv
    <3>2. t[2] \in Day /\ Target + 1 \in 1 .. Len(disk) /\ disk \in Seq(Harness)
      BY <2>2, <3>1, TargetIsACheckpoint, TypeFacts
    <3> QED BY <3>1, <3>2, LoopBoundsAssumption DEF Day
  <2>7. ASSUME NEW e \in EditsOf(disk[Target + 1]) PROVE e.day < WindowStart
    <3>1. e.day < t[2]
      BY <2>5, <2>6, <2>7 DEF LInv, EditsAreOlder
    <3>2. e.day \in Int
      BY <2>6, <2>7, HarnessFields
    <3> QED BY <2>6, <3>1, <3>2
  <2>8. ASSUME NEW e \in EditsOf(heap[live]), NEW c \in ckpts, e.day < c[2], c[2] < WindowStart
        PROVE  e \in EditsOf(disk[Target + 1])
    <3>1. e \in EditsOf(disk[c[1] + 1])
      BY <2>2, <2>8 DEF LInv, NothingOlderIsMissing
    <3>2. c \in Candidates /\ c[1] <= t[1]
      BY <2>2, <2>5, <2>8, TargetIsACheckpoint DEF Candidates, LInv
    <3>3. IsPrefixOf(disk[c[1] + 1].edits, disk[Target + 1].edits)
      BY <2>2, <2>5, <2>6, <3>2 DEF LInv, OneLine
    <3>4. disk[c[1] + 1] \in Harness /\ disk[Target + 1] \in Harness
      <4>1. c[1] + 1 \in 1 .. Len(disk)
        BY TypeFacts DEF LInv
      <4> QED BY <2>6, <4>1
    <3> QED BY <3>1, <3>3, <3>4, PrefixEdits
  <2> QED BY <2>3, <2>4, <2>7, <2>8
<1> QED BY <1>1, InitLInv, NextLInv, AlwaysLInv, PTL DEF LoopSpec, RollbackUndoesTheWindow

\* A frozen loop goes on deciding and scoring, and nothing else.
THEOREM FrozenForGood == LoopSpec => FrozenStaysFrozen
<1>1. [LoopNext]_vars => [frozen => frozen' /\ UNCHANGED manager]_vars
  BY DEF LoopNext, Decide, Score, Calm, Rearm, Freeze, SkipRefine, Refine, Step, Tripped,
     WantsRefine, manager, local
<1> QED BY <1>1, PTL DEF LoopSpec, FrozenStaysFrozen
=============================================================================
