------------------------------- MODULE Refiner -------------------------------
(***************************************************************************)
(* The editable harness H = (p, K, M), its audit log, its snapshots and    *)
(* the refiner that edits it: youzi/harness (registry, memory_store,       *)
(* doctrine, metatools, edit_log, snapshot, manager) and youzi/refine      *)
(* (refiner, ops, credit).                                                 *)
(*                                                                         *)
(* The language model proposes any operation with any argument.  What is   *)
(* refused before anything was changed is not an action; a patch that is   *)
(* refused at one of its fields, after others were assigned, is.  A        *)
(* process may die in the middle of a checkpoint or of a refine: its       *)
(* harness and log are gone, and the next process starts from the seed     *)
(* with the same snapshots.  Fields are those a patch may change; what is  *)
(* derived from one is recomputed with it.  Statistics are the number of   *)
(* credited trades and the sum of their advantages, whose sign is the      *)
(* expectancy's.                                                           *)
(***************************************************************************)
EXTENDS Integers, Sequences, FiniteSetsExt

CONSTANTS
    SkillIds, SeedSkills,   \* skill ids, and those of the seed (active there)
    LessonIds, SeedLessons, \* lesson ids, and those of the seed
    Sections, RedLines,     \* doctrine sections, and the immutable ones
    NewTexts, SeedText,     \* what the model can write, and what the seed says
    Fields,                 \* the fields of a skill or lesson that a patch may change
    Writings, Patches,      \* the fields of a new skill or lesson, and of a patch
    MinRetire, MinPromote, MaxPerPass, MaxPerRefine,   \* RefinerConfig
    MaxTrades, MaxLog, MaxVersions   \* bounds: trades of a skill, log records, snapshots

Texts == NewTexts \cup {SeedText}

ASSUME RefinerAssumption ==
    /\ Writings \subseteq [Fields -> Texts]
    /\ \A patch \in Patches : DOMAIN patch \subseteq Fields /\ patch \in [DOMAIN patch -> Texts]
    /\ SeedSkills \subseteq SkillIds /\ SeedLessons \subseteq LessonIds
    /\ RedLines \subseteq Sections
    /\ MinRetire \in Nat \ {0} /\ MinPromote \in Nat \ {0}
    /\ MaxPerPass \in Nat /\ MaxPerRefine \in Nat

VARIABLES
    h, log,     \* manager.harness and manager.log
    disk,       \* the snapshot files: version -> what the file holds
    saving,     \* save(): the version whose temporary file is written
    stage,      \* the pass of the refiner, or what else the process does
    count,      \* pass_count
    applied     \* len(applied) of this refine

vars == <<h, log, disk, saving, stage, count, applied>>

Passes == {"p", "K", "M"}

Statuses == {"active", "incubating", "dormant", "retired"}

NoVersion == -1

NewSkill(status, fields) == [status |-> status, n |-> 0, sum |-> 0, fields |-> fields]

NewLesson(fields) == [fields |-> fields, demoted |-> 0]

SeedFields == [f \in Fields |-> SeedText]

SeedHarness ==
    [skill   |-> [s \in SeedSkills |-> NewSkill("active", SeedFields)],
     lesson  |-> [l \in SeedLessons |-> NewLesson(SeedFields)],
     section |-> [d \in Sections |-> SeedText]]

RefinerInit ==
    /\ h = SeedHarness /\ log = << >>
    /\ disk = << >> /\ saving = NoVersion
    /\ stage = "idle" /\ count = 0 /\ applied = 0

------------------------------------------------------------------------------
(* MetaTools: the edit first, then its record *)

Record(tool, id, before, after) == [tool |-> tool, id |-> id, before |-> before, after |-> after]

\* A slip: the edits of the earlier passes do not count.
MayApplyInPass(pass) == stage = pass /\ count < MaxPerPass /\ Len(log) < MaxLog

\* The two caps of Refiner.refine, and the whitelist of the pass.
MayApply(pass) ==
    /\ stage = pass
    /\ count < MaxPerPass /\ applied < MaxPerRefine
    /\ Len(log) < MaxLog

Applied(tool, id, before, after) ==
    /\ log' = Append(log, Record(tool, id, before, after))
    /\ count' = count + 1 /\ applied' = applied + 1
    /\ UNCHANGED <<disk, saving, stage>>

Skill(s) == h.skill[s]

\* d[k] = v on a dict.
Put(d, k, v) == [x \in DOMAIN d \cup {k} |-> IF x = k THEN v ELSE d[x]]

SetStatus(s, status) == h' = [h EXCEPT !.skill[s].status = status]

\* setattr, for some of the fields of a patch.
Assign(was, patch, fields) == [f \in Fields |-> IF f \in fields THEN patch[f] ELSE was[f]]

Part(fields, patch) == [f \in DOMAIN patch |-> fields[f]]

\* A slip: what was assigned before the refusal stays.
NotRestored(now, was, patch) == now

\* The except branch: what the patch names goes back to the values it had.
Restored(now, was, patch) == Assign(now, was, DOMAIN patch)

\* The model's fields, and the status that _dispatch forces; the record holds the
\* name only.
WriteSkill(s, fields) ==
    /\ MayApply("K") /\ s \notin DOMAIN h.skill
    /\ h' = [h EXCEPT !.skill = Put(@, s, NewSkill("incubating", fields))]
    /\ Applied("write_skill", s, "none", "incubating")

PatchSkill(s, patch) ==
    /\ MayApply("K") /\ s \in DOMAIN h.skill
    /\ h' = [h EXCEPT !.skill[s].fields = Assign(@, patch, DOMAIN patch)]
    /\ Applied("patch_skill", s, Part(Skill(s).fields, patch), patch)

\* A field is refused when those in done are assigned: they are set back, and the
\* refused operation neither counts nor is recorded.
RefusePatch(s, patch, done) ==
    /\ MayApply("K") /\ s \in DOMAIN h.skill /\ done # DOMAIN patch
    /\ LET was == Skill(s).fields
       IN  h' = [h EXCEPT !.skill[s].fields = Restored(Assign(was, patch, done), was, patch)]
    /\ UNCHANGED <<log, disk, saving, stage, count, applied>>

HasRetireEvidence(s) == Skill(s).n >= MinRetire

RetireSkill(s, permanent) ==
    /\ MayApply("K") /\ s \in DOMAIN h.skill /\ HasRetireEvidence(s)
    /\ Skill(s).status # "retired" \/ permanent
    /\ LET status == IF permanent THEN "retired" ELSE "dormant"
       IN  SetStatus(s, status) /\ Applied("retire_skill", s, Skill(s).status, status)

CanRevive(s) == Skill(s).status = "dormant"

ReviveSkill(s) ==
    /\ MayApply("K") /\ s \in DOMAIN h.skill /\ CanRevive(s)
    /\ SetStatus(s, "incubating")
    /\ Applied("revive_skill", s, "dormant", "incubating")

\* A slip: a positive expectancy is enough.
HasAdvantage(s) == Skill(s).sum > 0

HasPromoteEvidence(s) == Skill(s).n >= MinPromote /\ Skill(s).sum > 0

PromoteSkill(s) ==
    /\ MayApply("K") /\ s \in DOMAIN h.skill /\ HasPromoteEvidence(s)
    /\ Skill(s).status = "incubating"
    /\ SetStatus(s, "active")
    /\ Applied("promote_skill", s, "incubating", "active")

\* The record holds the beginning of one field only.
ProcessMemory(l, fields) ==
    /\ MayApply("M") /\ l \notin DOMAIN h.lesson
    /\ h' = [h EXCEPT !.lesson = Put(@, l, NewLesson(fields))]
    /\ Applied("process_memory", l, "none", "created")

UpdateMemory(l, patch) ==
    /\ MayApply("M") /\ l \in DOMAIN h.lesson
    /\ h' = [h EXCEPT !.lesson[l].fields = Assign(@, patch, DOMAIN patch)]
    /\ Applied("update_memory", l, Part(h.lesson[l].fields, patch), patch)

\* As RefusePatch.
RefuseUpdate(l, patch, done) ==
    /\ MayApply("M") /\ l \in DOMAIN h.lesson /\ done # DOMAIN patch
    /\ LET was == h.lesson[l].fields
       IN  h' = [h EXCEPT !.lesson[l].fields = Restored(Assign(was, patch, done), was, patch)]
    /\ UNCHANGED <<log, disk, saving, stage, count, applied>>

\* Each demotion multiplies time_decay by a factor in (0, 1]; only that it happened is kept.
DemoteMemory(l) ==
    /\ MayApply("M") /\ l \in DOMAIN h.lesson
    /\ h' = [h EXCEPT !.lesson[l].demoted = @ + 1]
    /\ Applied("demote_memory", l, h.lesson[l].demoted, h.lesson[l].demoted + 1)

CanRewrite(d) == d \notin RedLines

RewriteDoctrine(d, text) ==
    /\ MayApply("p") /\ CanRewrite(d)
    /\ h' = [h EXCEPT !.section[d] = text]
    /\ Applied("rewrite_doctrine", d, h.section[d], text)

------------------------------------------------------------------------------
(* Checkpoints, refines, credit and rollback *)

Versions == DOMAIN disk

Latest == IF Versions = {} THEN NoVersion ELSE Max(Versions)

\* A slip: the number of snapshots, plus one.
NextVersionFromOne == Cardinality(Versions) + 1

\* A slip: the latest version again.
NextVersionAgain == IF Versions = {} THEN 0 ELSE Latest

NextVersion == Latest + 1

Snapshot(v, whole) == Put(disk, v, [whole |-> whole, harness |-> h, log |-> log])

\* A slip: the file is written in place.
WriteInPlace ==
    /\ stage = "idle" /\ NextVersion < MaxVersions
    /\ disk' = Snapshot(NextVersion, FALSE)
    /\ saving' = NextVersion /\ stage' = "saving"
    /\ UNCHANGED <<h, log, count, applied>>

\* SnapshotStore.save writes a temporary file ...
WriteTmp ==
    /\ stage = "idle" /\ NextVersion < MaxVersions
    /\ saving' = NextVersion /\ stage' = "saving"
    /\ UNCHANGED <<h, log, disk, count, applied>>

\* ... and moves it in place in one step; then the refiner starts its first pass.
Replace ==
    /\ stage = "saving"
    /\ disk' = Snapshot(saving, TRUE)
    /\ saving' = NoVersion /\ stage' = "p" /\ count' = 0 /\ applied' = 0
    /\ UNCHANGED <<h, log>>

\* The passes run in the order p, G, K, M; the G pass is reserved and does nothing.
EndPass ==
    /\ stage \in Passes
    /\ stage' = CASE stage = "p" -> "K" [] stage = "K" -> "M" [] stage = "M" -> "idle"
    /\ count' = 0 /\ applied' = IF stage = "M" THEN 0 ELSE applied
    /\ UNCHANGED <<h, log, disk, saving>>

Traded(skill, advantage) == [skill EXCEPT !.n = @ + 1, !.sum = @ + advantage]

\* apply_credit: one filled trade of a skill, outside the log.
CreditSkill(s, advantage) ==
    /\ stage = "idle" /\ s \in DOMAIN h.skill /\ Skill(s).n < MaxTrades
    /\ h' = [h EXCEPT !.skill[s] = Traded(Skill(s), advantage)]
    /\ UNCHANGED <<log, disk, saving, stage, count, applied>>

\* A slip: the log goes on.
RollbackHarnessTo(v) ==
    /\ stage = "idle" /\ v \in Versions
    /\ h' = disk[v].harness
    /\ UNCHANGED <<log, disk, saving, stage, count, applied>>

\* manager.rollback_to: harness and log come back together.
RollbackTo(v) ==
    /\ stage = "idle" /\ v \in Versions /\ disk[v].whole
    /\ h' = disk[v].harness /\ log' = disk[v].log
    /\ UNCHANGED <<disk, saving, stage, count, applied>>

Die ==
    /\ h' = SeedHarness /\ log' = << >>
    /\ stage' = "idle" /\ saving' = NoVersion /\ count' = 0 /\ applied' = 0
    /\ UNCHANGED disk

RefinerNext ==
    \/ \E s \in SkillIds :
         \/ ReviveSkill(s) \/ PromoteSkill(s)
         \/ \E fields \in Writings : WriteSkill(s, fields)
         \/ \E patch \in Patches :
              PatchSkill(s, patch) \/ \E done \in SUBSET DOMAIN patch : RefusePatch(s, patch, done)
         \/ \E permanent \in BOOLEAN : RetireSkill(s, permanent)
         \/ \E advantage \in {-1, 1} : CreditSkill(s, advantage)
    \/ \E l \in LessonIds :
         \/ DemoteMemory(l)
         \/ \E fields \in Writings : ProcessMemory(l, fields)
         \/ \E patch \in Patches :
              UpdateMemory(l, patch) \/ \E done \in SUBSET DOMAIN patch : RefuseUpdate(l, patch, done)
    \/ \E d \in Sections, text \in NewTexts : RewriteDoctrine(d, text)
    \/ WriteTmp \/ Replace \/ EndPass \/ Die
    \/ \E v \in Versions : RollbackTo(v)

RefinerSpec == RefinerInit /\ [][RefinerNext]_vars

------------------------------------------------------------------------------
(* Properties *)

Skills == [status : Statuses, n : Nat, sum : Int, fields : [Fields -> Texts]]

Lessons == [fields : [Fields -> Texts], demoted : Nat]

HarnessOK(x) ==
    /\ DOMAIN x.skill \subseteq SkillIds /\ \A s \in DOMAIN x.skill : x.skill[s] \in Skills
    /\ DOMAIN x.lesson \subseteq LessonIds
    /\ \A l \in DOMAIN x.lesson : x.lesson[l] \in Lessons
    /\ x.section \in [Sections -> Texts]

\* Every variable holds a value of its kind; the versions on disk are 0, 1, 2, ...
\* without a gap (SnapshotStore.save).
RefinerTypeOK ==
    /\ HarnessOK(h) /\ Len(log) \in Nat
    /\ Versions = 0 .. Cardinality(Versions) - 1
    /\ \A v \in Versions : HarnessOK(disk[v].harness)
    /\ saving \in {NoVersion} \cup Nat /\ (stage = "saving" <=> saving # NoVersion)
    /\ stage \in Passes \cup {"idle", "saving"}
    /\ count \in 0 .. MaxPerPass /\ applied \in 0 .. MaxPerRefine

\* The live harness and every one a rollback can bring back, each with its log.
Kept == {[harness |-> h, log |-> log]}
          \cup {[harness |-> disk[v].harness, log |-> disk[v].log] : v \in Versions}

StatusTools == {"write_skill", "retire_skill", "revive_skill", "promote_skill"}

\* The records of some tools about one id.
About(lg, tools, id) == {i \in DOMAIN lg : lg[i].tool \in tools /\ lg[i].id = id}

\* What the last of those records says, or what the seed says if there is none.
Told(lg, tools, id, seed) ==
    LET R == About(lg, tools, id) IN IF R = {} THEN seed ELSE lg[Max(R)].after

StatusIn(x, s) == IF s \in DOMAIN x.skill THEN x.skill[s].status ELSE "none"

\* The records of a tool about one id that name one field.
Patched(lg, tool, id, f) == {i \in About(lg, {tool}, id) : f \in DOMAIN lg[i].after}

\* There is something to tell a field from: it was there, or a record names it.
IsTold(was, lg, tool, id, f) == id \in DOMAIN was \/ Patched(lg, tool, id, f) # {}

FieldTold(was, lg, tool, id, f) ==
    LET R == Patched(lg, tool, id, f) IN IF R = {} THEN was[id].fields[f] ELSE lg[Max(R)].after[f]

\* The records of a tool lead from the skills or lessons that were to those that
\* are, and each says what it found.
FieldsExplained(was, lg, now, tool) ==
    /\ \A id \in DOMAIN now, f \in Fields :
         IsTold(was, lg, tool, id, f) => now[id].fields[f] = FieldTold(was, lg, tool, id, f)
    /\ \A id \in DOMAIN now, f \in Fields : \A i \in Patched(lg, tool, id, f) :
         LET before == SubSeq(lg, 1, i - 1)
         IN  IsTold(was, before, tool, id, f) => lg[i].before[f] = FieldTold(was, before, tool, id, f)

StatusesExplained(was, lg, now) ==
    \A s \in SkillIds :
        /\ StatusIn(now, s) = Told(lg, StatusTools, s, StatusIn(was, s))
        /\ \A i \in About(lg, StatusTools, s) :
             lg[i].before = Told(SubSeq(lg, 1, i - 1), StatusTools, s, StatusIn(was, s))

\* The records lg lead from the harness that was to the one that is now.
Explains(was, lg, now) ==
    /\ StatusesExplained(was, lg, now)
    /\ FieldsExplained(was.skill, lg, now.skill, "patch_skill")
    /\ FieldsExplained(was.lesson, lg, now.lesson, "update_memory")
    /\ \A d \in Sections :
         now.section[d] = Told(lg, {"rewrite_doctrine"}, d, was.section[d])

SinceCheckpoint == SubSeq(log, Len(disk[Latest].log) + 1, Len(log))

\* The audit log explains the harness, in memory and in every snapshot, from the
\* seed: statuses, fields and sections are what the last record about them says,
\* and each record says what the one before it left.  A field of a written skill or
\* lesson is told only once a patch names it: of its first values the records keep
\* a name or a beginning (MetaTools.write_skill, process_memory).  During a refine
\* the records since its checkpoint also explain the fields the checkpoint has.
LogExplainsHarness ==
    /\ \A x \in Kept : Explains(SeedHarness, x.log, x.harness)
    /\ stage \in Passes => Explains(disk[Latest].harness, SinceCheckpoint, h)

\* A skill that the log says was promoted or retired has the trades the gates of
\* Refiner._apply_op ask for, in the live harness and in every snapshot: no order
\* of writes, revivals, rollbacks and crashes leaves an edit without its evidence.
EvidenceBehindTheLog ==
    \A x \in Kept : \A i \in DOMAIN x.log :
        /\ x.log[i].tool = "promote_skill" => x.harness.skill[x.log[i].id].n >= MinPromote
        /\ x.log[i].tool = "retire_skill"  => x.harness.skill[x.log[i].id].n >= MinRetire

\* While the refiner runs, the latest snapshot is the state it started from, and
\* it is within its caps of it: rolling back to its own checkpoint undoes it all.
RefineIsBounded ==
    stage \in Passes =>
        LET base == disk[Latest].log
        IN  /\ Len(base) <= Len(log) /\ base = SubSeq(log, 1, Len(base))
            /\ Len(log) - Len(base) <= MaxPerRefine

\* Wherever the process dies, a file that has a version's name is a whole snapshot.
SnapshotsAreWhole == \A v \in Versions : disk[v].whole

\* A version once saved is never written again, by this process or a later one.
VersionsAreFinal == [][\A v \in Versions : v \in Versions' /\ disk'[v] = disk[v]]_disk
=============================================================================
