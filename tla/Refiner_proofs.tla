--------------------------- MODULE Refiner_proofs ---------------------------
(***************************************************************************)
(* What holds of the refiner, its log and its snapshots for any number of  *)
(* skills, lessons, sections, edits and versions.                          *)
(*                                                                         *)
(* The harness and the log in memory, and those in each snapshot, are a    *)
(* good pair: the log is typed, its records are about skills that exist,   *)
(* it explains the harness and the harness holds the evidence it needs.    *)
(* An edit makes a good pair of a good pair, and a checkpoint, a rollback  *)
(* and the death of the process only move pairs.                           *)
(***************************************************************************)
EXTENDS Refiner, DataLemmas, FiniteSetTheorems

SkillTools == StatusTools \cup {"patch_skill"}

Tools == SkillTools \cup {"process_memory", "update_memory", "demote_memory", "rewrite_doctrine"}

\* Some fields, each with a text.
FieldTexts == UNION {[fields -> Texts] : fields \in SUBSET Fields}

Values == Texts \cup Statuses \cup {"none", "created"} \cup Nat \cup FieldTexts

\* EditRecord: what was edited, and what it was before and after.
Records == [tool : Tools, id : SkillIds \cup LessonIds \cup Sections,
            before : Values, after : Values]

WholeHarness(x) == x = [skill |-> x.skill, lesson |-> x.lesson, section |-> x.section] /\ HarnessOK(x)

\* A record about a skill is about one that exists, and so is an update of a lesson.
Known(x, lg) ==
    \A i \in 1 .. Len(lg) :
        /\ lg[i].tool \in SkillTools => lg[i].id \in DOMAIN x.skill
        /\ lg[i].tool = "update_memory" => lg[i].id \in DOMAIN x.lesson

\* No skill and no lesson was lost.
Grown(was, x) == DOMAIN was.skill \subseteq DOMAIN x.skill /\ DOMAIN was.lesson \subseteq DOMAIN x.lesson

\* The records lead from one harness to another, and know what they are about.
Leads(was, lg, x) == Grown(was, x) /\ Known(x, lg) /\ Explains(was, lg, x)

\* A promotion or retirement on record has the trades that its gate asks for.
Backed(x, lg) ==
    \A i \in 1 .. Len(lg) :
        /\ lg[i].tool = "promote_skill" => x.skill[lg[i].id].n >= MinPromote
        /\ lg[i].tool = "retire_skill"  => x.skill[lg[i].id].n >= MinRetire

Good(x, lg) ==
    WholeHarness(x) /\ lg \in Seq(Records) /\ Leads(SeedHarness, lg, x) /\ Backed(x, lg)

\* The versions are 0, 1, 2, ... without a gap.
Numbered == \E k \in Nat : Versions = 0 .. k - 1

GoodFiles == \A v \in Versions : disk[v].whole /\ Good(disk[v].harness, disk[v].log)

Counters ==
    /\ stage \in Passes \cup {"idle", "saving"}
    /\ count \in 0 .. MaxPerPass /\ applied \in 0 .. MaxPerRefine
    /\ IF stage = "saving" THEN saving = NextVersion ELSE saving = NoVersion

\* A refine works on top of the snapshot it began with, has counted its edits,
\* and the records since then lead from there to the harness.
OnCheckpoint ==
    stage \in Passes =>
        /\ Latest \in Versions
        /\ Len(log) = Len(disk[Latest].log) + applied
        /\ disk[Latest].log = SubSeq(log, 1, Len(disk[Latest].log))
        /\ Leads(disk[Latest].harness, SinceCheckpoint, h)

RInv == Good(h, log) /\ Numbered /\ GoodFiles /\ Counters /\ OnCheckpoint

------------------------------------------------------------------------------
(* What the log tells *)

\* The lists that appending one record makes.
LEMMA AppendFacts ==
    ASSUME NEW lg \in Seq(Records), NEW r \in Records
    PROVE  /\ Append(lg, r) \in Seq(Records) /\ Len(Append(lg, r)) = Len(lg) + 1
           /\ DOMAIN Append(lg, r) = 1 .. Len(lg) + 1 /\ DOMAIN lg = 1 .. Len(lg)
           /\ Len(lg) \in Nat
           /\ \A i \in 1 .. Len(lg) : Append(lg, r)[i] = lg[i]
           /\ Append(lg, r)[Len(lg) + 1] = r
OBVIOUS

\* What came before the i-th record does not change when one is appended.
LEMMA PrefixKept ==
    ASSUME NEW lg \in Seq(Records), NEW r \in Records, NEW i \in 1 .. Len(lg) + 1
    PROVE  SubSeq(Append(lg, r), 1, i - 1) = SubSeq(lg, 1, i - 1)
<1>1. Len(lg) \in Nat /\ i - 1 \in 0 .. Len(lg)
  OBVIOUS
<1> QED BY <1>1, AppendFacts

\* Two lists of records with the same elements.
LEMMA SeqEqual ==
    ASSUME NEW a \in Seq(Records), NEW b \in Seq(Records), Len(a) = Len(b),
           \A i \in 1 .. Len(a) : a[i] = b[i]
    PROVE  a = b
OBVIOUS

\* The records after the first k, after one more is appended.
LEMMA SuffixAppend ==
    ASSUME NEW lg \in Seq(Records), NEW r \in Records, NEW k \in Nat, k <= Len(lg)
    PROVE  /\ SubSeq(lg, k + 1, Len(lg)) \in Seq(Records)
           /\ SubSeq(Append(lg, r), k + 1, Len(Append(lg, r)))
                = Append(SubSeq(lg, k + 1, Len(lg)), r)
<1> DEFINE n == Len(lg)
           lg2 == Append(lg, r)
           old == SubSeq(lg, k + 1, n)
           new == SubSeq(lg2, k + 1, n + 1)
<1>1. /\ lg2 \in Seq(Records) /\ Len(lg2) = n + 1 /\ n \in Nat
      /\ \A i \in 1 .. n : lg2[i] = lg[i]
      /\ lg2[n + 1] = r
  BY AppendFacts
<1> HIDE DEF lg2
<1>2. /\ old \in Seq(Records) /\ Len(old) = n - k
      /\ \A i \in 1 .. n - k : old[i] = lg[k + i]
  <2>1. \A i \in k + 1 .. n : lg[i] \in Records
    BY <1>1
  <2> QED BY <1>1, <2>1
<1>3. /\ new \in Seq(Records) /\ Len(new) = n - k + 1
      /\ \A i \in 1 .. n - k + 1 : new[i] = lg2[k + i]
  <2>1. \A i \in k + 1 .. n + 1 : lg2[i] \in Records
    BY <1>1
  <2> QED BY <1>1, <2>1
<1> HIDE DEF old, new
<1>4. /\ Append(old, r) \in Seq(Records) /\ Len(Append(old, r)) = n - k + 1
      /\ \A i \in 1 .. n - k : Append(old, r)[i] = old[i]
      /\ Append(old, r)[n - k + 1] = r
  BY <1>2, AppendFacts
<1>5. ASSUME NEW i \in 1 .. n - k + 1 PROVE new[i] = Append(old, r)[i]
  <2>1. CASE i \in 1 .. n - k
    <3>1. k + i \in 1 .. n
      BY <1>1, <2>1
    <3> QED BY <1>1, <1>2, <1>3, <1>4, <2>1, <3>1
  <2>2. CASE i = n - k + 1
    <3>1. k + i = n + 1
      BY <1>1, <2>2
    <3> QED BY <1>1, <1>3, <1>4, <2>2, <3>1
  <2>3. i \in 1 .. n - k \/ i = n - k + 1
    BY <1>1
  <2> QED BY <2>1, <2>2, <2>3
<1>6. new = Append(old, r)
  BY <1>3, <1>4, <1>5, SeqEqual
<1> QED BY <1>1, <1>2, <1>6 DEF old, new, lg2

LEMMA PrefixWhole ==
    ASSUME NEW lg \in Seq(Records)
    PROVE  SubSeq(lg, 1, Len(lg)) = lg
OBVIOUS

\* The records of the tools about the id, after one more is appended.
LEMMA AboutAppend ==
    ASSUME NEW lg \in Seq(Records), NEW r \in Records, NEW tools, NEW id
    PROVE  /\ About(lg, tools, id) \subseteq 1 .. Len(lg)
           /\ About(Append(lg, r), tools, id)
                = IF r.tool \in tools /\ r.id = id
                  THEN About(lg, tools, id) \cup {Len(lg) + 1} ELSE About(lg, tools, id)
<1>1. About(lg, tools, id) \subseteq 1 .. Len(lg)
  BY AppendFacts DEF About
<1>2. \A i \in 1 .. Len(lg) + 1 : i \in 1 .. Len(lg) \/ i = Len(lg) + 1
  BY AppendFacts
<1>3. ~ (Len(lg) + 1 \in 1 .. Len(lg))
  BY AppendFacts
<1>4. \A i : i \in About(Append(lg, r), tools, id)
             <=> \/ i \in About(lg, tools, id)
                 \/ i = Len(lg) + 1 /\ r.tool \in tools /\ r.id = id
  BY <1>2, <1>3, AppendFacts DEF About
<1> QED BY <1>1, <1>4

\* The last of some records, after one more.
LEMMA LastOf ==
    ASSUME NEW n \in Nat, NEW R, R \subseteq 1 .. n
    PROVE  /\ R # {} => Max(R) \in R
           /\ Max(R \cup {n + 1}) = n + 1
<1> DEFINE Q == R \cup {n + 1}
<1>1. R \subseteq 0 .. n + 1 /\ Q \subseteq 0 .. n + 1 /\ n + 1 \in Q /\ n + 1 \in Nat
  OBVIOUS
<1>2. R # {} => Max(R) \in R
  BY <1>1, GreatestElement
<1> HIDE DEF Q
<1>3. Max(Q) \in Q /\ \A y \in Q : y <= Max(Q)
  BY <1>1, GreatestElement
<1>4. Max(Q) \in 0 .. n + 1 /\ n + 1 <= Max(Q)
  BY <1>1, <1>3
<1>5. Max(Q) = n + 1
  BY <1>4
<1> QED BY <1>2, <1>5 DEF Q

\* A new record about the id has the last word; any other changes nothing.
LEMMA ToldAppend ==
    ASSUME NEW lg \in Seq(Records), NEW r \in Records, NEW tools, NEW id, NEW seed
    PROVE  Told(Append(lg, r), tools, id, seed)
             = IF r.tool \in tools /\ r.id = id THEN r.after ELSE Told(lg, tools, id, seed)
<1> DEFINE R == About(lg, tools, id)
           Q == About(Append(lg, r), tools, id)
<1>1. Len(lg) \in Nat /\ R \subseteq 1 .. Len(lg)
  BY AboutAppend, AppendFacts
<1>2. (R # {} => Max(R) \in R) /\ Max(R \cup {Len(lg) + 1}) = Len(lg) + 1
  <2> HIDE DEF R
  <2> QED BY <1>1, LastOf
<1>3. CASE r.tool \in tools /\ r.id = id
  <2>1. Q = R \cup {Len(lg) + 1}
    BY <1>3, AboutAppend
  <2>2. Told(Append(lg, r), tools, id, seed) = Append(lg, r)[Max(Q)].after
    BY <2>1 DEF Told
  <2> QED BY <1>2, <1>3, <2>1, <2>2, AppendFacts
<1>4. CASE ~ (r.tool \in tools /\ r.id = id)
  <2>1. Q = R
    BY <1>4, AboutAppend
  <2>2. CASE R = {}
    BY <1>4, <2>1, <2>2 DEF Told
  <2>3. CASE R # {}
    <3>1. Append(lg, r)[Max(R)] = lg[Max(R)]
      BY <1>1, <1>2, <2>3, AppendFacts
    <3> QED BY <1>4, <2>1, <2>3, <3>1 DEF Told
  <2> QED BY <2>2, <2>3
<1> QED BY <1>3, <1>4

\* The record names the field of the id.
Names(r, tool, id, f) == r.tool = tool /\ r.id = id /\ f \in DOMAIN r.after

\* The records that name the field, after one more is appended.
LEMMA PatchedAppend ==
    ASSUME NEW lg \in Seq(Records), NEW r \in Records, NEW tool, NEW id, NEW f
    PROVE  /\ Patched(lg, tool, id, f) \subseteq 1 .. Len(lg)
           /\ Patched(Append(lg, r), tool, id, f)
                = IF Names(r, tool, id, f)
                  THEN Patched(lg, tool, id, f) \cup {Len(lg) + 1} ELSE Patched(lg, tool, id, f)
<1> DEFINE A == About(lg, {tool}, id)
           B == About(Append(lg, r), {tool}, id)
<1>1. /\ A \subseteq 1 .. Len(lg)
      /\ B = IF r.tool = tool /\ r.id = id THEN A \cup {Len(lg) + 1} ELSE A
  <2>1. PICK tools : tools = {tool}
    OBVIOUS
  <2>2. /\ About(lg, tools, id) \subseteq 1 .. Len(lg)
        /\ About(Append(lg, r), tools, id)
             = IF r.tool \in tools /\ r.id = id
               THEN About(lg, tools, id) \cup {Len(lg) + 1} ELSE About(lg, tools, id)
    BY AboutAppend
  <2>3. A = About(lg, tools, id) /\ B = About(Append(lg, r), tools, id)
    BY <2>1
  <2>4. r.tool \in tools <=> r.tool = tool
    BY <2>1
  <2> HIDE DEF A, B
  <2> QED BY <2>2, <2>3, <2>4
<1>2. /\ \A i \in 1 .. Len(lg) : Append(lg, r)[i] = lg[i]
      /\ Append(lg, r)[Len(lg) + 1] = r /\ Len(lg) + 1 \notin 1 .. Len(lg)
  BY AppendFacts
<1>3. Patched(lg, tool, id, f) = {i \in A : f \in DOMAIN lg[i].after}
      /\ Patched(Append(lg, r), tool, id, f) = {i \in B : f \in DOMAIN Append(lg, r)[i].after}
  BY DEF Patched
<1> HIDE DEF A, B
<1>4. \A i : i \in Patched(Append(lg, r), tool, id, f)
             <=> \/ i \in Patched(lg, tool, id, f)
                 \/ i = Len(lg) + 1 /\ Names(r, tool, id, f)
  BY <1>1, <1>2, <1>3 DEF Names
<1> QED BY <1>1, <1>3, <1>4

\* A new record that names the field has the last word; any other changes nothing.
LEMMA FieldToldAppend ==
    ASSUME NEW lg \in Seq(Records), NEW r \in Records, NEW was, NEW tool, NEW id, NEW f
    PROVE  /\ FieldTold(was, Append(lg, r), tool, id, f)
                = IF Names(r, tool, id, f) THEN r.after[f] ELSE FieldTold(was, lg, tool, id, f)
           /\ IsTold(was, Append(lg, r), tool, id, f)
                <=> IsTold(was, lg, tool, id, f) \/ Names(r, tool, id, f)
<1> DEFINE R == Patched(lg, tool, id, f)
           Q == Patched(Append(lg, r), tool, id, f)
<1>1. /\ Len(lg) \in Nat /\ R \subseteq 1 .. Len(lg)
      /\ Q = IF Names(r, tool, id, f) THEN R \cup {Len(lg) + 1} ELSE R
  BY PatchedAppend, AppendFacts
<1>2. /\ FieldTold(was, lg, tool, id, f) = IF R = {} THEN was[id].fields[f] ELSE lg[Max(R)].after[f]
      /\ FieldTold(was, Append(lg, r), tool, id, f)
           = IF Q = {} THEN was[id].fields[f] ELSE Append(lg, r)[Max(Q)].after[f]
      /\ IsTold(was, lg, tool, id, f) <=> id \in DOMAIN was \/ R # {}
      /\ IsTold(was, Append(lg, r), tool, id, f) <=> id \in DOMAIN was \/ Q # {}
  BY DEF FieldTold, IsTold
<1> HIDE DEF R, Q
<1>3. (R # {} => Max(R) \in R) /\ Max(R \cup {Len(lg) + 1}) = Len(lg) + 1
  BY <1>1, LastOf
<1>4. CASE Names(r, tool, id, f)
  BY <1>1, <1>2, <1>3, <1>4, AppendFacts
<1>5. CASE ~ Names(r, tool, id, f)
  <2>1. Q = R
    BY <1>1, <1>5
  <2>2. ASSUME R # {} PROVE Append(lg, r)[Max(R)] = lg[Max(R)]
    BY <1>1, <1>3, <2>2, AppendFacts
  <2> QED BY <1>2, <1>5, <2>1, <2>2
<1> QED BY <1>4, <1>5

------------------------------------------------------------------------------
(* Edits and their records *)

\* The skills or lessons y are x after a record of the tool, as to their fields.
FieldsFit(x, y, tool, r) ==
    /\ DOMAIN x \subseteq DOMAIN y
    /\ r.tool = tool => r.id \in DOMAIN x
    /\ \A id \in DOMAIN x, f \in Fields :
         IF Names(r, tool, id, f)
         THEN y[id].fields[f] = r.after[f] /\ r.before[f] = x[id].fields[f]
         ELSE y[id].fields[f] = x[id].fields[f]

\* The harness y is x after the edit that r records.
Fits(x, y, r) ==
    /\ r.tool \in SkillTools => r.id \in DOMAIN y.skill
    /\ \A s \in SkillIds :
         IF r.tool \in StatusTools /\ r.id = s
         THEN StatusIn(y, s) = r.after /\ r.before = StatusIn(x, s)
         ELSE StatusIn(y, s) = StatusIn(x, s)
    /\ FieldsFit(x.skill, y.skill, "patch_skill", r)
    /\ FieldsFit(x.lesson, y.lesson, "update_memory", r)
    /\ \A d \in Sections :
         y.section[d] = IF r.tool = "rewrite_doctrine" /\ r.id = d THEN r.after ELSE x.section[d]
    /\ \A s \in DOMAIN x.skill : y.skill[s].n >= x.skill[s].n
    /\ r.tool = "promote_skill" => y.skill[r.id].n >= MinPromote
    /\ r.tool = "retire_skill"  => y.skill[r.id].n >= MinRetire

LEMMA SkillTypes ==
    ASSUME NEW x, HarnessOK(x)
    PROVE  /\ DOMAIN x.skill \subseteq SkillIds
           /\ \A s \in DOMAIN x.skill :
                /\ x.skill[s] \in Skills /\ x.skill[s].status \in Statuses
                /\ x.skill[s].n \in Nat /\ x.skill[s].sum \in Int
                /\ x.skill[s].fields \in [Fields -> Texts]
BY DEF HarnessOK, Skills

\* The evidence of the log is still there in a harness that has more of it.
LEMMA BackedBy ==
    ASSUME NEW x, NEW y, HarnessOK(x), HarnessOK(y), NEW lg \in Seq(Records), Known(x, lg),
           Backed(x, lg), DOMAIN x.skill \subseteq DOMAIN y.skill,
           \A s \in DOMAIN x.skill : y.skill[s].n >= x.skill[s].n
    PROVE  Backed(y, lg)
<1> SUFFICES ASSUME NEW i \in 1 .. Len(lg)
             PROVE  /\ lg[i].tool = "promote_skill" => y.skill[lg[i].id].n >= MinPromote
                    /\ lg[i].tool = "retire_skill"  => y.skill[lg[i].id].n >= MinRetire
    BY DEF Backed
<1>1. ASSUME NEW m \in Nat, lg[i].id \in DOMAIN x.skill, x.skill[lg[i].id].n >= m
      PROVE  y.skill[lg[i].id].n >= m
  <2>1. x.skill[lg[i].id].n \in Nat /\ y.skill[lg[i].id].n \in Nat
    BY <1>1, SkillTypes
  <2>2. y.skill[lg[i].id].n >= x.skill[lg[i].id].n
    BY <1>1
  <2> QED BY <1>1, <2>1, <2>2
<1>2. lg[i].tool \in {"promote_skill", "retire_skill"} => lg[i].id \in DOMAIN x.skill
  BY DEF Known, SkillTools, StatusTools
<1>3. MinPromote \in Nat /\ MinRetire \in Nat
  BY RefinerAssumption
<1>4. lg[i].tool = "promote_skill" => x.skill[lg[i].id].n >= MinPromote
  BY DEF Backed
<1>5. lg[i].tool = "retire_skill" => x.skill[lg[i].id].n >= MinRetire
  BY DEF Backed
<1> QED BY <1>1, <1>2, <1>3, <1>4, <1>5

\* The fields stay explained when an edit and its record are added.
LEMMA FieldsAppend ==
    ASSUME NEW lg \in Seq(Records), NEW r \in Records, NEW was, NEW x, NEW y, NEW tool,
           DOMAIN was \subseteq DOMAIN x, FieldsExplained(was, lg, x, tool),
           \A i \in 1 .. Len(lg) : lg[i].tool = tool => lg[i].id \in DOMAIN x,
           FieldsFit(x, y, tool, r)
    PROVE  FieldsExplained(was, Append(lg, r), y, tool)
<1> DEFINE lg2 == Append(lg, r)
<1>1. ASSUME NEW id, NEW f, IsTold(was, lg, tool, id, f)
      PROVE  id \in DOMAIN x
  <2>1. ASSUME NEW i \in Patched(lg, tool, id, f) PROVE id \in DOMAIN x
    <3>1. i \in About(lg, {tool}, id)
      BY <2>1 DEF Patched
    <3>2. i \in 1 .. Len(lg) /\ lg[i].tool = tool /\ lg[i].id = id
      BY <3>1, AboutAppend DEF About
    <3> QED BY <3>2
  <2> QED BY <1>1, <2>1 DEF IsTold
<1>2. ASSUME NEW id, NEW f \in Fields, IsTold(was, lg, tool, id, f)
      PROVE  x[id].fields[f] = FieldTold(was, lg, tool, id, f)
  BY <1>1, <1>2 DEF FieldsExplained
<1>3. ASSUME NEW id \in DOMAIN y, NEW f \in Fields, IsTold(was, lg2, tool, id, f)
      PROVE  y[id].fields[f] = FieldTold(was, lg2, tool, id, f)
  <2>1. CASE Names(r, tool, id, f)
    <3>1. id \in DOMAIN x
      BY <2>1 DEF FieldsFit, Names
    <3>2. y[id].fields[f] = r.after[f]
      BY <2>1, <3>1 DEF FieldsFit
    <3> QED BY <2>1, <3>2, FieldToldAppend
  <2>2. CASE ~ Names(r, tool, id, f)
    <3>1. IsTold(was, lg, tool, id, f)
          /\ FieldTold(was, lg2, tool, id, f) = FieldTold(was, lg, tool, id, f)
      BY <1>3, <2>2, FieldToldAppend
    <3>2. y[id].fields[f] = x[id].fields[f]
      BY <1>1, <2>2, <3>1 DEF FieldsFit
    <3> QED BY <1>2, <3>1, <3>2
  <2> QED BY <2>1, <2>2
<1>4. ASSUME NEW id \in DOMAIN y, NEW f \in Fields, NEW i \in Patched(lg2, tool, id, f),
             IsTold(was, SubSeq(lg2, 1, i - 1), tool, id, f)
      PROVE  lg2[i].before[f] = FieldTold(was, SubSeq(lg2, 1, i - 1), tool, id, f)
  <2>1. i \in Patched(lg, tool, id, f) \/ (i = Len(lg) + 1 /\ Names(r, tool, id, f))
    BY PatchedAppend
  <2>2. i \in 1 .. Len(lg) + 1
    BY <2>1, PatchedAppend, AppendFacts
  <2>3. SubSeq(lg2, 1, i - 1) = SubSeq(lg, 1, i - 1)
    BY <2>2, PrefixKept
  <2>4. CASE i \in Patched(lg, tool, id, f)
    <3>1. i \in 1 .. Len(lg) /\ lg2[i] = lg[i]
      BY <2>4, PatchedAppend, AppendFacts
    <3>2. id \in DOMAIN x
      BY <1>1, <2>4 DEF IsTold
    <3>3. IsTold(was, SubSeq(lg, 1, i - 1), tool, id, f)
      BY <1>4, <2>3
    <3>4. lg[i].before[f] = FieldTold(was, SubSeq(lg, 1, i - 1), tool, id, f)
      BY <2>4, <3>2, <3>3 DEF FieldsExplained
    <3> QED BY <2>3, <3>1, <3>4
  <2>5. CASE i = Len(lg) + 1 /\ Names(r, tool, id, f)
    <3>1. i - 1 = Len(lg)
      BY <2>5, AppendFacts
    <3>2. SubSeq(lg2, 1, i - 1) = lg /\ lg2[i] = r
      BY <2>3, <2>5, <3>1, PrefixWhole, AppendFacts
    <3>3. IsTold(was, lg, tool, id, f)
      BY <1>4, <3>2
    <3>4. r.before[f] = x[id].fields[f]
      BY <1>1, <2>5, <3>3 DEF FieldsFit
    <3> QED BY <1>2, <3>2, <3>3, <3>4
  <2> QED BY <2>1, <2>4, <2>5
<1> HIDE DEF lg2
<1> QED
  <2>1. FieldsExplained(was, lg2, y, tool)
    BY <1>3, <1>4 DEF FieldsExplained
  <2> QED BY <2>1 DEF lg2

\* The statuses stay explained.
LEMMA StatusesAppend ==
    ASSUME NEW lg \in Seq(Records), NEW r \in Records, NEW was, NEW x, NEW y,
           StatusesExplained(was, lg, x), Fits(x, y, r)
    PROVE  StatusesExplained(was, Append(lg, r), y)
<1> DEFINE lg2 == Append(lg, r)
<1> SUFFICES ASSUME NEW s \in SkillIds
             PROVE  /\ StatusIn(y, s) = Told(lg2, StatusTools, s, StatusIn(was, s))
                    /\ \A i \in About(lg2, StatusTools, s) :
                         lg2[i].before
                           = Told(SubSeq(lg2, 1, i - 1), StatusTools, s, StatusIn(was, s))
    BY DEF StatusesExplained
<1>1. StatusIn(x, s) = Told(lg, StatusTools, s, StatusIn(was, s))
  BY DEF StatusesExplained
<1>2. StatusIn(y, s) = Told(lg2, StatusTools, s, StatusIn(was, s))
  <2>1. Told(lg2, StatusTools, s, StatusIn(was, s))
          = IF r.tool \in StatusTools /\ r.id = s THEN r.after
            ELSE Told(lg, StatusTools, s, StatusIn(was, s))
    BY ToldAppend
  <2> QED BY <1>1, <2>1 DEF Fits
<1>3. ASSUME NEW i \in About(lg2, StatusTools, s)
      PROVE  lg2[i].before = Told(SubSeq(lg2, 1, i - 1), StatusTools, s, StatusIn(was, s))
  <2>1. /\ i \in About(lg, StatusTools, s) \/ i = Len(lg) + 1
        /\ i \in 1 .. Len(lg) + 1
    BY AboutAppend, AppendFacts
  <2>2. SubSeq(lg2, 1, i - 1) = SubSeq(lg, 1, i - 1)
    BY <2>1, PrefixKept
  <2>3. CASE i \in About(lg, StatusTools, s)
    <3>1. lg2[i] = lg[i]
      BY <2>3, AboutAppend, AppendFacts
    <3> QED BY <2>2, <2>3, <3>1 DEF StatusesExplained
  <2>4. CASE i = Len(lg) + 1
    <3>1. i - 1 = Len(lg)
      BY <2>4, AppendFacts
    <3>2. SubSeq(lg2, 1, i - 1) = lg /\ lg2[i] = r
      BY <2>2, <2>4, <3>1, PrefixWhole, AppendFacts
    <3>3. r.tool \in StatusTools /\ r.id = s
      BY <1>3, <3>2 DEF About
    <3>4. r.before = StatusIn(x, s)
      BY <3>3 DEF Fits
    <3> QED BY <1>1, <3>2, <3>4
  <2> QED BY <2>1, <2>3, <2>4
<1> QED BY <1>2, <1>3

\* An edit and its record, added to records that lead to the harness, lead on.
LEMMA EditLeads ==
    ASSUME NEW lg \in Seq(Records), NEW r \in Records, NEW was, NEW x, NEW y,
           Leads(was, lg, x), Fits(x, y, r)
    PROVE  Leads(was, Append(lg, r), y)
<1> DEFINE lg2 == Append(lg, r)
<1>1. /\ Grown(was, x) /\ Known(x, lg) /\ StatusesExplained(was, lg, x)
      /\ FieldsExplained(was.skill, lg, x.skill, "patch_skill")
      /\ FieldsExplained(was.lesson, lg, x.lesson, "update_memory")
      /\ \A d \in Sections : x.section[d] = Told(lg, {"rewrite_doctrine"}, d, was.section[d])
  BY DEF Leads, Explains
<1>2. DOMAIN x.skill \subseteq DOMAIN y.skill /\ DOMAIN x.lesson \subseteq DOMAIN y.lesson
  BY DEF Fits, FieldsFit
<1>3. Grown(was, y)
  BY <1>1, <1>2 DEF Grown
<1>4. Known(y, lg2)
  <2> SUFFICES ASSUME NEW i \in 1 .. Len(lg2)
               PROVE  /\ lg2[i].tool \in SkillTools => lg2[i].id \in DOMAIN y.skill
                      /\ lg2[i].tool = "update_memory" => lg2[i].id \in DOMAIN y.lesson
      BY DEF Known
  <2>1. CASE i \in 1 .. Len(lg)
    <3>1. lg2[i] = lg[i]
      BY <2>1, AppendFacts
    <3> QED BY <1>1, <1>2, <2>1, <3>1 DEF Known
  <2>2. CASE i = Len(lg) + 1
    <3>1. lg2[i] = r
      BY <2>2, AppendFacts
    <3> QED BY <1>2, <3>1 DEF Fits, FieldsFit
  <2>3. i \in 1 .. Len(lg) \/ i = Len(lg) + 1
    BY AppendFacts
  <2> QED BY <2>1, <2>2, <2>3
<1>5. StatusesExplained(was, lg2, y)
  BY <1>1, StatusesAppend
<1>6. FieldsExplained(was.skill, lg2, y.skill, "patch_skill")
  <2>1. FieldsFit(x.skill, y.skill, "patch_skill", r) /\ DOMAIN was.skill \subseteq DOMAIN x.skill
    BY <1>1 DEF Fits, Grown
  <2>2. \A i \in 1 .. Len(lg) : lg[i].tool = "patch_skill" => lg[i].id \in DOMAIN x.skill
    BY <1>1 DEF Known, SkillTools
  <2> QED BY <1>1, <2>1, <2>2, FieldsAppend
<1>7. FieldsExplained(was.lesson, lg2, y.lesson, "update_memory")
  <2>1. FieldsFit(x.lesson, y.lesson, "update_memory", r) /\ DOMAIN was.lesson \subseteq DOMAIN x.lesson
    BY <1>1 DEF Fits, Grown
  <2>2. \A i \in 1 .. Len(lg) : lg[i].tool = "update_memory" => lg[i].id \in DOMAIN x.lesson
    BY <1>1 DEF Known
  <2> QED BY <1>1, <2>1, <2>2, FieldsAppend
<1>8. ASSUME NEW d \in Sections
      PROVE  y.section[d] = Told(lg2, {"rewrite_doctrine"}, d, was.section[d])
  <2>1. Told(lg2, {"rewrite_doctrine"}, d, was.section[d])
          = IF r.tool \in {"rewrite_doctrine"} /\ r.id = d THEN r.after
            ELSE Told(lg, {"rewrite_doctrine"}, d, was.section[d])
    BY ToldAppend
  <2> QED BY <1>1, <2>1 DEF Fits
<1> HIDE DEF lg2
<1>9. Explains(was, lg2, y)
  BY <1>5, <1>6, <1>7, <1>8 DEF Explains
<1>10. Leads(was, lg2, y)
  BY <1>3, <1>4, <1>9 DEF Leads
<1> QED BY <1>10 DEF lg2

\* An edit and its record make a good pair of a good pair.
LEMMA EditIsGood ==
    ASSUME NEW x, NEW lg, Good(x, lg), NEW y, WholeHarness(y), NEW r \in Records, Fits(x, y, r)
    PROVE  Good(y, Append(lg, r))
<1> DEFINE lg2 == Append(lg, r)
<1>1. lg \in Seq(Records) /\ HarnessOK(x) /\ HarnessOK(y)
  BY DEF Good, WholeHarness
<1>2. /\ lg2 \in Seq(Records) /\ Len(lg2) = Len(lg) + 1 /\ Len(lg) \in Nat
      /\ \A i \in 1 .. Len(lg) : lg2[i] = lg[i]
      /\ lg2[Len(lg) + 1] = r
  BY <1>1, AppendFacts
<1>3. Leads(SeedHarness, lg2, y)
  BY <1>1, EditLeads DEF Good
<1> HIDE DEF lg2
<1>4. \A i \in 1 .. Len(lg2) : i \in 1 .. Len(lg) \/ i = Len(lg) + 1
  BY <1>2
<1>5. Backed(y, lg2)
  <2>1. Backed(y, lg)
    BY <1>1, BackedBy DEF Good, Fits, FieldsFit, Leads
  <2> SUFFICES ASSUME NEW i \in 1 .. Len(lg2)
               PROVE  /\ lg2[i].tool = "promote_skill" => y.skill[lg2[i].id].n >= MinPromote
                      /\ lg2[i].tool = "retire_skill"  => y.skill[lg2[i].id].n >= MinRetire
      BY DEF Backed
  <2>2. CASE i \in 1 .. Len(lg)
    BY <1>2, <2>1, <2>2 DEF Backed
  <2>3. CASE i = Len(lg) + 1
    BY <1>2, <2>3 DEF Fits
  <2> QED BY <1>4, <2>2, <2>3
<1> QED BY <1>2, <1>3, <1>5 DEF Good, lg2

\* The harness y is x with other statistics, none of them smaller.
Alike(x, y) ==
    /\ DOMAIN y.skill = DOMAIN x.skill
    /\ \A s \in DOMAIN x.skill :
         /\ y.skill[s].status = x.skill[s].status /\ y.skill[s].fields = x.skill[s].fields
         /\ y.skill[s].n >= x.skill[s].n
    /\ DOMAIN y.lesson = DOMAIN x.lesson
    /\ \A l \in DOMAIN x.lesson : y.lesson[l].fields = x.lesson[l].fields
    /\ y.section = x.section

\* What leads to a harness leads to one that is alike.
LEMMA AlikeLeads ==
    ASSUME NEW was, NEW lg, NEW x, NEW y, Leads(was, lg, x), Alike(x, y)
    PROVE  Leads(was, lg, y)
<1>1. Grown(was, y) /\ Known(y, lg)
  BY DEF Alike, Leads, Grown, Known
<1>2. \A s \in SkillIds : StatusIn(y, s) = StatusIn(x, s)
  BY DEF Alike, StatusIn
<1>3. StatusesExplained(was, lg, y)
  BY <1>2 DEF Leads, Explains, StatusesExplained
<1>4. FieldsExplained(was.skill, lg, y.skill, "patch_skill")
  BY DEF Leads, Explains, FieldsExplained, Alike
<1>5. FieldsExplained(was.lesson, lg, y.lesson, "update_memory")
  BY DEF Leads, Explains, FieldsExplained, Alike
<1>6. \A d \in Sections : y.section[d] = Told(lg, {"rewrite_doctrine"}, d, was.section[d])
  BY DEF Leads, Explains, Alike
<1> QED BY <1>1, <1>3, <1>4, <1>5, <1>6 DEF Leads, Explains

LEMMA AlikeIsGood ==
    ASSUME NEW lg, NEW x, NEW y, Good(x, lg), WholeHarness(y), Alike(x, y)
    PROVE  Good(y, lg)
<1>1. Leads(SeedHarness, lg, y) /\ Known(x, lg)
  BY AlikeLeads DEF Good, Leads
<1>2. Backed(y, lg)
  BY <1>1, BackedBy DEF Good, Alike, WholeHarness
<1> QED BY <1>1, <1>2 DEF Good

\* Without records, a harness is what it was.
LEMMA LeadsToItself ==
    ASSUME NEW x
    PROVE  Leads(x, << >>, x)
<1> DEFINE lg == << >>
<1>1. DOMAIN lg = {} /\ Len(lg) = 0 /\ 1 .. Len(lg) = {}
  OBVIOUS
<1> HIDE DEF lg
<1>2. \A tools, id, seed : About(lg, tools, id) = {} /\ Told(lg, tools, id, seed) = seed
  BY <1>1 DEF About, Told
<1>3. \A tool, id, f : Patched(lg, tool, id, f) = {}
  BY <1>2 DEF Patched
<1>4. \A was, tool : FieldsExplained(was, lg, was, tool)
  BY <1>3 DEF FieldsExplained, FieldTold
<1>5. StatusesExplained(x, lg, x)
  BY <1>2 DEF StatusesExplained
<1>6. Grown(x, x) /\ Known(x, lg)
  BY <1>1 DEF Grown, Known
<1>7. Leads(x, lg, x)
  BY <1>2, <1>4, <1>5, <1>6 DEF Leads, Explains
<1> QED BY <1>7 DEF lg

------------------------------------------------------------------------------
(* What each edit does *)

\* A harness with other skills.
LEMMA SkillsReplaced ==
    ASSUME NEW x, WholeHarness(x), NEW sk, DOMAIN sk \subseteq SkillIds,
           \A s \in DOMAIN sk : sk[s] \in Skills
    PROVE  /\ WholeHarness([x EXCEPT !.skill = sk])
           /\ [x EXCEPT !.skill = sk].skill = sk
           /\ [x EXCEPT !.skill = sk].lesson = x.lesson
           /\ [x EXCEPT !.skill = sk].section = x.section
<1> DEFINE y == [x EXCEPT !.skill = sk]
<1>1. x = [skill |-> x.skill, lesson |-> x.lesson, section |-> x.section] /\ HarnessOK(x)
  BY DEF WholeHarness
<1>2. y = [skill |-> sk, lesson |-> x.lesson, section |-> x.section]
  BY <1>1
<1>3. y.skill = sk /\ y.lesson = x.lesson /\ y.section = x.section
  BY <1>2
<1>4. HarnessOK(y)
  BY <1>1, <1>3 DEF HarnessOK
<1> QED BY <1>2, <1>3, <1>4 DEF WholeHarness

\* A harness with other lessons.
LEMMA LessonsReplaced ==
    ASSUME NEW x, WholeHarness(x), NEW ls, DOMAIN ls \subseteq LessonIds,
           \A l \in DOMAIN ls : ls[l] \in Lessons
    PROVE  /\ WholeHarness([x EXCEPT !.lesson = ls])
           /\ [x EXCEPT !.lesson = ls].skill = x.skill
           /\ [x EXCEPT !.lesson = ls].lesson = ls
           /\ [x EXCEPT !.lesson = ls].section = x.section
<1> DEFINE y == [x EXCEPT !.lesson = ls]
<1>1. x = [skill |-> x.skill, lesson |-> x.lesson, section |-> x.section] /\ HarnessOK(x)
  BY DEF WholeHarness
<1>2. y = [skill |-> x.skill, lesson |-> ls, section |-> x.section]
  BY <1>1
<1>3. y.skill = x.skill /\ y.lesson = ls /\ y.section = x.section
  BY <1>2
<1>4. HarnessOK(y)
  BY <1>1, <1>3 DEF HarnessOK
<1> QED BY <1>2, <1>3, <1>4 DEF WholeHarness

\* One skill replaced by another of its kind.
LEMMA SkillReplaced ==
    ASSUME WholeHarness(h), NEW s \in DOMAIN h.skill, NEW new \in Skills,
           h' = [h EXCEPT !.skill = [h.skill EXCEPT ![s] = new]]
    PROVE  /\ WholeHarness(h') /\ h'.lesson = h.lesson /\ h'.section = h.section
           /\ DOMAIN h'.skill = DOMAIN h.skill /\ h'.skill[s] = new
           /\ \A o \in DOMAIN h.skill : o # s => h'.skill[o] = h.skill[o]
<1> DEFINE sk == [h.skill EXCEPT ![s] = new]
<1>1. HarnessOK(h)
  BY DEF WholeHarness
<1>2. DOMAIN sk = DOMAIN h.skill /\ sk[s] = new
      /\ \A o \in DOMAIN h.skill : o # s => sk[o] = h.skill[o]
  OBVIOUS
<1>3. h' = [h EXCEPT !.skill = sk]
  OBVIOUS
<1> HIDE DEF sk
<1>4. DOMAIN sk \subseteq SkillIds /\ \A o \in DOMAIN sk : sk[o] \in Skills
  BY <1>1, <1>2, SkillTypes
<1>5. WholeHarness(h') /\ h'.skill = sk /\ h'.lesson = h.lesson /\ h'.section = h.section
  <2>1. /\ WholeHarness([h EXCEPT !.skill = sk])
        /\ [h EXCEPT !.skill = sk].skill = sk
        /\ [h EXCEPT !.skill = sk].lesson = h.lesson
        /\ [h EXCEPT !.skill = sk].section = h.section
    BY <1>4, SkillsReplaced
  <2> QED BY <1>3, <2>1
<1> QED BY <1>2, <1>5

\* A record of another tool, over skills or lessons whose fields stayed.
LEMMA FieldsUntouched ==
    ASSUME NEW x, NEW y, NEW tool, NEW r, r.tool # tool, DOMAIN x \subseteq DOMAIN y,
           \A id \in DOMAIN x : y[id].fields = x[id].fields
    PROVE  FieldsFit(x, y, tool, r)
BY DEF FieldsFit, Names

\* Fields with a patch assigned, the part of them that the record keeps, and the
\* fields after a refusal.
LEMMA PatchFacts ==
    ASSUME NEW was \in [Fields -> Texts], NEW patch \in Patches
    PROVE  /\ Assign(was, patch, DOMAIN patch) \in [Fields -> Texts]
           /\ \A f \in Fields : Assign(was, patch, DOMAIN patch)[f]
                = IF f \in DOMAIN patch THEN patch[f] ELSE was[f]
           /\ \A f \in DOMAIN patch : Part(was, patch)[f] = was[f]
           /\ patch \in Values /\ Part(was, patch) \in Values
<1>1. DOMAIN patch \subseteq Fields /\ patch \in [DOMAIN patch -> Texts]
  BY RefinerAssumption
<1>2. Part(was, patch) \in [DOMAIN patch -> Texts]
  BY <1>1 DEF Part
<1>3. \A fields : fields \in SUBSET Fields => [fields -> Texts] \subseteq FieldTexts
  BY DEF FieldTexts
<1>4. patch \in FieldTexts /\ Part(was, patch) \in FieldTexts
  BY <1>1, <1>2, <1>3
<1>5. \A f \in Fields : f \in DOMAIN patch => patch[f] \in Texts
  BY <1>1
<1>6. \A f \in Fields : was[f] \in Texts
  OBVIOUS
<1>7. Assign(was, patch, DOMAIN patch) \in [Fields -> Texts]
  BY <1>5, <1>6 DEF Assign
<1>8. \A f \in Fields : Assign(was, patch, DOMAIN patch)[f]
        = IF f \in DOMAIN patch THEN patch[f] ELSE was[f]
  BY DEF Assign
<1>9. \A f \in DOMAIN patch : Part(was, patch)[f] = was[f]
  BY DEF Part
<1> QED BY <1>4, <1>7, <1>8, <1>9 DEF Values

\* A refusal half-way: every field is what it was.
LEMMA RestoredFacts ==
    ASSUME NEW was \in [Fields -> Texts], NEW patch \in Patches, NEW done \in SUBSET DOMAIN patch
    PROVE  Restored(Assign(was, patch, done), was, patch) = was
<1> DEFINE now == Assign(was, patch, done)
           back == Restored(now, was, patch)
<1>1. \A f \in Fields : now[f] = IF f \in done THEN patch[f] ELSE was[f]
  BY DEF Assign
<1>2. /\ back = [f \in Fields |-> back[f]]
      /\ \A f \in Fields : back[f] = IF f \in DOMAIN patch THEN was[f] ELSE now[f]
  BY DEF Restored, Assign
<1>3. \A f \in Fields : back[f] = was[f]
  BY <1>1, <1>2
<1> HIDE DEF back
<1>4. was = [f \in Fields |-> was[f]]
  OBVIOUS
<1>5. back = was
  BY <1>2, <1>3, <1>4
<1> QED BY <1>5 DEF back

\* A tool that changes the status of a skill, behind its gate.
LEMMA StatusEdit ==
    ASSUME WholeHarness(h), NEW s \in DOMAIN h.skill, NEW status \in Statuses, SetStatus(s, status),
           NEW tool \in StatusTools,
           tool = "promote_skill" => Skill(s).n >= MinPromote,
           tool = "retire_skill"  => Skill(s).n >= MinRetire
    PROVE  /\ WholeHarness(h') /\ Record(tool, s, Skill(s).status, status) \in Records
           /\ Fits(h, h', Record(tool, s, Skill(s).status, status))
<1> DEFINE new == [h.skill[s] EXCEPT !.status = status]
           r == Record(tool, s, Skill(s).status, status)
<1>1. /\ DOMAIN h.skill \subseteq SkillIds /\ h.skill[s] \in Skills
      /\ h.skill[s].status \in Statuses /\ h.skill[s].n \in Nat
      /\ \A o \in DOMAIN h.skill : h.skill[o].n \in Nat
  BY SkillTypes DEF WholeHarness
<1>2. /\ new \in Skills /\ new.status = status /\ new.n = h.skill[s].n
      /\ new.fields = h.skill[s].fields
  BY <1>1 DEF Skills
<1>3. h' = [h EXCEPT !.skill = [h.skill EXCEPT ![s] = new]]
  BY DEF SetStatus
<1> HIDE DEF new
<1>4. /\ WholeHarness(h') /\ h'.section = h.section /\ h'.lesson = h.lesson
      /\ DOMAIN h'.skill = DOMAIN h.skill /\ h'.skill[s] = new
      /\ \A o \in DOMAIN h.skill : o # s => h'.skill[o] = h.skill[o]
  BY <1>2, <1>3, SkillReplaced
<1>5. r \in Records /\ r.tool = tool /\ r.id = s /\ r.before = h.skill[s].status /\ r.after = status
  BY <1>1 DEF Record, Records, Tools, SkillTools, Values, Skill
<1> HIDE DEF r
<1>6. tool # "patch_skill" /\ tool # "rewrite_doctrine" /\ tool # "update_memory"
  BY DEF StatusTools
<1>7. ASSUME NEW o \in SkillIds
      PROVE  IF tool \in StatusTools /\ s = o
             THEN StatusIn(h', o) = status /\ h.skill[s].status = StatusIn(h, o)
             ELSE StatusIn(h', o) = StatusIn(h, o)
  BY <1>2, <1>4 DEF StatusIn
<1>8. /\ FieldsFit(h.skill, h'.skill, "patch_skill", r)
      /\ FieldsFit(h.lesson, h'.lesson, "update_memory", r)
  <2>1. \A o \in DOMAIN h.skill : h'.skill[o].fields = h.skill[o].fields
    BY <1>2, <1>4
  <2> QED BY <1>4, <1>5, <1>6, <2>1, FieldsUntouched
<1>9. \A o \in DOMAIN h.skill : h'.skill[o].n >= h.skill[o].n
  <2>1. \A o \in DOMAIN h.skill : h'.skill[o].n = h.skill[o].n
    BY <1>2, <1>4
  <2> QED BY <1>1, <2>1
<1>10. /\ tool = "promote_skill" => h'.skill[s].n >= MinPromote
       /\ tool = "retire_skill"  => h'.skill[s].n >= MinRetire
  BY <1>2, <1>4 DEF Skill
<1>11. Fits(h, h', r)
  BY <1>4, <1>5, <1>6, <1>7, <1>8, <1>9, <1>10 DEF Fits
<1> QED BY <1>4, <1>5, <1>11 DEF r

\* A new skill: an id that was free, incubating, with the fields of the model.
LEMMA WriteEdit ==
    ASSUME WholeHarness(h), NEW s \in SkillIds, s \notin DOMAIN h.skill, NEW fields \in Writings,
           h' = [h EXCEPT !.skill = Put(h.skill, s, NewSkill("incubating", fields))]
    PROVE  /\ WholeHarness(h') /\ Record("write_skill", s, "none", "incubating") \in Records
           /\ Fits(h, h', Record("write_skill", s, "none", "incubating"))
<1> DEFINE sk == Put(h.skill, s, NewSkill("incubating", fields))
           r == Record("write_skill", s, "none", "incubating")
<1>1. /\ DOMAIN h.skill \subseteq SkillIds /\ \A o \in DOMAIN h.skill : h.skill[o] \in Skills
      /\ \A o \in DOMAIN h.skill : h.skill[o].n \in Nat
  BY SkillTypes DEF WholeHarness
<1>2. /\ NewSkill("incubating", fields) \in Skills
      /\ NewSkill("incubating", fields).status = "incubating"
  <2>1. fields \in [Fields -> Texts]
    BY RefinerAssumption
  <2> QED BY <2>1 DEF NewSkill, Skills, Statuses
<1>3. /\ DOMAIN sk = DOMAIN h.skill \cup {s} /\ sk[s] = NewSkill("incubating", fields)
      /\ \A o \in DOMAIN h.skill : sk[o] = h.skill[o]
  BY DEF Put
<1>4. h' = [h EXCEPT !.skill = sk]
  OBVIOUS
<1> HIDE DEF sk
<1>5. DOMAIN sk \subseteq SkillIds /\ \A o \in DOMAIN sk : sk[o] \in Skills
  BY <1>1, <1>2, <1>3
<1>6. WholeHarness(h') /\ h'.skill = sk /\ h'.lesson = h.lesson /\ h'.section = h.section
  <2>1. /\ WholeHarness([h EXCEPT !.skill = sk])
        /\ [h EXCEPT !.skill = sk].skill = sk
        /\ [h EXCEPT !.skill = sk].lesson = h.lesson
        /\ [h EXCEPT !.skill = sk].section = h.section
    BY <1>5, SkillsReplaced
  <2> QED BY <1>4, <2>1
<1>7. /\ r \in Records /\ r.tool = "write_skill" /\ r.id = s
      /\ r.before = "none" /\ r.after = "incubating"
  BY DEF Record, Records, Tools, SkillTools, StatusTools, Values, Statuses
<1> HIDE DEF r
<1>8. ASSUME NEW o \in SkillIds
      PROVE  IF s = o
             THEN StatusIn(h', o) = "incubating" /\ StatusIn(h, o) = "none"
             ELSE StatusIn(h', o) = StatusIn(h, o)
  BY <1>2, <1>3, <1>6 DEF StatusIn
<1>9. /\ FieldsFit(h.skill, h'.skill, "patch_skill", r)
      /\ FieldsFit(h.lesson, h'.lesson, "update_memory", r)
  BY <1>3, <1>6, <1>7, FieldsUntouched
<1>10. \A o \in DOMAIN h.skill : h'.skill[o].n >= h.skill[o].n
  <2>1. \A o \in DOMAIN h.skill : h'.skill[o].n = h.skill[o].n
    BY <1>3, <1>6
  <2> QED BY <1>1, <2>1
<1>11. "write_skill" \in StatusTools
  BY DEF StatusTools
<1>12. Fits(h, h', r)
  BY <1>3, <1>6, <1>7, <1>8, <1>9, <1>10, <1>11 DEF Fits
<1> QED BY <1>6, <1>7, <1>12 DEF r

\* Other fields for a skill.
LEMMA PatchEdit ==
    ASSUME WholeHarness(h), NEW s \in DOMAIN h.skill, NEW patch \in Patches,
           h' = [h EXCEPT !.skill[s].fields = Assign(@, patch, DOMAIN patch)]
    PROVE  /\ WholeHarness(h')
           /\ Record("patch_skill", s, Part(Skill(s).fields, patch), patch) \in Records
           /\ Fits(h, h', Record("patch_skill", s, Part(Skill(s).fields, patch), patch))
<1> DEFINE was == h.skill[s].fields
           now == Assign(was, patch, DOMAIN patch)
           new == [h.skill[s] EXCEPT !.fields = now]
           r == Record("patch_skill", s, Part(Skill(s).fields, patch), patch)
<1>1. /\ DOMAIN h.skill \subseteq SkillIds /\ h.skill[s] \in Skills
      /\ was \in [Fields -> Texts]
      /\ \A o \in DOMAIN h.skill : h.skill[o].n \in Nat
  BY SkillTypes DEF WholeHarness
<1>2. /\ now \in [Fields -> Texts]
      /\ \A f \in Fields : now[f] = IF f \in DOMAIN patch THEN patch[f] ELSE was[f]
      /\ \A f \in DOMAIN patch : Part(was, patch)[f] = was[f]
      /\ patch \in Values /\ Part(was, patch) \in Values
  BY <1>1, PatchFacts
<1>3. h' = [h EXCEPT !.skill = [h.skill EXCEPT ![s] = new]]
  OBVIOUS
<1> HIDE DEF now
<1>11. /\ new \in Skills /\ new.status = h.skill[s].status /\ new.n = h.skill[s].n
       /\ new.fields = now
  BY <1>1, <1>2 DEF Skills
<1> HIDE DEF new
<1>4. /\ WholeHarness(h') /\ h'.section = h.section /\ h'.lesson = h.lesson
      /\ DOMAIN h'.skill = DOMAIN h.skill /\ h'.skill[s] = new
      /\ \A o \in DOMAIN h.skill : o # s => h'.skill[o] = h.skill[o]
  BY <1>3, <1>11, SkillReplaced
<1>5. /\ r \in Records /\ r.tool = "patch_skill" /\ r.id = s /\ r.after = patch
      /\ r.before = Part(was, patch)
  <2>1. "patch_skill" \in Tools /\ s \in SkillIds
    BY <1>1 DEF Tools, SkillTools
  <2> QED BY <1>2, <2>1 DEF Record, Records, Skill
<1> HIDE DEF r
<1>6. "patch_skill" \notin StatusTools
  BY DEF StatusTools
<1>7. \A o \in SkillIds : StatusIn(h', o) = StatusIn(h, o)
  BY <1>4, <1>11 DEF StatusIn
<1>8. /\ FieldsFit(h.skill, h'.skill, "patch_skill", r)
      /\ FieldsFit(h.lesson, h'.lesson, "update_memory", r)
  <2>1. FieldsFit(h.lesson, h'.lesson, "update_memory", r)
    BY <1>4, <1>5, FieldsUntouched
  <2>2. ASSUME NEW o \in DOMAIN h.skill, NEW f \in Fields
        PROVE  IF Names(r, "patch_skill", o, f)
               THEN h'.skill[o].fields[f] = r.after[f] /\ r.before[f] = h.skill[o].fields[f]
               ELSE h'.skill[o].fields[f] = h.skill[o].fields[f]
    <3>1. CASE o = s
      BY <1>2, <1>4, <1>5, <1>11, <3>1 DEF Names
    <3>2. CASE o # s
      BY <1>4, <1>5, <3>2 DEF Names
    <3> QED BY <3>1, <3>2
  <2> QED BY <1>4, <1>5, <2>1, <2>2 DEF FieldsFit
<1>9. \A o \in DOMAIN h.skill : h'.skill[o].n >= h.skill[o].n
  <2>1. \A o \in DOMAIN h.skill : h'.skill[o].n = h.skill[o].n
    BY <1>4, <1>11
  <2> QED BY <1>1, <2>1
<1>10. Fits(h, h', r)
  BY <1>4, <1>5, <1>6, <1>7, <1>8, <1>9 DEF Fits
<1> QED BY <1>4, <1>5, <1>10 DEF r

\* An edit that leaves the skills alone.
LEMMA OtherEdit ==
    ASSUME WholeHarness(h), h'.skill = h.skill, NEW r \in Records, r.tool \in Tools \ SkillTools,
           FieldsFit(h.lesson, h'.lesson, "update_memory", r),
           \A d \in Sections :
               h'.section[d] = IF r.tool = "rewrite_doctrine" /\ r.id = d THEN r.after
                               ELSE h.section[d]
    PROVE  Fits(h, h', r)
<1>1. \A o \in DOMAIN h.skill : h.skill[o].n \in Nat
  BY SkillTypes DEF WholeHarness
<1>2. r.tool \notin StatusTools /\ r.tool # "patch_skill" /\ r.tool \notin SkillTools
      /\ r.tool # "promote_skill" /\ r.tool # "retire_skill"
  BY DEF SkillTools, StatusTools
<1>3. \A o \in SkillIds : StatusIn(h', o) = StatusIn(h, o)
  BY DEF StatusIn
<1>4. \A o \in DOMAIN h.skill : h'.skill[o].n >= h.skill[o].n
  BY <1>1
<1>5. FieldsFit(h.skill, h'.skill, "patch_skill", r)
  BY <1>2, FieldsUntouched
<1> QED BY <1>2, <1>3, <1>4, <1>5 DEF Fits

------------------------------------------------------------------------------
(* The steps *)

\* With versions 0 .. k - 1 on disk the next one is k.
LEMMA VersionNumbers ==
    ASSUME NEW k \in Nat, Versions = 0 .. k - 1
    PROVE  NextVersion = k /\ Latest = k - 1 /\ (Latest \in Versions <=> k # 0)
<1>1. CASE k = 0
  <2>1. Versions = {}
    BY <1>1
  <2>2. Latest = -1
    BY <2>1 DEF Latest, NoVersion
  <2> QED BY <1>1, <2>1, <2>2 DEF NextVersion
<1>2. CASE k # 0
  <2>1. Versions \subseteq 0 .. k /\ k - 1 \in Versions
    BY <1>2
  <2>2. Max(Versions) \in Versions /\ \A v \in Versions : v <= Max(Versions)
    BY <2>1, GreatestElement
  <2>3. Max(Versions) \in 0 .. k - 1 /\ k - 1 <= Max(Versions)
    BY <2>1, <2>2
  <2>4. Max(Versions) = k - 1
    BY <2>3
  <2>5. Latest = k - 1
    BY <2>1, <2>4 DEF Latest
  <2> QED BY <1>2, <2>1, <2>5 DEF NextVersion
<1> QED BY <1>1, <1>2

\* Snapshots stay as they are while the disk is left alone.
LEMMA DiskUnchanged ==
    ASSUME UNCHANGED disk
    PROVE  /\ Latest' = Latest /\ NextVersion' = NextVersion /\ Versions' = Versions
           /\ Numbered => Numbered'
           /\ GoodFiles => GoodFiles'
BY DEF Latest, NextVersion, Versions, Numbered, GoodFiles

\* An edit of a pass, with its record.
LEMMA EditKeeps ==
    ASSUME RInv, NEW pass \in Passes, MayApply(pass),
           NEW tool, NEW id, NEW before, NEW after, Applied(tool, id, before, after),
           Record(tool, id, before, after) \in Records, WholeHarness(h'),
           Fits(h, h', Record(tool, id, before, after))
    PROVE  RInv'
<1> DEFINE r == Record(tool, id, before, after)
           base == disk[Latest].log
<1>1. /\ stage = pass /\ count < MaxPerPass /\ applied < MaxPerRefine
      /\ log' = Append(log, r) /\ count' = count + 1 /\ applied' = applied + 1
      /\ disk' = disk /\ saving' = saving /\ stage' = stage
  BY DEF MayApply, Applied
<1>2. r \in Records /\ log \in Seq(Records)
  BY DEF RInv, Good
<1> HIDE DEF r
<1>3. Good(h', log')
  <2>1. Good(h', Append(log, r))
    BY <1>2, EditIsGood DEF RInv, r
  <2> QED BY <1>1, <2>1
<1>4. Numbered' /\ GoodFiles' /\ Latest' = Latest /\ NextVersion' = NextVersion
      /\ Versions' = Versions
  BY <1>1, DiskUnchanged DEF RInv
<1>5. Counters'
  <2>1. count \in 0 .. MaxPerPass /\ applied \in 0 .. MaxPerRefine
    BY DEF RInv, Counters
  <2>2. MaxPerPass \in Nat /\ MaxPerRefine \in Nat
    BY RefinerAssumption
  <2>3. count' \in 0 .. MaxPerPass /\ applied' \in 0 .. MaxPerRefine
    BY <1>1, <2>1, <2>2
  <2>4. stage # "saving"
    BY <1>1 DEF Passes
  <2> QED BY <1>1, <2>3, <2>4 DEF RInv, Counters
<1>6. OnCheckpoint'
  <2>1. /\ Latest \in Versions /\ Len(log) = Len(base) + applied
        /\ base = SubSeq(log, 1, Len(base)) /\ base \in Seq(Records) /\ applied \in Nat
    BY <1>1, RefinerAssumption DEF RInv, OnCheckpoint, GoodFiles, Good, Counters
  <2> HIDE DEF base
  <2>2. Len(base) \in Nat /\ Len(base) + 1 \in 1 .. Len(log) + 1 /\ Len(base) + 1 - 1 = Len(base)
    BY <1>2, <2>1
  <2>3. SubSeq(log', 1, Len(base)) = SubSeq(log, 1, Len(base))
    <3>1. SubSeq(Append(log, r), 1, Len(base) + 1 - 1) = SubSeq(log, 1, Len(base) + 1 - 1)
      BY <1>2, <2>2, PrefixKept
    <3> QED BY <1>1, <2>2, <3>1
  <2>4. Len(log') = Len(base) + applied'
    <3>1. Len(log') = Len(log) + 1
      BY <1>1, <1>2, AppendFacts
    <3> QED BY <1>1, <2>1, <2>2, <3>1
  <2>5. disk'[Latest'].log = base /\ disk'[Latest'].harness = disk[Latest].harness
    BY <1>1, <1>4 DEF base
  <2>6. Leads(disk'[Latest'].harness, SinceCheckpoint', h')
    <3> DEFINE since == SubSeq(log, Len(base) + 1, Len(log))
    <3>1. Leads(disk[Latest].harness, since, h)
      BY <1>1 DEF RInv, OnCheckpoint, SinceCheckpoint, base
    <3>2. since \in Seq(Records) /\ Len(base) <= Len(log)
      BY <1>2, <2>1, <2>2, SuffixAppend
    <3>3. Leads(disk[Latest].harness, Append(since, r), h')
      <4>1. Fits(h, h', r)
        BY DEF r
      <4> HIDE DEF since
      <4> QED BY <1>2, <3>1, <3>2, <4>1, EditLeads
    <3>4. SinceCheckpoint' = SubSeq(log', Len(base) + 1, Len(log'))
      BY <2>5 DEF SinceCheckpoint
    <3>5. SubSeq(Append(log, r), Len(base) + 1, Len(Append(log, r))) = Append(since, r)
      BY <1>2, <2>2, <3>2, SuffixAppend
    <3> QED BY <1>1, <2>5, <3>3, <3>4, <3>5
  <2> QED BY <1>4, <2>1, <2>3, <2>4, <2>5, <2>6 DEF OnCheckpoint
<1> QED BY <1>3, <1>4, <1>5, <1>6 DEF RInv

\* The passes: the harness of a refine is whole, and "p", "K" and "M" are passes.
LEMMA InPass ==
    ASSUME RInv
    PROVE  WholeHarness(h) /\ HarnessOK(h) /\ {"p", "K", "M"} = Passes
BY DEF RInv, Good, WholeHarness, Passes

\* A step outside the log, to a harness that is alike.
LEMMA AlikeKeeps ==
    ASSUME RInv, WholeHarness(h'), Alike(h, h'), log' = log,
           UNCHANGED <<disk, saving, stage, count, applied>>
    PROVE  RInv'
<1>1. /\ disk' = disk /\ saving' = saving /\ stage' = stage /\ count' = count
      /\ applied' = applied
  OBVIOUS
<1>2. Numbered' /\ GoodFiles' /\ NextVersion' = NextVersion /\ Latest' = Latest
      /\ Versions' = Versions
  BY <1>1, DiskUnchanged DEF RInv
<1>3. Good(h', log')
  BY AlikeIsGood DEF RInv
<1>4. Counters'
  BY <1>1, <1>2 DEF RInv, Counters
<1>5. OnCheckpoint'
  <2>1. SinceCheckpoint' = SinceCheckpoint
    BY <1>1, <1>2 DEF SinceCheckpoint
  <2>2. Leads(disk[Latest].harness, SinceCheckpoint, h)
          => Leads(disk[Latest].harness, SinceCheckpoint, h')
    BY AlikeLeads
  <2> QED BY <1>1, <1>2, <2>1, <2>2 DEF RInv, OnCheckpoint
<1> QED BY <1>2, <1>3, <1>4, <1>5 DEF RInv

LEMMA WriteSkillKeeps ==
    ASSUME RInv, NEW s \in SkillIds, NEW fields \in Writings, WriteSkill(s, fields)
    PROVE  RInv'
<1>1. /\ MayApply("K") /\ s \notin DOMAIN h.skill
      /\ h' = [h EXCEPT !.skill = Put(h.skill, s, NewSkill("incubating", fields))]
      /\ Applied("write_skill", s, "none", "incubating")
  BY DEF WriteSkill
<1>2. /\ WholeHarness(h') /\ Record("write_skill", s, "none", "incubating") \in Records
      /\ Fits(h, h', Record("write_skill", s, "none", "incubating"))
  BY <1>1, WriteEdit, InPass
<1> QED BY <1>1, <1>2, EditKeeps, InPass

LEMMA PatchSkillKeeps ==
    ASSUME RInv, NEW s \in SkillIds, NEW patch \in Patches, PatchSkill(s, patch)
    PROVE  RInv'
<1> DEFINE before == Part(Skill(s).fields, patch)
<1>1. /\ MayApply("K") /\ s \in DOMAIN h.skill
      /\ h' = [h EXCEPT !.skill[s].fields = Assign(@, patch, DOMAIN patch)]
      /\ Applied("patch_skill", s, before, patch)
  BY DEF PatchSkill
<1>2. /\ WholeHarness(h') /\ Record("patch_skill", s, before, patch) \in Records
      /\ Fits(h, h', Record("patch_skill", s, before, patch))
  BY <1>1, PatchEdit, InPass
<1> HIDE DEF before
<1> QED BY <1>1, <1>2, EditKeeps, InPass

\* A refused patch leaves every skill as it was.
LEMMA RefusePatchKeeps ==
    ASSUME RInv, NEW s \in SkillIds, NEW patch \in Patches, NEW done \in SUBSET DOMAIN patch,
           RefusePatch(s, patch, done)
    PROVE  RInv'
<1> DEFINE was == h.skill[s].fields
           now == Restored(Assign(was, patch, done), was, patch)
           new == [h.skill[s] EXCEPT !.fields = now]
<1>1. /\ s \in DOMAIN h.skill /\ h' = [h EXCEPT !.skill = [h.skill EXCEPT ![s] = new]]
      /\ log' = log /\ UNCHANGED <<disk, saving, stage, count, applied>>
  BY DEF RefusePatch, Skill
<1>2. /\ was \in [Fields -> Texts] /\ h.skill[s] \in Skills
      /\ \A o \in DOMAIN h.skill : h.skill[o].n \in Nat
  BY <1>1, InPass, SkillTypes
<1>3. now = was
  BY <1>2, RestoredFacts
<1> HIDE DEF now
<1>4. /\ new \in Skills /\ new.fields = was /\ new.status = h.skill[s].status
      /\ new.n = h.skill[s].n
  BY <1>2, <1>3 DEF Skills
<1> HIDE DEF new
<1>5. /\ WholeHarness(h') /\ h'.lesson = h.lesson /\ h'.section = h.section
      /\ DOMAIN h'.skill = DOMAIN h.skill /\ h'.skill[s] = new
      /\ \A o \in DOMAIN h.skill : o # s => h'.skill[o] = h.skill[o]
  BY <1>1, <1>4, InPass, SkillReplaced
<1>6. Alike(h, h')
  <2>1. \A o \in DOMAIN h.skill :
          /\ h'.skill[o].status = h.skill[o].status /\ h'.skill[o].fields = h.skill[o].fields
          /\ h'.skill[o].n = h.skill[o].n
    BY <1>4, <1>5
  <2> QED BY <1>2, <1>5, <2>1 DEF Alike
<1> QED BY <1>1, <1>5, <1>6, AlikeKeeps

\* The three tools that change a status.
LEMMA StatusKeeps ==
    ASSUME RInv, MayApply("K"), NEW s \in DOMAIN h.skill, NEW status \in Statuses,
           SetStatus(s, status), NEW tool \in StatusTools,
           tool = "promote_skill" => Skill(s).n >= MinPromote,
           tool = "retire_skill"  => Skill(s).n >= MinRetire,
           Applied(tool, s, Skill(s).status, status)
    PROVE  RInv'
<1>1. /\ WholeHarness(h') /\ Record(tool, s, Skill(s).status, status) \in Records
      /\ Fits(h, h', Record(tool, s, Skill(s).status, status))
  BY StatusEdit, InPass
<1> QED BY <1>1, EditKeeps, InPass

LEMMA RetireSkillKeeps ==
    ASSUME RInv, NEW s \in SkillIds, NEW permanent \in BOOLEAN, RetireSkill(s, permanent)
    PROVE  RInv'
<1> DEFINE status == IF permanent THEN "retired" ELSE "dormant"
<1>1. /\ MayApply("K") /\ s \in DOMAIN h.skill /\ Skill(s).n >= MinRetire
      /\ SetStatus(s, status) /\ Applied("retire_skill", s, Skill(s).status, status)
  BY DEF RetireSkill, HasRetireEvidence
<1>2. status \in Statuses /\ "retire_skill" \in StatusTools
  BY DEF Statuses, StatusTools
<1> HIDE DEF status
<1> QED BY <1>1, <1>2, StatusKeeps

LEMMA ReviveSkillKeeps ==
    ASSUME RInv, NEW s \in SkillIds, ReviveSkill(s)
    PROVE  RInv'
<1>1. /\ MayApply("K") /\ s \in DOMAIN h.skill /\ Skill(s).status = "dormant"
      /\ SetStatus(s, "incubating") /\ Applied("revive_skill", s, Skill(s).status, "incubating")
  BY DEF ReviveSkill, CanRevive
<1>2. "incubating" \in Statuses /\ "revive_skill" \in StatusTools
  BY DEF Statuses, StatusTools
<1> QED BY <1>1, <1>2, StatusKeeps

LEMMA PromoteSkillKeeps ==
    ASSUME RInv, NEW s \in SkillIds, PromoteSkill(s)
    PROVE  RInv'
<1>1. /\ MayApply("K") /\ s \in DOMAIN h.skill /\ Skill(s).n >= MinPromote
      /\ SetStatus(s, "active") /\ Applied("promote_skill", s, Skill(s).status, "active")
  BY DEF PromoteSkill, HasPromoteEvidence
<1>2. "active" \in Statuses /\ "promote_skill" \in StatusTools
  BY DEF Statuses, StatusTools
<1> QED BY <1>1, <1>2, StatusKeeps

LEMMA RecordFields ==
    ASSUME NEW tool, NEW id, NEW before, NEW after
    PROVE  /\ Record(tool, id, before, after).tool = tool
           /\ Record(tool, id, before, after).id = id
           /\ Record(tool, id, before, after).before = before
           /\ Record(tool, id, before, after).after = after
BY DEF Record

\* The tools of the M pass: other lessons, the same skills and sections.
LEMMA LessonKeeps ==
    ASSUME RInv, MayApply("M"), NEW ls, DOMAIN ls \subseteq LessonIds,
           \A l \in DOMAIN ls : ls[l] \in Lessons,
           h' = [h EXCEPT !.lesson = ls],
           NEW tool \in Tools \ SkillTools, tool # "rewrite_doctrine",
           NEW id \in LessonIds, NEW before \in Values, NEW after \in Values,
           Applied(tool, id, before, after),
           FieldsFit(h.lesson, ls, "update_memory", Record(tool, id, before, after))
    PROVE  RInv'
<1> DEFINE r == Record(tool, id, before, after)
<1>1. WholeHarness(h') /\ h'.skill = h.skill /\ h'.lesson = ls /\ h'.section = h.section
  <2>1. /\ WholeHarness([h EXCEPT !.lesson = ls]) /\ [h EXCEPT !.lesson = ls].skill = h.skill
        /\ [h EXCEPT !.lesson = ls].lesson = ls
        /\ [h EXCEPT !.lesson = ls].section = h.section
    BY InPass, LessonsReplaced
  <2> QED BY <2>1
<1>2. r \in Records
  BY DEF Record, Records
<1>3. r.tool = tool
  BY RecordFields
<1>4. Fits(h, h', r)
  <2>1. FieldsFit(h.lesson, h'.lesson, "update_memory", r)
    BY <1>1
  <2> HIDE DEF r
  <2> QED BY <1>1, <1>2, <1>3, <2>1, InPass, OtherEdit
<1> QED BY <1>1, <1>2, <1>4, InPass, EditKeeps

\* A record of a lesson, and what it may hold.
LEMMA LessonTypes ==
    ASSUME RInv
    PROVE  /\ DOMAIN h.lesson \subseteq LessonIds
           /\ \A l \in DOMAIN h.lesson :
                /\ h.lesson[l] \in Lessons
                /\ h.lesson[l].fields \in [Fields -> Texts] /\ h.lesson[l].demoted \in Nat
BY InPass DEF HarnessOK, Lessons

LEMMA MemoryTools ==
    {"process_memory", "update_memory", "demote_memory"} \subseteq Tools \ SkillTools
BY DEF Tools, SkillTools, StatusTools

LEMMA ProcessMemoryKeeps ==
    ASSUME RInv, NEW l \in LessonIds, NEW fields \in Writings, ProcessMemory(l, fields)
    PROVE  RInv'
<1> DEFINE new == [fields |-> fields, demoted |-> 0]
           ls == Put(h.lesson, l, new)
           r == Record("process_memory", l, "none", "created")
<1>1. /\ MayApply("M") /\ h' = [h EXCEPT !.lesson = ls]
      /\ Applied("process_memory", l, "none", "created") /\ l \notin DOMAIN h.lesson
  BY DEF ProcessMemory, NewLesson
<1>2. new \in Lessons /\ "none" \in Values /\ "created" \in Values
  <2>1. fields \in [Fields -> Texts]
    BY RefinerAssumption
  <2> QED BY <2>1 DEF Lessons, Values
<1>3. DOMAIN ls = DOMAIN h.lesson \cup {l}
      /\ \A o \in DOMAIN ls : ls[o] = IF o = l THEN new ELSE h.lesson[o]
  BY DEF Put
<1> HIDE DEF ls, new
<1>4. DOMAIN ls \subseteq LessonIds /\ \A o \in DOMAIN ls : ls[o] \in Lessons
  BY <1>2, <1>3, LessonTypes
<1>5. FieldsFit(h.lesson, ls, "update_memory", r)
  <2>1. r.tool # "update_memory"
    BY RecordFields
  <2> HIDE DEF r
  <2> QED BY <1>1, <1>3, <2>1, FieldsUntouched
<1> QED BY <1>1, <1>2, <1>4, <1>5, MemoryTools, LessonKeeps

\* One lesson replaced by another of its kind.
LEMMA LessonReplaced ==
    ASSUME RInv, NEW l \in DOMAIN h.lesson, NEW new \in Lessons
    PROVE  LET ls == [h.lesson EXCEPT ![l] = new]
           IN  /\ DOMAIN ls \subseteq LessonIds
               /\ \A o \in DOMAIN ls : ls[o] \in Lessons
BY LessonTypes

LEMMA UpdateMemoryKeeps ==
    ASSUME RInv, NEW l \in LessonIds, NEW patch \in Patches, UpdateMemory(l, patch)
    PROVE  RInv'
<1> DEFINE was == h.lesson[l].fields
           now == Assign(was, patch, DOMAIN patch)
           new == [h.lesson[l] EXCEPT !.fields = now]
           ls == [h.lesson EXCEPT ![l] = new]
           before == Part(was, patch)
           r == Record("update_memory", l, before, patch)
<1>1. /\ MayApply("M") /\ l \in DOMAIN h.lesson /\ h' = [h EXCEPT !.lesson = ls]
      /\ Applied("update_memory", l, before, patch)
  BY DEF UpdateMemory
<1>2. was \in [Fields -> Texts] /\ h.lesson[l] \in Lessons
  BY <1>1, LessonTypes
<1>3. /\ now \in [Fields -> Texts]
      /\ \A f \in Fields : now[f] = IF f \in DOMAIN patch THEN patch[f] ELSE was[f]
      /\ \A f \in DOMAIN patch : before[f] = was[f]
      /\ patch \in Values /\ before \in Values
  BY <1>2, PatchFacts
<1> HIDE DEF now, before
<1>4. new \in Lessons /\ new.fields = now
  BY <1>2, <1>3 DEF Lessons
<1> HIDE DEF new
<1>5. DOMAIN ls \subseteq LessonIds /\ \A o \in DOMAIN ls : ls[o] \in Lessons
  BY <1>1, <1>4, LessonReplaced
<1>6. /\ DOMAIN ls = DOMAIN h.lesson /\ ls[l] = new
      /\ \A o \in DOMAIN h.lesson : o # l => ls[o] = h.lesson[o]
  BY <1>1
<1> HIDE DEF ls
<1>7. r.tool = "update_memory" /\ r.id = l /\ r.before = before /\ r.after = patch
  BY RecordFields
<1>8. FieldsFit(h.lesson, ls, "update_memory", r)
  <2> HIDE DEF r
  <2>1. ASSUME NEW o \in DOMAIN h.lesson, NEW f \in Fields
        PROVE  IF Names(r, "update_memory", o, f)
               THEN ls[o].fields[f] = r.after[f] /\ r.before[f] = h.lesson[o].fields[f]
               ELSE ls[o].fields[f] = h.lesson[o].fields[f]
    <3>1. CASE o = l
      BY <1>3, <1>4, <1>6, <1>7, <3>1 DEF Names
    <3>2. CASE o # l
      BY <1>6, <1>7, <3>2 DEF Names
    <3> QED BY <3>1, <3>2
  <2> QED BY <1>1, <1>6, <1>7, <2>1 DEF FieldsFit
<1> QED BY <1>1, <1>3, <1>5, <1>8, MemoryTools, LessonKeeps

LEMMA DemoteMemoryKeeps ==
    ASSUME RInv, NEW l \in LessonIds, DemoteMemory(l)
    PROVE  RInv'
<1> DEFINE new == [h.lesson[l] EXCEPT !.demoted = @ + 1]
           ls == [h.lesson EXCEPT ![l] = new]
           r == Record("demote_memory", l, h.lesson[l].demoted, h.lesson[l].demoted + 1)
<1>1. /\ MayApply("M") /\ l \in DOMAIN h.lesson /\ h' = [h EXCEPT !.lesson = ls]
      /\ Applied("demote_memory", l, h.lesson[l].demoted, h.lesson[l].demoted + 1)
  BY DEF DemoteMemory
<1>2. /\ new \in Lessons /\ new.fields = h.lesson[l].fields
      /\ h.lesson[l].demoted \in Values /\ h.lesson[l].demoted + 1 \in Values
  BY <1>1, LessonTypes DEF Values, Lessons
<1> HIDE DEF new
<1>3. DOMAIN ls \subseteq LessonIds /\ \A o \in DOMAIN ls : ls[o] \in Lessons
  BY <1>1, <1>2, LessonReplaced
<1>4. /\ DOMAIN ls = DOMAIN h.lesson
      /\ \A o \in DOMAIN h.lesson : ls[o].fields = h.lesson[o].fields
  BY <1>1, <1>2
<1> HIDE DEF ls
<1>5. FieldsFit(h.lesson, ls, "update_memory", r)
  <2>1. r.tool # "update_memory"
    BY RecordFields
  <2> HIDE DEF r
  <2> QED BY <1>4, <2>1, FieldsUntouched
<1> QED BY <1>1, <1>2, <1>3, <1>5, MemoryTools, LessonKeeps

\* A refused update of a lesson leaves every lesson as it was.
LEMMA RefuseUpdateKeeps ==
    ASSUME RInv, NEW l \in LessonIds, NEW patch \in Patches, NEW done \in SUBSET DOMAIN patch,
           RefuseUpdate(l, patch, done)
    PROVE  RInv'
<1> DEFINE was == h.lesson[l].fields
           now == Restored(Assign(was, patch, done), was, patch)
           new == [h.lesson[l] EXCEPT !.fields = now]
           ls == [h.lesson EXCEPT ![l] = new]
<1>1. /\ l \in DOMAIN h.lesson /\ h' = [h EXCEPT !.lesson = ls]
      /\ log' = log /\ UNCHANGED <<disk, saving, stage, count, applied>>
  BY DEF RefuseUpdate
<1>2. was \in [Fields -> Texts] /\ h.lesson[l] \in Lessons
  BY <1>1, LessonTypes
<1>3. now = was
  BY <1>2, RestoredFacts
<1> HIDE DEF now
<1>4. new \in Lessons /\ new.fields = was
  BY <1>2, <1>3 DEF Lessons
<1> HIDE DEF new
<1>5. DOMAIN ls \subseteq LessonIds /\ \A o \in DOMAIN ls : ls[o] \in Lessons
  BY <1>1, <1>4, LessonReplaced
<1>6. /\ DOMAIN ls = DOMAIN h.lesson
      /\ \A o \in DOMAIN h.lesson : ls[o].fields = h.lesson[o].fields
  BY <1>1, <1>4
<1> HIDE DEF ls
<1>7. WholeHarness(h') /\ h'.skill = h.skill /\ h'.lesson = ls /\ h'.section = h.section
  <2>1. /\ WholeHarness([h EXCEPT !.lesson = ls]) /\ [h EXCEPT !.lesson = ls].skill = h.skill
        /\ [h EXCEPT !.lesson = ls].lesson = ls
        /\ [h EXCEPT !.lesson = ls].section = h.section
    BY <1>5, InPass, LessonsReplaced
  <2> QED BY <1>1, <2>1
<1>8. Alike(h, h')
  <2>1. \A o \in DOMAIN h.skill : h.skill[o].n \in Nat
    BY InPass, SkillTypes
  <2> QED BY <1>6, <1>7, <2>1 DEF Alike
<1> QED BY <1>1, <1>7, <1>8, AlikeKeeps

LEMMA RewriteDoctrineKeeps ==
    ASSUME RInv, NEW d \in Sections, NEW text \in NewTexts, RewriteDoctrine(d, text)
    PROVE  RInv'
<1> DEFINE new == [h.section EXCEPT ![d] = text]
           r == Record("rewrite_doctrine", d, h.section[d], text)
<1>1. /\ MayApply("p") /\ h' = [h EXCEPT !.section = new]
      /\ Applied("rewrite_doctrine", d, h.section[d], text)
  BY DEF RewriteDoctrine
<1>2. h = [skill |-> h.skill, lesson |-> h.lesson, section |-> h.section] /\ HarnessOK(h)
  BY InPass DEF WholeHarness
<1>3. h.section \in [Sections -> Texts] /\ text \in Texts /\ h.section[d] \in Values
      /\ text \in Values
  BY <1>2 DEF HarnessOK, Texts, Values
<1>4. new \in [Sections -> Texts]
      /\ \A e \in Sections : new[e] = IF d = e THEN text ELSE h.section[e]
  BY <1>3
<1> HIDE DEF new
<1>5. h' = [skill |-> h.skill, lesson |-> h.lesson, section |-> new]
  BY <1>1, <1>2
<1>6. h'.skill = h.skill /\ h'.lesson = h.lesson /\ h'.section = new
  BY <1>5
<1>7. WholeHarness(h')
  <2>1. HarnessOK(h')
    BY <1>2, <1>4, <1>6 DEF HarnessOK
  <2> QED BY <1>5, <1>6, <2>1 DEF WholeHarness
<1>8. r \in Records
  BY <1>3 DEF Record, Records, Tools
<1>9. r.tool = "rewrite_doctrine" /\ r.id = d /\ r.after = text
  BY RecordFields
<1>10. "rewrite_doctrine" \in Tools \ SkillTools
  BY DEF Tools, SkillTools, StatusTools
<1>11. Fits(h, h', r)
  <2> HIDE DEF r
  <2>1. FieldsFit(h.lesson, h'.lesson, "update_memory", r)
    BY <1>6, <1>9, FieldsUntouched
  <2> QED BY <1>4, <1>6, <1>8, <1>9, <1>10, <2>1, InPass, OtherEdit
<1> QED BY <1>1, <1>7, <1>8, <1>11, InPass, EditKeeps

LEMMA TradedFacts ==
    ASSUME NEW k \in Skills, NEW advantage \in {-1, 1}
    PROVE  /\ Traded(k, advantage) \in Skills /\ Traded(k, advantage).n = k.n + 1
           /\ Traded(k, advantage).status = k.status /\ Traded(k, advantage).fields = k.fields
<1>1. k.n + 1 \in Nat /\ k.sum + advantage \in Int
  BY DEF Skills
<1>2. Traded(k, advantage) = [[k EXCEPT !.n = k.n + 1] EXCEPT !.sum = k.sum + advantage]
  BY DEF Traded, Skills
<1>3. [k EXCEPT !.n = k.n + 1] \in Skills
  BY <1>1 DEF Skills
<1> QED BY <1>1, <1>2, <1>3 DEF Skills

\* A credited trade is outside the log: only the statistics of a skill grow.
LEMMA CreditSkillKeeps ==
    ASSUME RInv, NEW s \in SkillIds, NEW advantage \in {-1, 1}, CreditSkill(s, advantage)
    PROVE  RInv'
<1> DEFINE new == Traded(Skill(s), advantage)
<1>1. /\ stage = "idle" /\ s \in DOMAIN h.skill
      /\ UNCHANGED <<log, disk, saving, stage, count, applied>>
  BY DEF CreditSkill
<1>2. /\ h.skill[s] \in Skills /\ h.skill[s].n \in Nat /\ h.skill[s].sum \in Int
      /\ \A o \in DOMAIN h.skill : h.skill[o].n \in Nat
      /\ DOMAIN h.skill \subseteq SkillIds
  BY <1>1, InPass, SkillTypes
<1>3. /\ new \in Skills /\ new.n = h.skill[s].n + 1 /\ new.status = h.skill[s].status
      /\ new.fields = h.skill[s].fields
  BY <1>2, TradedFacts DEF Skill
<1>4. h' = [h EXCEPT !.skill = [h.skill EXCEPT ![s] = new]]
  BY DEF CreditSkill
<1> HIDE DEF new
<1>5. /\ WholeHarness(h') /\ h'.lesson = h.lesson /\ h'.section = h.section
      /\ DOMAIN h'.skill = DOMAIN h.skill
      /\ h'.skill[s] = new /\ \A o \in DOMAIN h.skill : o # s => h'.skill[o] = h.skill[o]
  BY <1>1, <1>3, <1>4, InPass, SkillReplaced
<1>6. Alike(h, h')
  <2>1. \A o \in DOMAIN h.skill :
          /\ h'.skill[o].status = h.skill[o].status /\ h'.skill[o].fields = h.skill[o].fields
          /\ h'.skill[o].n = h.skill[o].n \/ h'.skill[o].n = h.skill[o].n + 1
    BY <1>3, <1>5
  <2> QED BY <1>2, <1>5, <2>1 DEF Alike
<1> QED BY <1>1, <1>5, <1>6, AlikeKeeps

\* A checkpoint is in the making: only its temporary file is there.
LEMMA WriteTmpKeeps ==
    ASSUME RInv, WriteTmp
    PROVE  RInv'
<1>1. /\ stage = "idle" /\ saving' = NextVersion /\ stage' = "saving"
      /\ h' = h /\ log' = log /\ disk' = disk /\ count' = count /\ applied' = applied
  BY DEF WriteTmp
<1>2. Numbered' /\ GoodFiles' /\ NextVersion' = NextVersion
  BY <1>1, DiskUnchanged DEF RInv
<1>3. Counters'
  BY <1>1, <1>2 DEF RInv, Counters
<1>4. OnCheckpoint'
  BY <1>1 DEF OnCheckpoint, Passes
<1>5. Good(h', log')
  BY <1>1 DEF RInv
<1> QED BY <1>2, <1>3, <1>4, <1>5 DEF RInv

\* The checkpoint is there, under the next number, and the refine begins on it.
LEMMA ReplaceKeeps ==
    ASSUME RInv, Replace
    PROVE  RInv' /\ \A v \in Versions : v \in Versions' /\ disk'[v] = disk[v]
<1> DEFINE file == [whole |-> TRUE, harness |-> h, log |-> log]
<1>1. /\ stage = "saving" /\ disk' = Put(disk, saving, file)
      /\ saving' = NoVersion /\ stage' = "p" /\ count' = 0 /\ applied' = 0
      /\ h' = h /\ log' = log
  BY DEF Replace, Snapshot
<1>2. file.whole /\ file.harness = h /\ file.log = log
  OBVIOUS
<1> HIDE DEF file
<1>3. PICK k \in Nat : Versions = 0 .. k - 1
  BY DEF RInv, Numbered
<1>4. saving = k
  BY <1>1, <1>3, VersionNumbers DEF RInv, Counters
<1>5. Versions' = Versions \cup {k} /\ disk'[k] = file
      /\ \A v \in Versions : v # k /\ disk'[v] = disk[v]
  BY <1>1, <1>3, <1>4 DEF Put, Versions
<1>6. Versions' = 0 .. (k + 1) - 1 /\ k + 1 \in Nat
  BY <1>3, <1>5
<1>7. NextVersion' = k + 1 /\ Latest' = k /\ Latest' \in Versions'
  <2>1. Latest' = IF Versions' = {} THEN NoVersion ELSE Max(Versions')
    BY DEF Latest
  <2>2. Versions' \subseteq 0 .. k /\ k \in Versions'
    BY <1>6
  <2>3. Max(Versions') \in Versions' /\ \A v \in Versions' : v <= Max(Versions')
    BY <2>2, GreatestElement
  <2>4. Max(Versions') = k
    <3>1. Max(Versions') \in 0 .. k /\ k <= Max(Versions')
      BY <2>2, <2>3
    <3> QED BY <3>1
  <2>5. Latest' = k
    BY <2>1, <2>2, <2>4
  <2> QED BY <2>2, <2>5 DEF NextVersion
<1>8. Good(h', log')
  BY <1>1 DEF RInv
<1>9. Numbered'
  BY <1>6 DEF Numbered
<1>10. GoodFiles'
  <2> SUFFICES ASSUME NEW v \in Versions'
               PROVE  disk'[v].whole /\ Good(disk'[v].harness, disk'[v].log)
      BY DEF GoodFiles
  <2>1. CASE v \in Versions
    BY <1>5, <2>1 DEF RInv, GoodFiles
  <2>2. CASE v = k
    <3>1. disk'[v] = file
      BY <1>5, <2>2
    <3> QED BY <1>2, <3>1 DEF RInv
  <2> QED BY <1>5, <2>1, <2>2
<1>11. Counters'
  BY <1>1, RefinerAssumption DEF Counters, Passes
<1>12. OnCheckpoint'
  <2>1. log \in Seq(Records) /\ SubSeq(log, 1, Len(log)) = log /\ Len(log) \in Nat
    BY PrefixWhole DEF RInv, Good
  <2>2. disk'[Latest'].log = log /\ disk'[Latest'].harness = h
    BY <1>2, <1>5, <1>7
  <2>3. Len(log') = Len(log) + applied'
    BY <1>1, <2>1
  <2>4. SinceCheckpoint' = << >>
    <3>1. SubSeq(log, Len(log) + 1, Len(log)) = << >>
      BY <2>1
    <3> QED BY <1>1, <2>2, <3>1 DEF SinceCheckpoint
  <2>5. Leads(disk'[Latest'].harness, SinceCheckpoint', h')
    BY <1>1, <2>2, <2>4, LeadsToItself
  <2> QED BY <1>1, <1>7, <2>1, <2>2, <2>3, <2>5 DEF OnCheckpoint
<1> QED BY <1>5, <1>8, <1>9, <1>10, <1>11, <1>12 DEF RInv

\* From pass to pass the edits of the refine go on being counted.
LEMMA EndPassKeeps ==
    ASSUME RInv, EndPass
    PROVE  RInv'
<1>1. /\ stage \in Passes /\ count' = 0 /\ applied' = (IF stage = "M" THEN 0 ELSE applied)
      /\ h' = h /\ log' = log /\ disk' = disk /\ saving' = saving
  BY DEF EndPass
<1>2. /\ stage' \in {"K", "M", "idle"} /\ (stage' # "idle" => stage # "M")
  BY <1>1 DEF EndPass, Passes
<1>3. Numbered' /\ GoodFiles' /\ Latest' = Latest /\ Versions' = Versions
  BY <1>1, DiskUnchanged DEF RInv
<1>4. Good(h', log')
  BY <1>1 DEF RInv
<1>5. Counters'
  <2>1. stage # "saving" /\ stage' # "saving" /\ stage' \in Passes \cup {"idle", "saving"}
    BY <1>1, <1>2 DEF Passes
  <2>2. applied' \in 0 .. MaxPerRefine /\ count' \in 0 .. MaxPerPass
    BY <1>1, RefinerAssumption DEF RInv, Counters
  <2> QED BY <1>1, <2>1, <2>2 DEF RInv, Counters
<1>6. OnCheckpoint'
  <2> SUFFICES ASSUME stage' \in Passes
               PROVE  /\ Latest' \in Versions'
                      /\ Len(log') = Len(disk'[Latest'].log) + applied'
                      /\ disk'[Latest'].log = SubSeq(log', 1, Len(disk'[Latest'].log))
                      /\ Leads(disk'[Latest'].harness, SinceCheckpoint', h')
      BY DEF OnCheckpoint
  <2>1. applied' = applied /\ SinceCheckpoint' = SinceCheckpoint
    BY <1>1, <1>2, <1>3 DEF Passes, SinceCheckpoint
  <2> QED BY <1>1, <1>3, <2>1 DEF RInv, OnCheckpoint
<1> QED BY <1>3, <1>4, <1>5, <1>6 DEF RInv

\* A rollback makes a pair of the disk the live one.
LEMMA RollbackToKeeps ==
    ASSUME RInv, NEW v \in Versions, RollbackTo(v)
    PROVE  RInv'
<1>1. /\ stage = "idle" /\ h' = disk[v].harness /\ log' = disk[v].log
      /\ disk' = disk /\ saving' = saving /\ stage' = stage /\ count' = count
      /\ applied' = applied
  BY DEF RollbackTo
<1>2. Numbered' /\ GoodFiles' /\ NextVersion' = NextVersion
  BY <1>1, DiskUnchanged DEF RInv
<1>3. Good(h', log')
  BY <1>1 DEF RInv, GoodFiles
<1>4. Counters'
  BY <1>1, <1>2 DEF RInv, Counters
<1>5. OnCheckpoint'
  BY <1>1 DEF OnCheckpoint, Passes
<1> QED BY <1>2, <1>3, <1>4, <1>5 DEF RInv

\* The seed and an empty log are a good pair.
LEMMA SeedIsGood == Good(SeedHarness, << >>)
<1> DEFINE x == SeedHarness
           lg == << >>
<1>1. lg \in Seq(Records) /\ Len(lg) = 0 /\ 1 .. Len(lg) = {}
  OBVIOUS
<1>2. /\ x.skill = [s \in SeedSkills |-> NewSkill("active", SeedFields)] 
      /\ x.lesson = [l \in SeedLessons |-> NewLesson(SeedFields)]
      /\ x.section = [d \in Sections |-> SeedText]
      /\ x = [skill |-> x.skill, lesson |-> x.lesson, section |-> x.section]
  BY DEF SeedHarness
<1>3. NewSkill("active", SeedFields) \in Skills /\ NewLesson(SeedFields) \in Lessons
  <2>1. SeedFields \in [Fields -> Texts]
    BY DEF SeedFields, Texts
  <2> QED BY <2>1 DEF NewSkill, Skills, Statuses, NewLesson, Lessons
<1>4. Leads(x, lg, x)
  BY LeadsToItself
<1> HIDE DEF x, lg
<1>5. WholeHarness(x)
  <2>1. DOMAIN x.skill \subseteq SkillIds /\ \A s \in DOMAIN x.skill : x.skill[s] \in Skills
    BY <1>2, <1>3, RefinerAssumption
  <2>2. DOMAIN x.lesson \subseteq LessonIds /\ \A l \in DOMAIN x.lesson : x.lesson[l] \in Lessons
    BY <1>2, <1>3, RefinerAssumption
  <2>3. x.section \in [Sections -> Texts]
    BY <1>2 DEF Texts
  <2> QED BY <1>2, <2>1, <2>2, <2>3 DEF WholeHarness, HarnessOK
<1>6. Backed(x, lg)
  BY <1>1 DEF Backed
<1> QED BY <1>1, <1>4, <1>5, <1>6 DEF Good, x, lg

\* The death of the process: the seed and an empty log, over the same snapshots.
LEMMA DieKeeps ==
    ASSUME RInv, Die
    PROVE  RInv'
<1>1. /\ h' = SeedHarness /\ log' = << >> /\ stage' = "idle" /\ saving' = NoVersion
      /\ count' = 0 /\ applied' = 0 /\ disk' = disk
  BY DEF Die
<1>2. Numbered' /\ GoodFiles'
  BY <1>1, DiskUnchanged DEF RInv
<1>3. Good(h', log')
  BY <1>1, SeedIsGood
<1>4. Counters' /\ OnCheckpoint'
  BY <1>1, RefinerAssumption DEF Counters, OnCheckpoint, Passes
<1> QED BY <1>2, <1>3, <1>4 DEF RInv

------------------------------------------------------------------------------
(* The invariant *)

LEMMA InitRInv == RefinerInit => RInv
<1> SUFFICES ASSUME RefinerInit PROVE RInv
    OBVIOUS
<1>1. /\ h = SeedHarness /\ log = << >> /\ disk = << >> /\ saving = NoVersion
      /\ stage = "idle" /\ count = 0 /\ applied = 0
  BY DEF RefinerInit
<1>2. Versions = {}
  BY <1>1 DEF Versions
<1>3. Numbered
  <2>1. Versions = 0 .. 0 - 1 /\ 0 \in Nat
    BY <1>2
  <2> QED BY <2>1 DEF Numbered
<1>4. Good(h, log)
  BY <1>1, SeedIsGood
<1>5. GoodFiles
  BY <1>2 DEF GoodFiles
<1>6. Counters /\ OnCheckpoint
  BY <1>1, RefinerAssumption DEF Counters, OnCheckpoint, Passes
<1> QED BY <1>3, <1>4, <1>5, <1>6 DEF RInv

LEMMA StutterRInv ==
    ASSUME RInv, UNCHANGED vars
    PROVE  RInv'
<1>1. /\ h' = h /\ log' = log /\ disk' = disk /\ saving' = saving /\ stage' = stage
      /\ count' = count /\ applied' = applied
  BY DEF vars
<1>2. Numbered' /\ GoodFiles' /\ NextVersion' = NextVersion /\ Latest' = Latest
      /\ Versions' = Versions
  BY <1>1, DiskUnchanged DEF RInv
<1>3. Good(h', log')
  BY <1>1 DEF RInv
<1>4. Counters'
  BY <1>1, <1>2 DEF RInv, Counters
<1>5. OnCheckpoint'
  <2>1. SinceCheckpoint' = SinceCheckpoint
    BY <1>1, <1>2 DEF SinceCheckpoint
  <2> QED BY <1>1, <1>2, <2>1 DEF RInv, OnCheckpoint
<1> QED BY <1>2, <1>3, <1>4, <1>5 DEF RInv

\* Every step keeps the invariant, and every snapshot as it is.
LEMMA NextRInv ==
    ASSUME RInv, [RefinerNext]_vars
    PROVE  RInv' /\ \A v \in Versions : v \in Versions' /\ disk'[v] = disk[v]
<1> DEFINE Kept2 == \A v \in Versions : v \in Versions' /\ disk'[v] = disk[v]
<1>1. UNCHANGED disk => Kept2
  BY DEF Versions
<1>2. ASSUME NEW s \in SkillIds, NEW fields \in Writings, WriteSkill(s, fields)
      PROVE  RInv' /\ Kept2
  BY <1>1, <1>2, WriteSkillKeeps DEF WriteSkill, Applied
<1>3. ASSUME NEW s \in SkillIds, ReviveSkill(s) PROVE RInv' /\ Kept2
  BY <1>1, <1>3, ReviveSkillKeeps DEF ReviveSkill, Applied
<1>4. ASSUME NEW s \in SkillIds, PromoteSkill(s) PROVE RInv' /\ Kept2
  BY <1>1, <1>4, PromoteSkillKeeps DEF PromoteSkill, Applied
<1>5. ASSUME NEW s \in SkillIds, NEW patch \in Patches, PatchSkill(s, patch)
      PROVE  RInv' /\ Kept2
  BY <1>1, <1>5, PatchSkillKeeps DEF PatchSkill, Applied
<1>6. ASSUME NEW s \in SkillIds, NEW permanent \in BOOLEAN, RetireSkill(s, permanent)
      PROVE  RInv' /\ Kept2
  <2>1. UNCHANGED disk
    BY <1>6 DEF RetireSkill, Applied
  <2> QED BY <1>1, <1>6, <2>1, RetireSkillKeeps
<1>7. ASSUME NEW s \in SkillIds, NEW advantage \in {-1, 1}, CreditSkill(s, advantage)
      PROVE  RInv' /\ Kept2
  BY <1>1, <1>7, CreditSkillKeeps DEF CreditSkill
<1>8. ASSUME NEW l \in LessonIds, NEW fields \in Writings, ProcessMemory(l, fields)
      PROVE  RInv' /\ Kept2
  BY <1>1, <1>8, ProcessMemoryKeeps DEF ProcessMemory, Applied
<1>9. ASSUME NEW l \in LessonIds, DemoteMemory(l) PROVE RInv' /\ Kept2
  BY <1>1, <1>9, DemoteMemoryKeeps DEF DemoteMemory, Applied
<1>10. ASSUME NEW l \in LessonIds, NEW patch \in Patches, UpdateMemory(l, patch)
       PROVE  RInv' /\ Kept2
  BY <1>1, <1>10, UpdateMemoryKeeps DEF UpdateMemory, Applied
<1>11. ASSUME NEW d \in Sections, NEW text \in NewTexts, RewriteDoctrine(d, text)
       PROVE  RInv' /\ Kept2
  BY <1>1, <1>11, RewriteDoctrineKeeps DEF RewriteDoctrine, Applied
<1>12. ASSUME WriteTmp PROVE RInv' /\ Kept2
  BY <1>1, <1>12, WriteTmpKeeps DEF WriteTmp
<1>13. ASSUME Replace PROVE RInv' /\ Kept2
  BY <1>13, ReplaceKeeps
<1>14. ASSUME EndPass PROVE RInv' /\ Kept2
  BY <1>1, <1>14, EndPassKeeps DEF EndPass
<1>15. ASSUME Die PROVE RInv' /\ Kept2
  BY <1>1, <1>15, DieKeeps DEF Die
<1>16. ASSUME NEW v \in Versions, RollbackTo(v) PROVE RInv' /\ Kept2
  BY <1>1, <1>16, RollbackToKeeps DEF RollbackTo
<1>17. ASSUME UNCHANGED vars PROVE RInv' /\ Kept2
  BY <1>1, <1>17, StutterRInv DEF vars
<1>18. ASSUME NEW s \in SkillIds, NEW patch \in Patches, NEW done \in SUBSET DOMAIN patch,
              RefusePatch(s, patch, done)
       PROVE  RInv' /\ Kept2
  <2>1. UNCHANGED disk
    BY <1>18 DEF RefusePatch
  <2> QED BY <1>1, <1>18, <2>1, RefusePatchKeeps
<1>19. ASSUME NEW l \in LessonIds, NEW patch \in Patches, NEW done \in SUBSET DOMAIN patch,
              RefuseUpdate(l, patch, done)
       PROVE  RInv' /\ Kept2
  <2>1. UNCHANGED disk
    BY <1>19 DEF RefuseUpdate
  <2> QED BY <1>1, <1>19, <2>1, RefuseUpdateKeeps
<1> HIDE DEF Kept2
<1>20. RInv' /\ Kept2
  BY <1>2, <1>3, <1>4, <1>5, <1>6, <1>7, <1>8, <1>9, <1>10, <1>11, <1>12, <1>13, <1>14, <1>15,
     <1>16, <1>17, <1>18, <1>19 DEF RefinerNext
<1> QED BY <1>20 DEF Kept2

THEOREM AlwaysRInv == RefinerSpec => []RInv
<1>1. RInv /\ [RefinerNext]_vars => RInv'
  BY NextRInv
<1> QED BY <1>1, InitRInv, PTL DEF RefinerSpec

------------------------------------------------------------------------------
(* The theorems *)

\* Harness, snapshots and counters are well typed, and versions have no gap, for
\* any number of skills, edits, snapshots and deaths.
THEOREM RefinerTypeCorrect == RefinerSpec => []RefinerTypeOK
<1>1. RInv => RefinerTypeOK
  <2> SUFFICES ASSUME RInv PROVE RefinerTypeOK
      OBVIOUS
  <2>1. PICK k \in Nat : Versions = 0 .. k - 1
    BY DEF RInv, Numbered
  <2>2. Versions = 0 .. Cardinality(Versions) - 1
    <3>1. 0 \in Int /\ k - 1 \in Int /\ k - 1 - 0 + 1 = k /\ (0 > k - 1 <=> k = 0)
      BY <2>1
    <3>2. Cardinality(0 .. k - 1) = IF 0 > k - 1 THEN 0 ELSE k - 1 - 0 + 1
      BY <3>1, FS_Interval
    <3>3. Cardinality(Versions) = k
      BY <2>1, <3>1, <3>2
    <3> QED BY <2>1, <3>3
  <2>3. HarnessOK(h) /\ Len(log) \in Nat
    <3>1. log \in Seq(Records)
      BY DEF RInv, Good
    <3> QED BY <3>1, InPass
  <2>4. \A v \in Versions : HarnessOK(disk[v].harness)
    BY DEF RInv, GoodFiles, Good, WholeHarness
  <2>5. /\ saving \in {NoVersion} \cup Nat /\ (stage = "saving" <=> saving # NoVersion)
        /\ stage \in Passes \cup {"idle", "saving"}
        /\ count \in 0 .. MaxPerPass /\ applied \in 0 .. MaxPerRefine
    <3>1. NextVersion \in Nat /\ NextVersion # NoVersion
      BY <2>1, VersionNumbers DEF NoVersion
    <3> QED BY <3>1 DEF RInv, Counters
  <2> QED BY <2>2, <2>3, <2>4, <2>5 DEF RefinerTypeOK
<1> QED BY <1>1, AlwaysRInv, PTL

\* The pairs of harness and log that a rollback can bring back are good.
LEMMA KeptIsGood ==
    ASSUME RInv, NEW x \in Kept
    PROVE  Good(x.harness, x.log) /\ DOMAIN x.log = 1 .. Len(x.log)
<1>1. \/ x.harness = h /\ x.log = log
      \/ \E v \in Versions : x.harness = disk[v].harness /\ x.log = disk[v].log
  BY DEF Kept
<1>2. Good(x.harness, x.log)
  BY <1>1 DEF RInv, GoodFiles
<1>3. x.log \in Seq(Records)
  BY <1>2 DEF Good
<1> QED BY <1>2, <1>3

\* The audit log explains the harness, in memory and in every snapshot, over any
\* order of edits, refusals, credits, checkpoints, rollbacks and deaths; and during a
\* refine the records since its checkpoint lead from there to the live harness.
THEOREM LogAlwaysExplains == RefinerSpec => []LogExplainsHarness
<1>1. RInv => LogExplainsHarness
  <2> SUFFICES ASSUME RInv PROVE LogExplainsHarness
      OBVIOUS
  <2>1. ASSUME NEW x \in Kept PROVE Explains(SeedHarness, x.log, x.harness)
    <3>1. Good(x.harness, x.log)
      BY <2>1, KeptIsGood
    <3> QED BY <3>1 DEF Good, Leads
  <2>2. stage \in Passes => Explains(disk[Latest].harness, SinceCheckpoint, h)
    BY DEF RInv, OnCheckpoint, Leads
  <2> QED BY <2>1, <2>2 DEF LogExplainsHarness
<1> QED BY <1>1, AlwaysRInv, PTL

\* No order of writes, revivals, rollbacks and deaths leaves a promotion or a
\* retirement without the trades that its gate asks for.
THEOREM EvidenceAlwaysBehind == RefinerSpec => []EvidenceBehindTheLog
<1>1. RInv => EvidenceBehindTheLog
  <2> SUFFICES ASSUME RInv, NEW x \in Kept, NEW i \in DOMAIN x.log
               PROVE  /\ x.log[i].tool = "promote_skill"
                           => x.harness.skill[x.log[i].id].n >= MinPromote
                      /\ x.log[i].tool = "retire_skill"
                           => x.harness.skill[x.log[i].id].n >= MinRetire
      BY DEF EvidenceBehindTheLog
  <2>1. Good(x.harness, x.log) /\ i \in 1 .. Len(x.log)
    BY KeptIsGood
  <2> QED BY <2>1 DEF Good, Backed
<1> QED BY <1>1, AlwaysRInv, PTL

\* A refine stays within its cap of the checkpoint it began with, which is the
\* latest version: rolling back to it undoes the whole refine.
THEOREM RefinesAreBounded == RefinerSpec => []RefineIsBounded
<1>1. RInv => RefineIsBounded
  <2> SUFFICES ASSUME RInv, stage \in Passes
               PROVE  LET base == disk[Latest].log
                      IN  /\ Len(base) <= Len(log) /\ base = SubSeq(log, 1, Len(base))
                          /\ Len(log) - Len(base) <= MaxPerRefine
      BY DEF RefineIsBounded
  <2> DEFINE base == disk[Latest].log
  <2>1. /\ Len(log) = Len(base) + applied /\ base = SubSeq(log, 1, Len(base))
        /\ base \in Seq(Records) /\ applied \in 0 .. MaxPerRefine
    BY DEF RInv, OnCheckpoint, GoodFiles, Good, Counters
  <2>2. MaxPerRefine \in Nat
    BY RefinerAssumption
  <2> HIDE DEF base
  <2>3. Len(base) \in Nat /\ applied \in Nat /\ applied <= MaxPerRefine
    BY <2>1, <2>2
  <2>4. Len(base) <= Len(log) /\ Len(log) - Len(base) <= MaxPerRefine
    BY <2>1, <2>2, <2>3
  <2> QED BY <2>1, <2>4 DEF base
<1> QED BY <1>1, AlwaysRInv, PTL

\* Wherever the process dies, a file that has the name of a version is whole.
THEOREM SnapshotsAlwaysWhole == RefinerSpec => []SnapshotsAreWhole
<1>1. RInv => SnapshotsAreWhole
  BY DEF RInv, GoodFiles, SnapshotsAreWhole
<1> QED BY <1>1, AlwaysRInv, PTL

\* A version once saved is never written again, by this process or a later one.
THEOREM VersionsStayFinal == RefinerSpec => VersionsAreFinal
<1>1. RInv /\ [RefinerNext]_vars
        => [\A v \in Versions : v \in Versions' /\ disk'[v] = disk[v]]_disk
  BY NextRInv
<1> QED BY <1>1, AlwaysRInv, PTL DEF RefinerSpec, VersionsAreFinal
=============================================================================
