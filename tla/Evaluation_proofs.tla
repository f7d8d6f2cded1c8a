-------------------------- MODULE Evaluation_proofs --------------------------
(***************************************************************************)
(* The properties of WalkForward hold for every market and revision, any   *)
(* windows, codes, policies and answers, and any number of jobs: captured  *)
(* windows are whole, walks are loud or whole, the history of an engine is *)
(* the past, a recorded walk is retold, outcomes are what the market did,  *)
(* the average of the pool has no excess over the pool, and the reports on *)
(* a walk tell of the same trades.                                         *)
(*                                                                         *)
(* The argument: files of pools are never replaced (`has` skips them), so  *)
(* whatever was read of a whole day can be read again.  A walk is tied to  *)
(* its place: EngineAt says what the engine of a walk is on its i-th day,  *)
(* guard and history included.  Entries of the cache are never replaced    *)
(* either, and the prompt of a day depends on the stored days up to it and *)
(* on the phase that was answered the day before: so the phases of a       *)
(* recorded walk (its Trail) determine those of every later one.  A        *)
(* decision stays pending until its last holding day (ScoreInv), and is    *)
(* then judged by what the snapshot shows of the days held, candidates and *)
(* baseline by one measure.  The accounts of a trajectory are sums and     *)
(* counts over one set of trades, blocked by day, skill or pattern.        *)
(***************************************************************************)
EXTENDS Evaluation, DataLemmas, TLAPS

IsRecord(r, fields) == DOMAIN r = fields

NDays(w) == w[2] - w[1] + 1

\* The k-th day of a window.
Day(w, k) == w[1] + k - 1

\* What the snapshot shows of each day, and the days that it has whole.
Shown == [d \in Nat |-> PoolsOn(d)]

Stored == {d \in Nat : HasPools(d)}

------------------------------------------------------------------------------
(* The invariant *)

\* The sentiment of the first n days.
Past(shown, w, n) == [k \in 1 .. n |-> RawSentiment(shown[Day(w, k)])]

\* The engine on the i-th day of its window, after looking at n days.
EngineFields == {"days", "i", "as_of", "history", "recorded"}

EngineAt(e, shown, w, i, n) ==
    /\ IsRecord(e, EngineFields)
    /\ e.days = TradingDays(w) /\ e.i = i /\ e.as_of = Day(w, i)
    /\ e.history = Past(shown, w, n) /\ e.recorded = 1 .. n

PoolsAreCoded == \A f \in DOMAIN pools : CodesOf(pools[f]) \subseteq Codes

BarsAreOfWindows ==
    \A c \in DOMAIN ohlcv :
        /\ ohlcv[c] = << >> => c \in Unlisted
        /\ ohlcv[c] # << >> => \E w \in begun : DOMAIN ohlcv[c] = w[1] .. w[2]

\* What a capture has gone through is stored, and its codes are collected.
CaptureIsAt ==
    job.kind = "capture" =>
        /\ IsRecord(job, {"kind", "window", "at", "codes"})
        /\ job.window \in begun
        /\ job.at \in 1 .. PoolItems(job.window) + 1
        /\ job.codes \subseteq Codes
        /\ \A n \in 1 .. job.at - 1 :
              /\ Item(job.window, n) \in DOMAIN pools
              /\ CodesOf(pools[Item(job.window, n)]) \subseteq job.codes

CapturedAreWhole ==
    /\ captured \subseteq begun /\ begun \subseteq Windows
    /\ \A w \in captured : IsWhole(w) /\ CodesStored(w) \subseteq DOMAIN ohlcv

WalkFields == {"kind", "window", "arm", "scorer", "horizon", "engine", "prior", "state",
               "universe", "drafts", "pending", "stage"}

Stages == {"observe", "decide", "settle", "ended", "snapshot", "cache_miss"}

BeforeLook == {"observe", "snapshot"}

BeforeDecision == {"observe", "snapshot", "decide", "cache_miss"}

Looked == IF job.stage \in BeforeLook THEN job.engine.i - 1 ELSE job.engine.i

Drafted == IF job.stage \in BeforeDecision THEN job.engine.i - 1 ELSE job.engine.i

\* A walk is a matter of its window and the day it has come to.
WalkIsAt ==
    job.kind = "walk" =>
        /\ IsRecord(job, WalkFields)
        /\ job.window \in Windows /\ job.horizon \in Nat /\ job.stage \in Stages
        /\ job.engine.i \in 1 .. NDays(job.window)
        /\ EngineAt(job.engine, Shown, job.window, job.engine.i, Looked)
        /\ \A k \in 1 .. Looked : Day(job.window, k) \in Stored
        /\ job.drafts \in Seq({job.drafts[j] : j \in DOMAIN job.drafts})
        /\ Len(job.drafts) = Drafted
        /\ job.pending \subseteq 1 .. Drafted
        /\ \A j \in 1 .. Drafted : /\ DOMAIN job.drafts[j] = Draft
                                   /\ job.drafts[j].day = Day(job.window, j)
        /\ job.stage = "ended" => job.engine.i = NDays(job.window)
        /\ job.stage = "snapshot" => ~IsWhole(job.window)
        /\ job.stage = "cache_miss" => job.arm = "llm_read_only"

\* A session that left no day without a look is where a walk would be.
SessionIsAt ==
    job.kind = "session" =>
        /\ IsRecord(job, {"kind", "engine", "skipped"})
        /\ job.skipped \in BOOLEAN
        /\ ~job.skipped =>
              \E w \in Windows, i \in Nat, n \in Nat :
                  /\ i \in 1 .. NDays(w) /\ n \in {i - 1, i}
                  /\ EngineAt(job.engine, Shown, w, i, n)

KindIsKnown == job.kind \in {"none", "capture", "walk", "session"}

PlaceInv ==
    /\ PoolsAreCoded /\ BarsAreOfWindows /\ CaptureIsAt /\ CapturedAreWhole
    /\ WalkIsAt /\ SessionIsAt /\ KindIsKnown

------------------------------------------------------------------------------
(* Days and engines *)

LEMMA WindowIsCounted ==
    ASSUME NEW w \in Windows
    PROVE  /\ w[1] \in Nat /\ w[2] \in Nat /\ w[1] >= 1 /\ w[1] <= w[2]
           /\ NDays(w) \in Nat /\ NDays(w) >= 1
<1>1. w[1] \in Nat /\ w[2] \in Nat /\ w[1] >= 1 /\ w[1] <= w[2]
  BY WindowsAssumption
<1> QED BY <1>1 DEF NDays

LEMMA DaysOfWindow ==
    ASSUME NEW w \in Windows
    PROVE  /\ TradingDays(w) \in Seq(Nat)
           /\ Len(TradingDays(w)) = NDays(w)
           /\ DOMAIN TradingDays(w) = 1 .. NDays(w)
           /\ \A k \in 1 .. NDays(w) : TradingDays(w)[k] = Day(w, k) /\ Day(w, k) \in Nat
<1>1. w[1] \in Nat /\ w[2] \in Nat /\ w[1] >= 1 /\ NDays(w) \in Nat
  BY WindowIsCounted
<1>2. TradingDays(w) = [k \in 1 .. NDays(w) |-> Day(w, k)]
  BY <1>1 DEF TradingDays, NDays, Day
<1>3. \A k \in 1 .. NDays(w) : Day(w, k) \in Nat
  BY <1>1 DEF Day
<1>4. TradingDays(w) \in [1 .. NDays(w) -> Nat]
  BY <1>2, <1>3
<1>5. TradingDays(w) \in Seq(Nat) /\ Len(TradingDays(w)) = NDays(w)
  BY <1>1, <1>4
<1> QED BY <1>2, <1>3, <1>5

\* The days of a window, counted or dated.
LEMMA DayOfWindow ==
    ASSUME NEW w \in Windows, NEW d
    PROVE  d \in w[1] .. w[2] <=> \E k \in 1 .. NDays(w) : d = Day(w, k)
<1>1. w[1] \in Nat /\ w[2] \in Nat /\ w[1] >= 1 /\ w[1] <= w[2]
  BY WindowIsCounted
<1>2. ASSUME d \in w[1] .. w[2] PROVE d - w[1] + 1 \in 1 .. NDays(w) /\ d = Day(w, d - w[1] + 1)
  BY <1>1, <1>2 DEF NDays, Day
<1>3. ASSUME NEW k \in 1 .. NDays(w), d = Day(w, k) PROVE d \in w[1] .. w[2]
  BY <1>1, <1>3 DEF NDays, Day
<1> QED BY <1>2, <1>3

LEMMA PastTyped ==
    ASSUME NEW shown, NEW w, NEW n \in Nat,
           NEW S, \A k \in 1 .. n : RawSentiment(shown[Day(w, k)]) \in S
    PROVE  /\ Past(shown, w, n) \in Seq(S)
           /\ Len(Past(shown, w, n)) = n /\ DOMAIN Past(shown, w, n) = 1 .. n
           /\ \A k \in 1 .. n : Past(shown, w, n)[k] = RawSentiment(shown[Day(w, k)])
<1>1. Past(shown, w, n) \in [1 .. n -> S]
  BY DEF Past
<1> QED BY <1>1 DEF Past

\* One more day is looked at.
LEMMA PastGrows ==
    ASSUME NEW shown, NEW w, NEW n \in Nat
    PROVE  Append(Past(shown, w, n), RawSentiment(shown[Day(w, n + 1)])) = Past(shown, w, n + 1)
<1> DEFINE S == {RawSentiment(shown[Day(w, k)]) : k \in 1 .. n + 1}
           s == Append(Past(shown, w, n), RawSentiment(shown[Day(w, n + 1)]))
<1>1. \A k \in 1 .. n + 1 : RawSentiment(shown[Day(w, k)]) \in S
  OBVIOUS
<1>2. n + 1 \in 1 .. n + 1 /\ \A k \in 1 .. n : k \in 1 .. n + 1
  OBVIOUS
<1> HIDE DEF S
<1>3. Past(shown, w, n) \in Seq(S) /\ Len(Past(shown, w, n)) = n
  BY <1>1, <1>2, PastTyped
<1>4. RawSentiment(shown[Day(w, n + 1)]) \in S
  BY <1>1, <1>2
<1>5. s \in Seq(S) /\ Len(s) = n + 1
  BY <1>3, <1>4
<1>6. \A k \in 1 .. n + 1 : s[k] = IF k = n + 1 THEN RawSentiment(shown[Day(w, n + 1)])
                               ELSE Past(shown, w, n)[k]
  BY <1>3, <1>4
<1>7. \A k \in 1 .. n + 1 : k # n + 1 => Past(shown, w, n)[k] = RawSentiment(shown[Day(w, k)])
  BY DEF Past
<1>8. \A k \in 1 .. n + 1 : s[k] = RawSentiment(shown[Day(w, k)])
  BY <1>6, <1>7
<1> HIDE DEF s
<1>9. s = [k \in 1 .. n + 1 |-> s[k]]
  BY <1>5
<1>10. s = Past(shown, w, n + 1)
  BY <1>8, <1>9 DEF Past
<1> QED BY <1>10 DEF s

\* The first days of more days.
LEMMA PastCut ==
    ASSUME NEW shown, NEW w, NEW n \in Nat, NEW m \in 0 .. n
    PROVE  SubSeq(Past(shown, w, n), 1, m) = Past(shown, w, m)
<1> DEFINE S == {RawSentiment(shown[Day(w, k)]) : k \in 1 .. n}
           s == SubSeq(Past(shown, w, n), 1, m)
<1>0. \A k \in 1 .. n : RawSentiment(shown[Day(w, k)]) \in S
  OBVIOUS
<1> HIDE DEF S
<1>1. Past(shown, w, n) \in Seq(S) /\ Len(Past(shown, w, n)) = n
  BY <1>0, PastTyped
<1>2. s \in Seq(S) /\ Len(s) = m
  BY <1>1
<1>3. \A k \in 1 .. m : s[k] = Past(shown, w, n)[k]
  BY <1>1
<1>4. \A k \in 1 .. m : Past(shown, w, n)[k] = RawSentiment(shown[Day(w, k)])
  BY DEF Past
<1> HIDE DEF s
<1>5. s = [k \in 1 .. m |-> s[k]]
  BY <1>2
<1>6. s = Past(shown, w, m)
  BY <1>3, <1>4, <1>5 DEF Past
<1> QED BY <1>6 DEF s

------------------------------------------------------------------------------
(* The files *)

\* What is stored stays as it was stored.
FilesKept == \A f \in DOMAIN pools : f \in DOMAIN pools' /\ pools'[f] = pools[f]

BarsKept == DOMAIN ohlcv \subseteq DOMAIN ohlcv'

LEMMA KindsAre == Kinds = {"zt", "prev", "blowup", "dt"} /\ Len(KindSeq) = 4
<1>1. DOMAIN KindSeq = {1, 2, 3, 4} /\ Len(KindSeq) = 4
  BY DEF KindSeq
<1>2. KindSeq[1] = "zt" /\ KindSeq[2] = "prev" /\ KindSeq[3] = "blowup" /\ KindSeq[4] = "dt"
  BY DEF KindSeq
<1> QED BY <1>1, <1>2 DEF Kinds

LEMMA PutIs ==
    ASSUME NEW files, NEW name, NEW content
    PROVE  /\ DOMAIN Put(files, name, content) = DOMAIN files \cup {name}
           /\ Put(files, name, content)[name] = content
           /\ \A f \in DOMAIN files : f # name => Put(files, name, content)[f] = files[f]
BY DEF Put

\* A whole day that is kept is read as before.
LEMMA DayIsKept ==
    ASSUME FilesKept, NEW day \in Stored
    PROVE  day \in Stored' /\ Shown'[day] = Shown[day]
<1>1. \A kind \in Kinds : <<kind, day>> \in DOMAIN pools /\ <<kind, day>> \in DOMAIN pools'
                          /\ pools'[<<kind, day>>] = pools[<<kind, day>>]
  BY DEF FilesKept, HasPools, Stored
<1>2. \A kind \in Kinds : ReadPool(kind, day)' = ReadPool(kind, day)
  BY <1>1 DEF ReadPool
<1>3. PoolsOn(day)' = PoolsOn(day)
  BY <1>2, KindsAre DEF PoolsOn
<1>4. HasPools(day)' /\ day \in Nat
  BY <1>1 DEF HasPools, Stored
<1> QED BY <1>3, <1>4 DEF Stored, Shown

LEMMA ShownIsKept ==
    ASSUME UNCHANGED pools
    PROVE  Shown' = Shown /\ Stored' = Stored
BY DEF Shown, Stored, HasPools, PoolsOn, ReadPool

\* Every pool of the window is one of its items.
LEMMA ItemsAreThePools ==
    ASSUME NEW w \in Windows, NEW kind \in Kinds, NEW d \in w[1] .. w[2]
    PROVE  \E n \in 1 .. PoolItems(w) : Item(w, n) = <<kind, d>>
<1>1. w[1] \in Nat /\ w[2] \in Nat /\ PoolItems(w) = 4 * NDays(w)
  <2>1. Len(TradingDays(w)) = NDays(w)
    BY DaysOfWindow
  <2> QED BY <2>1, WindowIsCounted, KindsAre DEF PoolItems
<1>2. PICK i \in 1 .. 4 : KindSeq[i] = kind
  <2>1. DOMAIN KindSeq = 1 .. 4
    BY DEF KindSeq
  <2> QED BY <2>1 DEF Kinds
<1> DEFINE n == 4 * (d - w[1]) + i
<1>3. n \in 1 .. PoolItems(w)
  BY <1>1 DEF NDays
<1>4. (n - 1) % 4 = i - 1 /\ (n - 1) \div 4 = d - w[1]
  BY <1>1
<1>5. Item(w, n) = <<KindSeq[i], d>>
  BY <1>1, <1>4, KindsAre DEF Item
<1> QED BY <1>2, <1>3, <1>5

LEMMA WholeIsEveryDay ==
    ASSUME NEW w \in Windows
    PROVE  IsWhole(w) <=> \A k \in 1 .. NDays(w) : Day(w, k) \in Stored
<1>1. \A k \in 1 .. NDays(w) : Day(w, k) \in Nat
  BY DaysOfWindow
<1> QED BY <1>1, DayOfWindow DEF IsWhole, Stored, HasPools

LEMMA FramesAreCoded ==
    ASSUME NEW world, NEW kind, NEW day
    PROVE  CodesOf(LiveFrame(world, kind, day)) \subseteq Codes
BY DEF CodesOf, LiveFrame, RowOf, InPool

\* A code that every provider knows is never stored without bars.
LEMMA NothingIsUnlisted ==
    ASSUME NEW c, NEW answer \in BarAnswers(c) \ {"down"}, answer # "data"
    PROVE  c \in Unlisted
<1> SUFFICES ASSUME c \notin Unlisted PROVE FALSE
  OBVIOUS
<1>1. PICK said \in [1 .. 3 -> {"data", "down"}] : answer = Fallback(said)
  BY DEF BarAnswers, ProviderSays
<1> QED BY <1>1 DEF Fallback

------------------------------------------------------------------------------
(* The snapshot *)

SnapshotInv == PoolsAreCoded /\ BarsAreOfWindows /\ CaptureIsAt /\ CapturedAreWhole

\* A window that is stored whole stays so, with the same codes.
LEMMA WholeIsKept ==
    ASSUME FilesKept, NEW w, IsWhole(w)
    PROVE  IsWhole(w)' /\ CodesStored(w)' = CodesStored(w)
<1>1. \A kind \in Kinds, d \in w[1] .. w[2] :
         /\ <<kind, d>> \in DOMAIN pools'
         /\ pools'[<<kind, d>>] = pools[<<kind, d>>]
  BY DEF FilesKept, IsWhole
<1>2. CodesStored(w)' = CodesStored(w)
  BY <1>1 DEF CodesStored
<1> QED BY <1>1, <1>2 DEF IsWhole

LEMMA CapturedStayWhole ==
    ASSUME FilesKept, BarsKept, CapturedAreWhole, UNCHANGED captured,
           begun \subseteq begun', begun' \subseteq Windows
    PROVE  CapturedAreWhole'
<1>1. \A w \in captured : IsWhole(w)' /\ CodesStored(w)' = CodesStored(w)
  BY WholeIsKept DEF CapturedAreWhole
<1> QED BY <1>1 DEF CapturedAreWhole, BarsKept

\* What a capture does to the pools.
LEMMA PoolIsPut ==
    ASSUME PoolsAreCoded, NEW item, PutPool(item)
    PROVE  /\ FilesKept /\ PoolsAreCoded'
           /\ item \in DOMAIN pools' /\ CodesOf(pools'[item]) \subseteq Codes
<1> DEFINE frame == LiveFrame(World[live], item[1], item[2])
<1>1. CASE item \in DOMAIN pools /\ UNCHANGED pools
  BY <1>1 DEF FilesKept, PoolsAreCoded
<1>2. CASE item \notin DOMAIN pools /\ pools' = Put(pools, item, frame)
  <2>1. CodesOf(frame) \subseteq Codes
    BY FramesAreCoded
  <2>2. /\ DOMAIN pools' = DOMAIN pools \cup {item} /\ pools'[item] = frame
        /\ \A f \in DOMAIN pools : pools'[f] = pools[f]
    BY <1>2 DEF Put
  <2> HIDE DEF frame
  <2> QED BY <2>1, <2>2 DEF FilesKept, PoolsAreCoded
<1> QED BY <1>1, <1>2 DEF PutPool

LEMMA CapturePoolKeeps ==
    ASSUME SnapshotInv, CapturePool
    PROVE  FilesKept /\ SnapshotInv'
<1> DEFINE w == job.window
           item == Item(w, job.at)
<1> USE DEF SnapshotInv
<1>1. /\ IsRecord(job, {"kind", "window", "at", "codes"}) /\ job.kind = "capture"
      /\ w \in begun /\ w \in Windows /\ job.codes \subseteq Codes
      /\ job.at \in 1 .. PoolItems(w) /\ PoolItems(w) \in Nat
  <2>1. job.kind = "capture" /\ job.at <= PoolItems(w)
    BY DEF CapturePool, Running, AtPools
  <2>2. w \in Windows
    BY <2>1 DEF CaptureIsAt, CapturedAreWhole
  <2>3. PoolItems(w) \in Nat
    BY <2>2, WindowIsCounted, KindsAre DEF PoolItems
  <2> QED BY <2>1, <2>2, <2>3 DEF CaptureIsAt
<1>2. /\ FilesKept /\ PoolsAreCoded'
      /\ item \in DOMAIN pools' /\ CodesOf(pools'[item]) \subseteq Codes
  BY PoolIsPut DEF CapturePool
<1>3. /\ job' = [job EXCEPT !.at = @ + 1, !.codes = @ \cup CodesOf(pools'[item])]
      /\ UNCHANGED <<ohlcv, begun, captured>>
  BY DEF CapturePool, Collect
<1> HIDE DEF item
<1>4. /\ IsRecord(job', {"kind", "window", "at", "codes"}) /\ job'.window = w
      /\ job'.at = job.at + 1 /\ job'.codes = job.codes \cup CodesOf(pools'[item])
  BY <1>1, <1>3 DEF IsRecord
<1>5. CaptureIsAt'
  <2>1. \A n \in 1 .. job.at : /\ Item(w, n) \in DOMAIN pools'
                               /\ CodesOf(pools'[Item(w, n)]) \subseteq job'.codes
    <3> SUFFICES ASSUME NEW n \in 1 .. job.at
                 PROVE  /\ Item(w, n) \in DOMAIN pools'
                        /\ CodesOf(pools'[Item(w, n)]) \subseteq job'.codes
      OBVIOUS
    <3>1. CASE n = job.at
      BY <3>1, <1>2, <1>4 DEF item
    <3>2. CASE n # job.at
      <4>1. n \in 1 .. job.at - 1
        BY <3>2, <1>1
      <4>2. /\ Item(w, n) \in DOMAIN pools
            /\ CodesOf(pools[Item(w, n)]) \subseteq job.codes
        BY <4>1, <1>1 DEF CaptureIsAt
      <4> QED BY <4>2, <1>2, <1>4 DEF FilesKept
    <3> QED BY <3>1, <3>2
  <2>2. job'.codes \subseteq Codes
    BY <1>1, <1>2, <1>4
  <2>3. job'.at - 1 = job.at /\ job'.at \in 1 .. PoolItems(w) + 1
    BY <1>1, <1>4
  <2>4. job'.window \in begun'
    BY <1>1, <1>3, <1>4
  <2> QED BY <1>4, <2>1, <2>2, <2>3, <2>4 DEF CaptureIsAt
<1>6. CapturedAreWhole'
  BY <1>2, <1>3, CapturedStayWhole DEF BarsKept, CapturedAreWhole
<1>7. BarsAreOfWindows'
  BY <1>3 DEF BarsAreOfWindows
<1> QED BY <1>2, <1>5, <1>6, <1>7

LEMMA CaptureBarsKeeps ==
    ASSUME SnapshotInv, CaptureBars
    PROVE  FilesKept /\ SnapshotInv'
<1> USE DEF SnapshotInv
<1> DEFINE w == job.window
<1>1. w \in begun /\ w \in Windows
  BY DEF CaptureBars, Running, CaptureIsAt, CapturedAreWhole
<1>2. UNCHANGED <<pools, begun, captured, job>>
  BY DEF CaptureBars
<1>3. PICK c, answer : answer \in BarAnswers(c) \ {"down"} /\
         ohlcv' = Put(ohlcv, c, IF answer = "data" THEN LiveBars(World[live], c, w) ELSE << >>)
  BY DEF CaptureBars, PutBars
<1> DEFINE bars == IF answer = "data" THEN LiveBars(World[live], c, w) ELSE << >>
<1>4. bars = << >> => c \in Unlisted
  <2>1. CASE answer # "data"
    BY <2>1, <1>3, NothingIsUnlisted
  <2>2. CASE answer = "data"
    <3>1. DOMAIN bars = w[1] .. w[2] /\ w[1] \in w[1] .. w[2]
      BY <2>2, <1>1, WindowsAssumption DEF LiveBars
    <3>2. DOMAIN << >> = {}
      OBVIOUS
    <3> QED BY <3>1, <3>2
  <2> QED BY <2>1, <2>2
<1>5. bars # << >> => DOMAIN bars = w[1] .. w[2]
  BY DEF LiveBars
<1> HIDE DEF bars
<1>6. /\ DOMAIN ohlcv' = DOMAIN ohlcv \cup {c} /\ ohlcv'[c] = bars
      /\ \A x \in DOMAIN ohlcv : x # c => ohlcv'[x] = ohlcv[x]
  BY <1>3 DEF bars, Put
<1>7. BarsAreOfWindows'
  <2> SUFFICES ASSUME NEW x \in DOMAIN ohlcv'
               PROVE  /\ ohlcv'[x] = << >> => x \in Unlisted
                      /\ ohlcv'[x] # << >> => \E v \in begun : DOMAIN ohlcv'[x] = v[1] .. v[2]
    BY <1>2 DEF BarsAreOfWindows
  <2>1. CASE x = c
    BY <2>1, <1>1, <1>4, <1>5, <1>6
  <2>2. CASE x # c
    <3>1. x \in DOMAIN ohlcv /\ ohlcv'[x] = ohlcv[x]
      BY <2>2, <1>6
    <3> QED BY <3>1 DEF BarsAreOfWindows
  <2> QED BY <2>1, <2>2
<1>8. FilesKept /\ BarsKept
  BY <1>2, <1>6 DEF FilesKept, BarsKept
<1>9. CapturedAreWhole'
  BY <1>2, <1>8, CapturedStayWhole DEF CapturedAreWhole
<1>10. PoolsAreCoded' /\ CaptureIsAt'
  BY <1>2 DEF PoolsAreCoded, CaptureIsAt
<1> QED BY <1>7, <1>8, <1>9, <1>10

\* The capture ends when every pool of its window and the bars of every code of
\* them are there.
LEMMA EndCaptureKeeps ==
    ASSUME SnapshotInv, EndCapture
    PROVE  FilesKept /\ SnapshotInv'
<1> USE DEF SnapshotInv
<1> DEFINE w == job.window
<1>1. /\ job.kind = "capture" /\ w \in begun /\ w \in Windows
      /\ job.codes \subseteq Codes /\ BarsDue(job) = {}
  BY DEF EndCapture, Running, CaptureIsAt, CapturedAreWhole
<1>2. /\ UNCHANGED <<pools, ohlcv, begun>> /\ captured' = captured \cup {w} /\ job' = NoJob
  BY DEF EndCapture
<1>3. job.at = PoolItems(w) + 1 /\ PoolItems(w) \in Nat
  <2>1. PoolItems(w) \in Nat
    BY <1>1, WindowIsCounted, KindsAre DEF PoolItems
  <2> QED BY <1>1, <2>1 DEF EndCapture, AtPools, CaptureIsAt
<1>4. \A kind \in Kinds, d \in w[1] .. w[2] :
         /\ <<kind, d>> \in DOMAIN pools
         /\ CodesOf(pools[<<kind, d>>]) \subseteq job.codes
  <2> SUFFICES ASSUME NEW kind \in Kinds, NEW d \in w[1] .. w[2]
               PROVE  /\ <<kind, d>> \in DOMAIN pools
                      /\ CodesOf(pools[<<kind, d>>]) \subseteq job.codes
    OBVIOUS
  <2>1. PICK n \in 1 .. PoolItems(w) : Item(w, n) = <<kind, d>>
    BY <1>1, ItemsAreThePools
  <2>2. n \in 1 .. job.at - 1
    BY <1>3
  <2> QED BY <2>1, <2>2, <1>1 DEF CaptureIsAt
<1>5. IsWhole(w)
  BY <1>4 DEF IsWhole
<1>6. CodesStored(w) \subseteq job.codes
  <2> SUFFICES ASSUME NEW c \in CodesStored(w) PROVE c \in job.codes
    OBVIOUS
  <2>1. PICK kind \in Kinds, d \in w[1] .. w[2] : c \in CodesOf(pools[<<kind, d>>])
    BY SMTT(30) DEF CodesStored
  <2> QED BY <2>1, <1>4
<1>7. job.codes \subseteq DOMAIN ohlcv
  BY <1>1, CodeSeqAssumption DEF BarsDue
<1>8. CapturedAreWhole'
  BY <1>1, <1>2, <1>5, <1>6, <1>7 DEF CapturedAreWhole, IsWhole, CodesStored
<1>9. job'.kind # "capture"
  BY <1>2 DEF NoJob
<1>10. CaptureIsAt'
  BY <1>9 DEF CaptureIsAt
<1> QED BY <1>2, <1>8, <1>10 DEF FilesKept, PoolsAreCoded, BarsAreOfWindows

LEMMA BeginCaptureKeeps ==
    ASSUME SnapshotInv, NEW w \in Windows, BeginCapture(w)
    PROVE  FilesKept /\ SnapshotInv'
<1> USE DEF SnapshotInv
<1>1. /\ UNCHANGED <<pools, ohlcv, captured>> /\ begun' = begun \cup {w}
      /\ job' = [kind |-> "capture", window |-> w, at |-> 1, codes |-> {}]
  BY DEF BeginCapture, NewCapture
<1>2. FilesKept /\ PoolsAreCoded' /\ BarsAreOfWindows'
  BY <1>1 DEF FilesKept, PoolsAreCoded, BarsAreOfWindows
<1>3. CapturedAreWhole'
  BY <1>1, <1>2, CapturedStayWhole DEF CapturedAreWhole, BarsKept
<1>4. CaptureIsAt'
  <2>1. PoolItems(w) \in Nat
    BY WindowIsCounted, KindsAre DEF PoolItems
  <2>2. /\ IsRecord(job', {"kind", "window", "at", "codes"}) /\ job'.window = w
        /\ job'.at = 1 /\ job'.codes = {}
    BY <1>1 DEF IsRecord
  <2>3. job'.at \in 1 .. PoolItems(job'.window) + 1
    BY <2>1, <2>2
  <2>4. \A n \in 1 .. job'.at - 1 : FALSE
    BY <2>2
  <2> QED BY <1>1, <2>2, <2>3, <2>4 DEF CaptureIsAt
<1> QED BY <1>2, <1>3, <1>4

\* Everything else leaves the files and the windows alone.
LEMMA OtherStepsKeepSnapshot ==
    ASSUME SnapshotInv, UNCHANGED <<pools, ohlcv, begun, captured>>,
           job' = job \/ job'.kind # "capture"
    PROVE  FilesKept /\ SnapshotInv'
<1> USE DEF SnapshotInv
<1>1. FilesKept /\ PoolsAreCoded' /\ BarsAreOfWindows'
  BY DEF FilesKept, PoolsAreCoded, BarsAreOfWindows
<1>2. CapturedAreWhole'
  BY <1>1, CapturedStayWhole DEF BarsKept, CapturedAreWhole
<1>3. CaptureIsAt'
  BY DEF CaptureIsAt
<1> QED BY <1>1, <1>2, <1>3

------------------------------------------------------------------------------
(* The engine *)

LEMMA NewIsAt ==
    ASSUME NEW shown, NEW w \in Windows
    PROVE  EngineAt(NewEngine(w), shown, w, 1, 0)
<1>1. w[1] \in Nat /\ Day(w, 1) = w[1]
  BY WindowIsCounted DEF Day
<1>2. Past(shown, w, 0) = << >>
  BY DEF Past
<1>3. 1 .. 0 = {}
  OBVIOUS
<1> QED BY <1>1, <1>2, <1>3 DEF NewEngine, EngineAt, EngineFields, IsRecord

\* The cursor stands on the i-th day, and the guard with it.
LEMMA CursorIsAt ==
    ASSUME NEW shown, NEW w \in Windows, NEW n, NEW i \in 1 .. NDays(w),
           NEW e, EngineAt(e, shown, w, i, n)
    PROVE  /\ Cursor(e) = Day(w, i)
           /\ CanStep(e) <=> i < NDays(w)
           /\ \A d : Allows(e, d) <=> d <= Day(w, i)
BY DaysOfWindow DEF Cursor, CanStep, Allows, EngineAt

LEMMA RecordIsAt ==
    ASSUME NEW shown, NEW w \in Windows, NEW i \in 1 .. NDays(w), NEW n \in {i - 1, i},
           NEW e, EngineAt(e, shown, w, i, n)
    PROVE  EngineAt(Record(e, RawSentiment(shown[Day(w, i)])), shown, w, i, i)
<1>1. CASE n = i
  <2>1. e.i \in e.recorded
    BY <1>1 DEF EngineAt
  <2> QED BY <1>1, <2>1 DEF Record
<1>2. CASE n = i - 1
  <2>1. e.i = i /\ e.history = Past(shown, w, i - 1) /\ e.recorded = 1 .. i - 1
    BY <1>2 DEF EngineAt
  <2>2. ~(e.i \in e.recorded)
    BY <2>1
  <2>3. Append(Past(shown, w, i - 1), RawSentiment(shown[Day(w, i)])) = Past(shown, w, i)
    <3>1. i - 1 \in Nat /\ (i - 1) + 1 = i
      OBVIOUS
    <3> QED BY <3>1, PastGrows
  <2>4. (1 .. i - 1) \cup {i} = 1 .. i
    OBVIOUS
  <2>5. Record(e, RawSentiment(shown[Day(w, i)])) =
            [e EXCEPT !.history = Append(@, RawSentiment(shown[Day(w, i)])),
                      !.recorded = @ \cup {e.i}]
    BY <2>2 DEF Record
  <2> QED BY <1>2, <2>1, <2>3, <2>4, <2>5 DEF EngineAt, EngineFields, IsRecord
<1> QED BY <1>1, <1>2

LEMMA StepIsAt ==
    ASSUME NEW shown, NEW w \in Windows, NEW n, NEW i \in 1 .. NDays(w), i < NDays(w),
           NEW e, EngineAt(e, shown, w, i, n)
    PROVE  EngineAt(Step(e), shown, w, i + 1, n)
<1>1. i + 1 \in 1 .. NDays(w) /\ TradingDays(w)[i + 1] = Day(w, i + 1)
  BY DaysOfWindow
<1> QED BY <1>1 DEF Step, EngineAt, EngineFields, IsRecord

\* Back to any day, or on to the next one: the history is cut to the days before.
LEMMA ResetIsAt ==
    ASSUME NEW shown, NEW w \in Windows, NEW i \in 1 .. NDays(w), NEW n \in {i - 1, i},
           NEW k \in 1 .. NDays(w), k <= n + 1, NEW e, EngineAt(e, shown, w, i, n)
    PROVE  EngineAt(ResetTo(e, k), shown, w, k, k - 1)
<1>1. n \in Nat /\ k - 1 \in 0 .. n /\ k \in Nat
  BY WindowIsCounted
<1>2. Len(Past(shown, w, n)) = n
  <2> DEFINE S == {RawSentiment(shown[Day(w, j)]) : j \in 1 .. n}
  <2>1. \A j \in 1 .. n : RawSentiment(shown[Day(w, j)]) \in S
    OBVIOUS
  <2> HIDE DEF S
  <2> QED BY <1>1, <2>1, PastTyped
<1>3. (IF n < k THEN n ELSE k - 1) = k - 1
  BY <1>1
<1>4. SubSeq(Past(shown, w, n), 1, k - 1) = Past(shown, w, k - 1)
  BY <1>1, PastCut
<1>5. {j \in 1 .. n : j < k} = 1 .. k - 1
  BY <1>1
<1>6. TradingDays(w)[k] = Day(w, k)
  BY DaysOfWindow
<1>7. /\ DOMAIN ResetTo(e, k) = EngineFields /\ ResetTo(e, k).days = TradingDays(w)
      /\ ResetTo(e, k).i = k /\ ResetTo(e, k).as_of = Day(w, k)
  BY <1>6 DEF ResetTo, EngineAt, EngineFields, IsRecord
<1>8. ResetTo(e, k).history = Past(shown, w, k - 1)
  BY <1>2, <1>3, <1>4 DEF ResetTo, EngineAt, EngineFields, IsRecord
<1>9. ResetTo(e, k).recorded = 1 .. k - 1
  BY <1>5 DEF ResetTo, EngineAt, EngineFields, IsRecord
<1> QED BY <1>7, <1>8, <1>9 DEF EngineAt, IsRecord

\* What the observation of a day may raise.
LEMMA ReadErrorIsAt ==
    ASSUME NEW shown, NEW w \in Windows, NEW n, NEW i \in 1 .. NDays(w),
           NEW e, EngineAt(e, shown, w, i, n)
    PROVE  ReadError(e) = IF Day(w, i) \in Stored THEN "" ELSE "snapshot"
<1>1. Day(w, i) \in Nat
  BY DaysOfWindow
<1>2. Cursor(e) = Day(w, i) /\ (Allows(e, Day(w, i)) <=> Day(w, i) <= Day(w, i))
  BY CursorIsAt
<1>3. Allows(e, Day(w, i))
  BY <1>1, <1>2
<1> QED BY <1>1, <1>2, <1>3 DEF ReadError, Stored

------------------------------------------------------------------------------
(* The walk *)

\* The place of a walk that has looked at and decided so many days.
PlaceOf(j, shown, looked, drafted) ==
    /\ IsRecord(j, WalkFields) /\ j.kind = "walk"
    /\ j.window \in Windows /\ j.horizon \in Nat
    /\ j.engine.i \in 1 .. NDays(j.window)
    /\ EngineAt(j.engine, shown, j.window, j.engine.i, looked)
    /\ j.drafts \in Seq({j.drafts[k] : k \in DOMAIN j.drafts})
    /\ Len(j.drafts) = drafted
    /\ j.pending \subseteq 1 .. drafted
    /\ \A k \in 1 .. drafted : DOMAIN j.drafts[k] = Draft /\ j.drafts[k].day = Day(j.window, k)

LEMMA WalkIsPlaced ==
    ASSUME WalkIsAt, job.kind = "walk"
    PROVE  /\ PlaceOf(job, Shown, Looked, Drafted) /\ job.stage \in Stages
           /\ \A k \in 1 .. Looked : Day(job.window, k) \in Stored
BY DEF WalkIsAt, PlaceOf

LEMMA BeginWalkKeeps ==
    ASSUME NEW w \in Windows, NEW arm \in Arms, NEW ruler \in Rulers, BeginWalk(w, arm, ruler)
    PROVE  WalkIsAt' /\ job'.kind = "walk"
<1> DEFINE j == [kind |-> "walk", window |-> w, arm |-> arm, scorer |-> ruler[1],
                 horizon |-> ruler[2], engine |-> NewEngine(w), prior |-> NoPhase,
                 state |-> << >>, universe |-> << >>, drafts |-> << >>, pending |-> {},
                 stage |-> "observe"]
<1>1. job' = j
  BY DEF BeginWalk
<1>2. ruler[2] \in Nat
  BY RulersAssumption
<1>3. EngineAt(NewEngine(w), Shown', w, 1, 0) /\ NewEngine(w).i = 1 /\ 1 \in 1 .. NDays(w)
  BY NewIsAt, WindowIsCounted DEF NewEngine
<1>4. << >> \in Seq({(<< >>)[k] : k \in DOMAIN << >>}) /\ Len(<< >>) = 0
  OBVIOUS
<1>5. \A k \in 1 .. 0 : FALSE
  OBVIOUS
<1>6. PlaceOf(job', Shown', 0, 0)
  BY <1>1, <1>2, <1>3, <1>4, <1>5 DEF PlaceOf, IsRecord, WalkFields
<1>7. job'.stage = "observe" /\ Looked' = 0 /\ Drafted' = 0
  BY <1>1, <1>3 DEF Looked, Drafted, BeforeLook, BeforeDecision
<1> HIDE DEF j
<1> QED BY <1>5, <1>6, <1>7 DEF WalkIsAt, PlaceOf, Stages

LEMMA ObserveDayKeeps ==
    ASSUME WalkIsAt, ObserveDay
    PROVE  WalkIsAt' /\ job'.kind = "walk"
<1> DEFINE w == job.window
           i == job.engine.i
<1>1. job.kind = "walk" /\ job.stage = "observe" /\ Shown' = Shown /\ Stored' = Stored
  BY ShownIsKept DEF ObserveDay, At, Running, storeVars
<1>2. Looked = i - 1 /\ Drafted = i - 1
  BY <1>1 DEF Looked, Drafted, BeforeLook, BeforeDecision
<1>3. /\ PlaceOf(job, Shown, i - 1, i - 1) /\ w \in Windows /\ i \in 1 .. NDays(w)
      /\ EngineAt(job.engine, Shown, w, i, i - 1)
      /\ \A k \in 1 .. i - 1 : Day(w, k) \in Stored
  BY <1>1, <1>2, WalkIsPlaced DEF PlaceOf
<1>4. ReadError(job.engine) = IF Day(w, i) \in Stored THEN "" ELSE "snapshot"
  BY <1>3, ReadErrorIsAt
<1>5. CASE Day(w, i) \notin Stored
  <2>1. job' = [job EXCEPT !.stage = "snapshot"]
    BY <1>4, <1>5 DEF ObserveDay, Fail
  <2>2. job'.stage = "snapshot" /\ job'.window = w /\ job'.engine = job.engine
    BY <1>3, <2>1 DEF PlaceOf, IsRecord, WalkFields
  <2>3. PlaceOf(job', Shown', i - 1, i - 1)
    BY <1>1, <1>3, <2>1 DEF PlaceOf, IsRecord, WalkFields
  <2>4. Looked' = i - 1 /\ Drafted' = i - 1
    BY <2>2 DEF Looked, Drafted, BeforeLook, BeforeDecision
  <2>5. ~IsWhole(w) /\ UNCHANGED pools
    BY <1>3, <1>5, WholeIsEveryDay DEF ObserveDay, storeVars
  <2> QED BY <1>1, <1>3, <2>2, <2>3, <2>4, <2>5 DEF WalkIsAt, PlaceOf, Stages, IsWhole
<1>6. CASE Day(w, i) \in Stored
  <2> DEFINE day   == Cursor(job.engine)
             state == MarketState(day, PoolsOn(day), job.engine.history)
  <2>1. job' = [job EXCEPT !.engine = Record(@, state.raw), !.state = state,
                           !.universe = BuildUniverse(PoolsOn(day)), !.stage = "decide"]
    BY <1>4, <1>6 DEF ObserveDay
  <2>2. state.raw = RawSentiment(Shown[Day(w, i)])
    <3>1. Day(w, i) \in Nat
      BY <1>3, DaysOfWindow
    <3>2. day = Day(w, i)
      BY <1>3, CursorIsAt
    <3> QED BY <3>1, <3>2 DEF MarketState, Shown
  <2>3. EngineAt(Record(job.engine, state.raw), Shown, w, i, i)
    BY <1>3, <2>2, RecordIsAt
  <2> HIDE DEF state
  <2>4. /\ IsRecord(job', WalkFields) /\ job'.kind = "walk" /\ job'.stage = "decide"
        /\ job'.window = w /\ job'.horizon = job.horizon
        /\ job'.engine = Record(job.engine, state.raw)
        /\ job'.drafts = job.drafts /\ job'.pending = job.pending
    BY <1>3, <2>1 DEF PlaceOf, IsRecord, WalkFields
  <2>5. job'.engine.i = i
    BY <2>3, <2>4 DEF EngineAt
  <2>6. PlaceOf(job', Shown', i, i - 1)
    BY <1>1, <1>3, <2>3, <2>4, <2>5 DEF PlaceOf
  <2>7. Looked' = i /\ Drafted' = i - 1
    BY <2>4, <2>5 DEF Looked, Drafted, BeforeLook, BeforeDecision
  <2>8. \A k \in 1 .. i : Day(w, k) \in Stored
    BY <1>3, <1>6
  <2> QED BY <1>1, <2>4, <2>6, <2>7, <2>8 DEF WalkIsAt, PlaceOf, Stages
<1> QED BY <1>5, <1>6


\* A decision is noted: one more draft, whatever was decided.
LEMMA DecidedKeeps ==
    ASSUME WalkIsAt, At("decide"), NEW decision, NEW prior, Decided(decision, prior),
           UNCHANGED pools
    PROVE  WalkIsAt' /\ job'.kind = "walk"
<1> DEFINE w == job.window
           i == job.engine.i
           draft == [day |-> Cursor(job.engine), mem |-> Membership(job.universe),
                     height |-> job.state.height, entries |-> Entries(decision),
                     decision |-> decision, scored |-> FALSE, outcomes |-> {}]
           drafts == Append(job.drafts, draft)
<1>1. job.kind = "walk" /\ job.stage = "decide" /\ Shown' = Shown /\ Stored' = Stored
  BY ShownIsKept DEF At, Running
<1>2. Looked = i /\ Drafted = i - 1
  BY <1>1 DEF Looked, Drafted, BeforeLook, BeforeDecision
<1>3. /\ PlaceOf(job, Shown, i, i - 1) /\ w \in Windows /\ i \in 1 .. NDays(w)
      /\ EngineAt(job.engine, Shown, w, i, i)
      /\ \A k \in 1 .. i : Day(w, k) \in Stored
      /\ Len(job.drafts) = i - 1
  BY <1>1, <1>2, WalkIsPlaced DEF PlaceOf
<1>4. /\ DOMAIN draft = Draft /\ draft.day = Day(w, i)
  BY <1>3, CursorIsAt DEF Draft
<1>5. job' = [job EXCEPT !.drafts = drafts, !.pending = @ \cup {Len(job.drafts) + 1},
                         !.prior = prior, !.stage = "settle"]
  BY DEF Decided
<1> HIDE DEF draft
<1>6. /\ drafts \in Seq({drafts[k] : k \in DOMAIN drafts}) /\ Len(drafts) = i
      /\ \A k \in 1 .. i : DOMAIN drafts[k] = Draft /\ drafts[k].day = Day(w, k)
  <2> DEFINE S == {job.drafts[k] : k \in DOMAIN job.drafts} \cup {draft}
  <2>1. job.drafts \in Seq(S) /\ i - 1 \in Nat
    BY <1>3 DEF PlaceOf
  <2>2. draft \in S
    OBVIOUS
  <2> HIDE DEF S
  <2>3. drafts \in Seq(S) /\ Len(drafts) = i
    BY <1>3, <2>1, <2>2
  <2>4. \A k \in 1 .. i : drafts[k] = IF k = i THEN draft ELSE job.drafts[k]
    BY <1>3, <2>1, <2>2
  <2> HIDE DEF drafts
  <2>5. drafts \in Seq({drafts[k] : k \in DOMAIN drafts})
    BY <2>3
  <2>6. \A k \in 1 .. i : k # i => k \in 1 .. i - 1
    BY <1>3
  <2> QED BY <1>3, <1>4, <2>3, <2>4, <2>5, <2>6 DEF PlaceOf
<1> HIDE DEF drafts
<1>7. /\ IsRecord(job', WalkFields) /\ job'.kind = "walk" /\ job'.stage = "settle"
      /\ job'.window = w /\ job'.horizon = job.horizon /\ job'.engine = job.engine
      /\ job'.drafts = drafts /\ job'.pending = job.pending \cup {Len(job.drafts) + 1}
  BY <1>3, <1>5 DEF PlaceOf, IsRecord, WalkFields
<1>8. job'.pending \subseteq 1 .. i
  <2>1. job.pending \subseteq 1 .. i - 1 /\ i \in Nat /\ i >= 1
    BY <1>3, WindowIsCounted DEF PlaceOf
  <2> QED BY <1>3, <1>7, <2>1
<1>9. PlaceOf(job', Shown', i, i)
  BY <1>1, <1>3, <1>6, <1>7, <1>8 DEF PlaceOf
<1>10. Looked' = i /\ Drafted' = i
  BY <1>7 DEF Looked, Drafted, BeforeLook, BeforeDecision
<1> QED BY <1>1, <1>3, <1>7, <1>9, <1>10 DEF WalkIsAt, PlaceOf, Stages

LEMMA DecideBaselineKeeps ==
    ASSUME WalkIsAt, DecideBaseline
    PROVE  WalkIsAt' /\ job'.kind = "walk"
<1>1. At("decide") /\ UNCHANGED pools /\ \E decision : Decided(decision, NoPhase)
  BY DEF DecideBaseline, storeVars
<1> QED BY <1>1, DecidedKeeps

LEMMA DecideFromCacheKeeps ==
    ASSUME WalkIsAt, DecideFromCache
    PROVE  WalkIsAt' /\ job'.kind = "walk"
<1>1. /\ At("decide") /\ UNCHANGED pools
      /\ \E decision, prior : Decided(decision, prior)
  BY DEF DecideFromCache, storeVars, Answered
<1> QED BY <1>1, DecidedKeeps

LEMMA DecideLiveKeeps ==
    ASSUME WalkIsAt, DecideLive
    PROVE  WalkIsAt' /\ job'.kind = "walk"
<1>1. /\ At("decide") /\ UNCHANGED pools
      /\ \E decision, prior : Decided(decision, prior)
  BY DEF DecideLive, storeVars, Answered
<1> QED BY <1>1, DecidedKeeps

LEMMA MissReadOnlyKeeps ==
    ASSUME WalkIsAt, MissReadOnly
    PROVE  WalkIsAt' /\ job'.kind = "walk"
<1> DEFINE w == job.window
           i == job.engine.i
<1>1. /\ job.kind = "walk" /\ job.stage = "decide" /\ Shown' = Shown /\ Stored' = Stored
      /\ job.arm = "llm_read_only" /\ job' = [job EXCEPT !.stage = "cache_miss"]
  BY ShownIsKept DEF MissReadOnly, At, Running, Fail, storeVars
<1>2. Looked = i /\ Drafted = i - 1
  BY <1>1 DEF Looked, Drafted, BeforeLook, BeforeDecision
<1>3. PlaceOf(job, Shown, i, i - 1) /\ \A k \in 1 .. i : Day(w, k) \in Stored
  BY <1>1, <1>2, WalkIsPlaced
<1>4. /\ IsRecord(job', WalkFields) /\ job'.kind = "walk" /\ job'.stage = "cache_miss"
      /\ job'.window = w /\ job'.horizon = job.horizon /\ job'.engine = job.engine
      /\ job'.drafts = job.drafts /\ job'.pending = job.pending /\ job'.arm = "llm_read_only"
  BY <1>1, <1>3 DEF PlaceOf, IsRecord, WalkFields
<1>5. PlaceOf(job', Shown', i, i - 1)
  BY <1>1, <1>3, <1>4 DEF PlaceOf
<1>6. Looked' = i /\ Drafted' = i - 1
  BY <1>4 DEF Looked, Drafted, BeforeLook, BeforeDecision
<1> QED BY <1>1, <1>3, <1>4, <1>5, <1>6 DEF WalkIsAt, PlaceOf, Stages

\* No decision is settled by a day that the guard withholds: its last holding day
\* is one of those gone by.
LEMMA RipeIsAllowed ==
    ASSUME WalkIsAt, At("settle"), NEW j \in job.pending, Len(job.drafts) >= j + job.horizon
    PROVE  Allows(job.engine, job.drafts[j + job.horizon].day)
<1> DEFINE w == job.window
           i == job.engine.i
           k == j + job.horizon
<1>1. Looked = i /\ Drafted = i /\ job.kind = "walk"
  BY DEF Looked, Drafted, BeforeLook, BeforeDecision, At, Running
<1>2. PlaceOf(job, Shown, i, i)
  BY <1>1, WalkIsPlaced
<1>3. w \in Windows /\ i \in 1 .. NDays(w) /\ k \in 1 .. i
  BY <1>2 DEF PlaceOf
<1>4. job.drafts[k].day = Day(w, k)
  BY <1>2, <1>3 DEF PlaceOf
<1>5. Day(w, k) <= Day(w, i)
  <2>1. w[1] \in Nat /\ NDays(w) \in Nat
    BY <1>3, WindowIsCounted
  <2>2. i \in Nat /\ k \in Nat /\ k <= i
    BY <1>3, <2>1
  <2> QED BY <2>1, <2>2 DEF Day
<1> QED BY <1>2, <1>3, <1>4, <1>5, CursorIsAt DEF PlaceOf

LEMMA SettleKeeps ==
    ASSUME WalkIsAt, SettleAndStep
    PROVE  WalkIsAt' /\ job'.kind = "walk"
<1> DEFINE w == job.window
           i == job.engine.i
           ripe == {j \in job.pending : Len(job.drafts) >= j + job.horizon}
           drafts == [j \in DOMAIN job.drafts |->
                        IF j \in ripe
                        THEN [job.drafts[j] EXCEPT !.scored = TRUE,
                                                   !.outcomes = ScoreStep(job.drafts, j)]
                        ELSE job.drafts[j]]
<1>1. job.kind = "walk" /\ job.stage = "settle" /\ Shown' = Shown /\ Stored' = Stored
  BY ShownIsKept DEF SettleAndStep, At, Running, storeVars
<1>2. Looked = i /\ Drafted = i
  BY <1>1 DEF Looked, Drafted, BeforeLook, BeforeDecision
<1>3. /\ PlaceOf(job, Shown, i, i) /\ w \in Windows /\ i \in 1 .. NDays(w)
      /\ EngineAt(job.engine, Shown, w, i, i)
      /\ \A k \in 1 .. i : Day(w, k) \in Stored
  BY <1>1, <1>2, WalkIsPlaced DEF PlaceOf
<1>4. ScoreRipe(ripe)
  BY <1>1, RipeIsAllowed DEF SettleAndStep
<1>5. job' = [job EXCEPT !.drafts = drafts, !.pending = @ \ ripe,
                         !.engine = IF CanStep(@) THEN Step(@) ELSE @,
                         !.stage = IF CanStep(job.engine) THEN "observe" ELSE "ended"]
  BY <1>4 DEF ScoreRipe
<1>6. /\ drafts \in Seq({drafts[k] : k \in DOMAIN drafts}) /\ Len(drafts) = i
      /\ \A k \in 1 .. i : DOMAIN drafts[k] = Draft /\ drafts[k].day = Day(w, k)
  <2>1. DOMAIN job.drafts = 1 .. i /\ i \in Nat
    BY <1>3 DEF PlaceOf
  <2>2. DOMAIN drafts = 1 .. i
    BY <2>1
  <2>3. \A k \in 1 .. i : DOMAIN job.drafts[k] = Draft /\ job.drafts[k].day = Day(w, k)
    BY <1>3 DEF PlaceOf
  <2>4. \A k \in 1 .. i : DOMAIN drafts[k] = Draft /\ drafts[k].day = Day(w, k)
    <3> TAKE k \in 1 .. i
    <3>1. CASE k \in ripe
      <4> DEFINE score == ScoreStep(job.drafts, k)
      <4>1. drafts[k] = [job.drafts[k] EXCEPT !.scored = TRUE, !.outcomes = score]
        BY <2>1, <3>1
      <4> HIDE DEF score, drafts
      <4> QED BY <2>3, <4>1 DEF Draft
    <3>2. CASE k \notin ripe
      <4>1. drafts[k] = job.drafts[k]
        BY <2>1, <3>2
      <4> HIDE DEF drafts
      <4> QED BY <2>3, <4>1
    <3> QED BY <3>1, <3>2
  <2> DEFINE S == {drafts[k] : k \in DOMAIN drafts}
  <2>5. drafts \in [1 .. i -> S]
    BY <2>2
  <2> HIDE DEF S, drafts
  <2>6. drafts \in Seq(S) /\ Len(drafts) = i
    BY <2>1, <2>5
  <2> QED BY <2>4, <2>6 DEF S
<1> HIDE DEF drafts, ripe
<1>7. /\ IsRecord(job', WalkFields) /\ job'.kind = "walk"
      /\ job'.window = w /\ job'.horizon = job.horizon
      /\ job'.drafts = drafts /\ job'.pending \subseteq 1 .. i
  BY <1>3, <1>5 DEF PlaceOf, IsRecord, WalkFields
<1>8. CASE i < NDays(w)
  <2>1. job'.engine = Step(job.engine) /\ job'.stage = "observe"
    BY <1>3, <1>5, <1>8, CursorIsAt DEF PlaceOf, IsRecord, WalkFields
  <2>2. EngineAt(job'.engine, Shown, w, i + 1, i) /\ job'.engine.i = i + 1
    BY <1>3, <1>8, <2>1, StepIsAt DEF EngineAt
  <2>3. i + 1 \in 1 .. NDays(w)
    BY <1>3, <1>8, WindowIsCounted
  <2>4. PlaceOf(job', Shown', i, i)
    BY <1>1, <1>3, <1>6, <1>7, <2>2, <2>3 DEF PlaceOf
  <2>5. Looked' = i /\ Drafted' = i
    BY <1>3, <2>1, <2>2 DEF Looked, Drafted, BeforeLook, BeforeDecision
  <2> QED BY <1>1, <1>3, <1>7, <2>1, <2>4, <2>5 DEF WalkIsAt, PlaceOf, Stages
<1>9. CASE ~(i < NDays(w))
  <2>0. ~CanStep(job.engine)
    BY <1>3, <1>9, CursorIsAt
  <2>1. job'.engine = job.engine /\ job'.stage = "ended"
    BY <1>3, <1>5, <2>0 DEF PlaceOf, IsRecord, WalkFields
  <2>2. i = NDays(w)
    BY <1>3, <1>9, WindowIsCounted
  <2>3. PlaceOf(job', Shown', i, i)
    BY <1>1, <1>3, <1>6, <1>7, <2>1 DEF PlaceOf
  <2>4. Looked' = i /\ Drafted' = i
    BY <2>1 DEF Looked, Drafted, BeforeLook, BeforeDecision
  <2> QED BY <1>1, <1>3, <1>7, <2>1, <2>2, <2>3, <2>4 DEF WalkIsAt, PlaceOf, Stages
<1> QED BY <1>8, <1>9

------------------------------------------------------------------------------
(* The engine driven by hand *)

\* The place of a session that left no day without a look.
SessionAt(e, shown) ==
    \E w \in Windows, i \in Nat, n \in Nat :
        i \in 1 .. NDays(w) /\ n \in {i - 1, i} /\ EngineAt(e, shown, w, i, n)

LEMMA BeginSessionKeeps ==
    ASSUME NEW w \in Windows, BeginSession(w)
    PROVE  SessionIsAt' /\ job'.kind = "session"
<1>1. job' = [kind |-> "session", engine |-> NewEngine(w), skipped |-> FALSE]
  BY DEF BeginSession
<1>2. EngineAt(NewEngine(w), Shown', w, 1, 0) /\ 1 \in 1 .. NDays(w) /\ 0 = 1 - 1
  BY NewIsAt, WindowIsCounted
<1>3. SessionAt(job'.engine, Shown')
  BY <1>1, <1>2 DEF SessionAt
<1> QED BY <1>1, <1>3 DEF SessionIsAt, SessionAt, IsRecord

LEMMA SessionObserveKeeps ==
    ASSUME SessionIsAt, SessionObserve
    PROVE  SessionIsAt' /\ job'.kind = "session"
<1> DEFINE raw == Raw(Cursor(job.engine))
<1>1. /\ job.kind = "session" /\ Shown' = Shown
      /\ job' = [job EXCEPT !.engine = Record(@, raw)]
  BY ShownIsKept DEF SessionObserve, Running, storeVars
<1> HIDE DEF raw
<1>2. /\ IsRecord(job', {"kind", "engine", "skipped"}) /\ job'.kind = "session"
      /\ job'.engine = Record(job.engine, raw)
      /\ job'.skipped = job.skipped /\ job.skipped \in BOOLEAN
  BY <1>1 DEF SessionIsAt, IsRecord
<1>3. ASSUME ~job.skipped PROVE SessionAt(job'.engine, Shown')
  <2>1. PICK w \in Windows, i \in Nat, n \in Nat :
           i \in 1 .. NDays(w) /\ n \in {i - 1, i} /\ EngineAt(job.engine, Shown, w, i, n)
    BY <1>1, <1>3 DEF SessionIsAt
  <2>2. Day(w, i) \in Nat
    BY <2>1, DaysOfWindow
  <2>3. raw = RawSentiment(Shown[Day(w, i)])
    BY <2>1, <2>2, CursorIsAt DEF raw, Raw, Shown
  <2>4. EngineAt(job'.engine, Shown', w, i, i)
    BY <1>1, <1>2, <2>1, <2>3, RecordIsAt
  <2> QED BY <2>1, <2>4 DEF SessionAt
<1> QED BY <1>2, <1>3 DEF SessionIsAt, SessionAt

LEMMA SessionStepKeeps ==
    ASSUME SessionIsAt, SessionStep
    PROVE  SessionIsAt' /\ job'.kind = "session"
<1>1. /\ job.kind = "session" /\ Shown' = Shown /\ CanStep(job.engine)
      /\ job' = [job EXCEPT !.engine = Step(@),
                            !.skipped = @ \/ job.engine.i \notin job.engine.recorded]
  BY ShownIsKept DEF SessionStep, Running, storeVars
<1>2. /\ IsRecord(job', {"kind", "engine", "skipped"}) /\ job'.kind = "session"
      /\ job'.engine = Step(job.engine) /\ job.skipped \in BOOLEAN
      /\ job'.skipped = (job.skipped \/ job.engine.i \notin job.engine.recorded)
  BY <1>1 DEF SessionIsAt, IsRecord
<1>3. ASSUME ~job.skipped, job.engine.i \in job.engine.recorded
      PROVE  SessionAt(job'.engine, Shown')
  <2>1. PICK w \in Windows, i \in Nat, n \in Nat :
           i \in 1 .. NDays(w) /\ n \in {i - 1, i} /\ EngineAt(job.engine, Shown, w, i, n)
    BY <1>1, <1>3 DEF SessionIsAt
  <2>2. n = i
    BY <1>3, <2>1 DEF EngineAt
  <2>3. i < NDays(w)
    BY <1>1, <2>1, CursorIsAt
  <2>4. EngineAt(job'.engine, Shown', w, i + 1, i) 
    BY <1>1, <1>2, <2>1, <2>2, <2>3, StepIsAt
  <2>5. i + 1 \in 1 .. NDays(w) /\ i = (i + 1) - 1 /\ i + 1 \in Nat
    BY <2>1, <2>3, WindowIsCounted
  <2> QED BY <2>4, <2>5 DEF SessionAt
<1> QED BY <1>2, <1>3 DEF SessionIsAt, SessionAt

LEMMA SessionResetKeeps ==
    ASSUME SessionIsAt, NEW k \in DOMAIN job.engine.days, SessionReset(k)
    PROVE  SessionIsAt' /\ job'.kind = "session"
<1> DEFINE jumps == \/ k > job.engine.i + 1
                    \/ k = job.engine.i + 1 /\ job.engine.i \notin job.engine.recorded
<1>1. /\ job.kind = "session" /\ Shown' = Shown
      /\ job' = [job EXCEPT !.engine = ResetTo(@, k), !.skipped = @ \/ jumps]
  BY ShownIsKept DEF SessionReset, Running, storeVars
<1>2. /\ IsRecord(job', {"kind", "engine", "skipped"}) /\ job'.kind = "session"
      /\ job'.engine = ResetTo(job.engine, k) /\ job.skipped \in BOOLEAN
      /\ job'.skipped = (job.skipped \/ jumps)
  BY <1>1 DEF SessionIsAt, IsRecord
<1>3. ASSUME ~job.skipped, ~jumps PROVE SessionAt(job'.engine, Shown')
  <2>1. PICK w \in Windows, i \in Nat, n \in Nat :
           i \in 1 .. NDays(w) /\ n \in {i - 1, i} /\ EngineAt(job.engine, Shown, w, i, n)
    BY <1>1, <1>3 DEF SessionIsAt
  <2>2. k \in 1 .. NDays(w)
    BY <2>1, DaysOfWindow DEF EngineAt
  <2>3. k <= n + 1
    <3>1. job.engine.i = i /\ job.engine.recorded = 1 .. n /\ k \in Nat
      BY <2>1, <2>2 DEF EngineAt
    <3> QED BY <1>3, <2>1, <3>1
  <2>4. EngineAt(job'.engine, Shown', w, k, k - 1) /\ k \in Nat /\ k - 1 \in Nat
    BY <1>1, <1>2, <2>1, <2>2, <2>3, ResetIsAt
  <2> QED BY <2>2, <2>4 DEF SessionAt
<1> QED BY <1>2, <1>3 DEF SessionIsAt, SessionAt

------------------------------------------------------------------------------
(* The invariant is inductive *)

LEMMA InitPlace == WalkInit => PlaceInv
<1> SUFFICES ASSUME WalkInit PROVE PlaceInv
  OBVIOUS
<1>1. DOMAIN << >> = {} /\ job.kind = "none"
  BY DEF WalkInit, NoJob
<1> QED BY <1>1 DEF WalkInit, PlaceInv, PoolsAreCoded, BarsAreOfWindows, CaptureIsAt,
           CapturedAreWhole, WalkIsAt, SessionIsAt, KindIsKnown

\* A step of a walk or of a session, and the end of any job.
LEMMA PlaceFollows ==
    ASSUME PlaceInv, UNCHANGED <<pools, ohlcv, begun, captured>>,
           \/ job'.kind = "walk" /\ WalkIsAt'
           \/ job'.kind = "session" /\ SessionIsAt'
           \/ job'.kind = "none"
    PROVE  FilesKept /\ PlaceInv'
<1>1. FilesKept /\ SnapshotInv'
  BY OtherStepsKeepSnapshot DEF PlaceInv, SnapshotInv
<1>2. WalkIsAt' /\ SessionIsAt' /\ KindIsKnown'
  BY DEF WalkIsAt, SessionIsAt, KindIsKnown
<1> QED BY <1>1, <1>2 DEF PlaceInv, SnapshotInv

\* A step of a capture.
LEMMA PlaceFollowsCapture ==
    ASSUME PlaceInv, FilesKept, SnapshotInv', job'.kind \in {"capture", "none"}
    PROVE  PlaceInv'
BY DEF PlaceInv, SnapshotInv, WalkIsAt, SessionIsAt, KindIsKnown

LEMMA NextPlace == PlaceInv /\ [WalkNext]_vars => FilesKept /\ PlaceInv'
<1> SUFFICES ASSUME PlaceInv, [WalkNext]_vars PROVE FilesKept /\ PlaceInv'
  OBVIOUS
<1> USE DEF storeVars
<1>0. SnapshotInv /\ WalkIsAt /\ SessionIsAt
  BY DEF PlaceInv, SnapshotInv
<1>1. CASE Die
  BY <1>1, PlaceFollows DEF Die, NoJob
<1>2. CASE Revise
  BY <1>2, <1>0, ShownIsKept, PlaceFollows DEF Revise, NoJob
<1>3. ASSUME NEW w \in Windows, BeginCapture(w) PROVE FilesKept /\ PlaceInv'
  BY <1>0, <1>3, BeginCaptureKeeps, PlaceFollowsCapture DEF BeginCapture, NewCapture
<1>4. CASE CapturePool
  <2>1. job'.kind = "capture"
    BY <1>0, <1>4 DEF CapturePool, Collect, Running, SnapshotInv, CaptureIsAt, IsRecord
  <2> QED BY <1>0, <1>4, <2>1, CapturePoolKeeps, PlaceFollowsCapture
<1>5. CASE CaptureBars
  <2>1. job'.kind = "capture"
    BY <1>5 DEF CaptureBars, Running
  <2> QED BY <1>0, <1>5, <2>1, CaptureBarsKeeps, PlaceFollowsCapture
<1>6. CASE EndCapture
  <2>1. job'.kind = "none"
    BY <1>6 DEF EndCapture, NoJob
  <2> QED BY <1>0, <1>6, <2>1, EndCaptureKeeps, PlaceFollowsCapture
<1>7. ASSUME NEW w \in Windows, NEW arm \in Arms, NEW r \in Rulers, BeginWalk(w, arm, r)
      PROVE  FilesKept /\ PlaceInv'
  <2>1. UNCHANGED <<pools, ohlcv, begun, captured>>
    BY <1>7 DEF BeginWalk
  <2> QED BY <1>7, <2>1, BeginWalkKeeps, PlaceFollows
<1>8. CASE ObserveDay
  <2>1. UNCHANGED <<pools, ohlcv, begun, captured>>
    BY <1>8 DEF ObserveDay
  <2> QED BY <1>0, <1>8, <2>1, ObserveDayKeeps, PlaceFollows
<1>9. CASE DecideBaseline
  <2>1. UNCHANGED <<pools, ohlcv, begun, captured>>
    BY <1>9 DEF DecideBaseline
  <2> QED BY <1>0, <1>9, <2>1, DecideBaselineKeeps, PlaceFollows
<1>10. CASE DecideFromCache
  <2>1. UNCHANGED <<pools, ohlcv, begun, captured>>
    BY <1>10 DEF DecideFromCache
  <2> QED BY <1>0, <1>10, <2>1, DecideFromCacheKeeps, PlaceFollows
<1>11. CASE DecideLive
  <2>1. UNCHANGED <<pools, ohlcv, begun, captured>>
    BY <1>11 DEF DecideLive
  <2> QED BY <1>0, <1>11, <2>1, DecideLiveKeeps, PlaceFollows
<1>12. CASE MissReadOnly
  <2>1. UNCHANGED <<pools, ohlcv, begun, captured>>
    BY <1>12 DEF MissReadOnly
  <2> QED BY <1>0, <1>12, <2>1, MissReadOnlyKeeps, PlaceFollows
<1>13. CASE SettleAndStep
  <2>1. UNCHANGED <<pools, ohlcv, begun, captured>>
    BY <1>13 DEF SettleAndStep
  <2> QED BY <1>0, <1>13, <2>1, SettleKeeps, PlaceFollows
<1>14. CASE EndWalk
  BY <1>14, PlaceFollows DEF EndWalk, NoJob
<1>15. ASSUME NEW w \in Windows, BeginSession(w) PROVE FilesKept /\ PlaceInv'
  <2>1. UNCHANGED <<pools, ohlcv, begun, captured>>
    BY <1>15 DEF BeginSession
  <2> QED BY <1>15, <2>1, BeginSessionKeeps, PlaceFollows
<1>16. CASE SessionObserve
  <2>1. UNCHANGED <<pools, ohlcv, begun, captured>>
    BY <1>16 DEF SessionObserve
  <2> QED BY <1>0, <1>16, <2>1, SessionObserveKeeps, PlaceFollows
<1>17. CASE SessionStep
  <2>1. UNCHANGED <<pools, ohlcv, begun, captured>>
    BY <1>17 DEF SessionStep
  <2> QED BY <1>0, <1>17, <2>1, SessionStepKeeps, PlaceFollows
<1>18. ASSUME NEW k \in DOMAIN job.engine.days, SessionReset(k) PROVE FilesKept /\ PlaceInv'
  <2>1. UNCHANGED <<pools, ohlcv, begun, captured>>
    BY <1>18 DEF SessionReset
  <2> QED BY <1>0, <1>18, <2>1, SessionResetKeeps, PlaceFollows
<1>19. CASE EndSession
  BY <1>19, PlaceFollows DEF EndSession, NoJob
<1>20. CASE UNCHANGED vars
  <2>1. UNCHANGED <<pools, ohlcv, begun, captured, job>> /\ Shown' = Shown /\ Stored' = Stored
    BY <1>20, ShownIsKept DEF vars
  <2>2. FilesKept /\ SnapshotInv'
    BY <1>0, <2>1, OtherStepsKeepSnapshot
  <2>3. Looked' = Looked /\ Drafted' = Drafted
    BY <2>1 DEF Looked, Drafted
  <2>4. WalkIsAt' /\ SessionIsAt' /\ KindIsKnown'
    BY <2>1, <2>3 DEF PlaceInv, WalkIsAt, SessionIsAt, KindIsKnown, IsWhole
  <2> QED BY <2>2, <2>4 DEF PlaceInv, SnapshotInv
<1> QED BY <1>1, <1>2, <1>3, <1>4, <1>5, <1>6, <1>7, <1>8, <1>9, <1>10, <1>11, <1>12, <1>13,
           <1>14, <1>15, <1>16, <1>17, <1>18, <1>19, <1>20 DEF WalkNext

------------------------------------------------------------------------------
(* What follows *)

LEMMA PlaceAlways == WalkSpec => []PlaceInv
<1>1. WalkInit => PlaceInv
  BY InitPlace
<1>2. PlaceInv /\ [WalkNext]_vars => PlaceInv'
  BY NextPlace
<1> QED BY <1>1, <1>2, PTL DEF WalkSpec

\* A window whose capture came to its end is stored whole, with bars for every
\* code of its pools, however often captures died, whatever the source refused
\* and however it was revised (capture_window over PITStore).
THEOREM CaptureLeavesAWhole == WalkSpec => []CaptureIsWhole
<1>1. PlaceInv => CaptureIsWhole
  <2> SUFFICES ASSUME PlaceInv, NEW w \in captured, NEW c \in CodesStored(w)
               PROVE  /\ c \in DOMAIN ohlcv
                      /\ ohlcv[c] = << >> => c \in Unlisted
                      /\ (begun = {w} /\ ohlcv[c] # << >>) => DOMAIN ohlcv[c] = w[1] .. w[2]
    BY DEF CaptureIsWhole, PlaceInv, CapturedAreWhole
  <2>1. c \in DOMAIN ohlcv
    BY DEF PlaceInv, CapturedAreWhole
  <2> QED BY <2>1 DEF PlaceInv, BarsAreOfWindows
<1> QED BY <1>1, PlaceAlways, PTL

\* A walk ends only over a whole window, fails for a torn window or for an answer
\* that a replay lacks, and never asks for a day after its cursor (walk over
\* SnapshotSource, the guard and CachedLLMClient).
THEOREM WalkNeverHidesAHole == WalkSpec => []WalkIsLoudOrWhole
<1>1. PlaceInv => WalkIsLoudOrWhole
  <2> SUFFICES ASSUME PlaceInv, job.kind = "walk" PROVE WalkIsLoudOrWhole
    BY DEF WalkIsLoudOrWhole
  <2>1. WalkIsAt
    BY DEF PlaceInv
  <2>2. job.stage # "lookahead"
    BY <2>1 DEF WalkIsAt, Stages
  <2>3. ASSUME job.stage = "ended" PROVE IsWhole(job.window)
    <3>1. Looked = NDays(job.window)
      BY <2>1, <2>3 DEF WalkIsAt, Looked, BeforeLook
    <3> QED BY <2>1, <3>1, WholeIsEveryDay DEF WalkIsAt
  <2> QED BY <2>1, <2>2, <2>3 DEF WalkIsAt, WalkIsLoudOrWhole
<1> QED BY <1>1, PlaceAlways, PTL

\* The history of an engine is the sentiment of the days behind it and of no
\* later one, in a walk and by hand (ReplayEngine).
THEOREM EngineKnowsThePast == WalkSpec => []HistoryIsThePast
<1>1. ASSUME NEW w \in Windows, NEW i \in 1 .. NDays(w), NEW n \in {i - 1, i}, NEW e,
             EngineAt(e, Shown, w, i, n)
      PROVE  /\ Len(e.history) \in {e.i - 1, e.i}
             /\ \A k \in DOMAIN e.history : e.history[k] = Raw(e.days[k])
  <2>1. n \in Nat /\ \A k \in 1 .. n : k \in 1 .. NDays(w)
    BY WindowIsCounted
  <2>2. e.history = Past(Shown, w, n) /\ e.i = i /\ e.days = TradingDays(w)
    BY <1>1 DEF EngineAt
  <2> DEFINE S == {RawSentiment(Shown[Day(w, k)]) : k \in 1 .. n}
  <2>3. \A k \in 1 .. n : RawSentiment(Shown[Day(w, k)]) \in S
    OBVIOUS
  <2> HIDE DEF S
  <2>4. Len(e.history) = n /\ DOMAIN e.history = 1 .. n
    <3>1. Len(Past(Shown, w, n)) = n /\ DOMAIN Past(Shown, w, n) = 1 .. n
      BY <2>1, <2>3, PastTyped
    <3> QED BY <2>2, <3>1
  <2>5. \A k \in 1 .. n : e.history[k] = RawSentiment(Shown[Day(w, k)])
    BY <2>2 DEF Past
  <2>6. \A k \in 1 .. n : e.days[k] = Day(w, k) /\ Day(w, k) \in Nat
    BY <2>1, <2>2, DaysOfWindow
  <2>7. \A k \in 1 .. n : Raw(e.days[k]) = RawSentiment(Shown[Day(w, k)])
    BY <2>6 DEF Raw, Shown
  <2> QED BY <2>2, <2>4, <2>5, <2>7
<1>2. PlaceInv => HistoryIsThePast
  <2> SUFFICES ASSUME PlaceInv, job.kind = "walk" \/ (job.kind = "session" /\ ~job.skipped)
               PROVE  LET e == job.engine
                      IN  /\ Len(e.history) \in {e.i - 1, e.i}
                          /\ \A k \in DOMAIN e.history : e.history[k] = Raw(e.days[k])
    BY DEF HistoryIsThePast
  <2>1. CASE job.kind = "walk"
    BY <1>1, <2>1 DEF PlaceInv, WalkIsAt, Looked
  <2>2. CASE job.kind = "session" /\ ~job.skipped
    <3>1. SessionAt(job.engine, Shown)
      BY <2>2 DEF PlaceInv, SessionIsAt, SessionAt
    <3> QED BY <1>1, <3>1 DEF SessionAt
  <2> QED BY <2>1, <2>2
<1> QED BY <1>2, PlaceAlways, PTL

------------------------------------------------------------------------------
(* What is retold *)

\* What a walk sees on the k-th day of its window.
StateOf(shown, w, k) == MarketState(Day(w, k), shown[Day(w, k)], Past(shown, w, k - 1))

UniverseOf(shown, w, k) == BuildUniverse(shown[Day(w, k)])

PromptOf(shown, w, k, prior) == Prompt(prior, StateOf(shown, w, k), UniverseOf(shown, w, k))

\* The first n decisions of a walk as the cache tells them, with the phase that
\* each prompt carried.
Trail(shown, files, w, n, decisions, phases) ==
    /\ phases[1] = NoPhase
    /\ \A k \in 1 .. n :
          LET p == PromptOf(shown, w, k, phases[k])
          IN  /\ p \in DOMAIN files
              /\ decisions[k] = ParseDecision(files[p], UniverseOf(shown, w, k))
              /\ phases[k + 1] = PriorOf(files[p])

\* A window that was told can be told again from the cache alone.
ToldIsTold ==
    \A w \in DOMAIN told :
        /\ w \in Windows /\ \A k \in 1 .. NDays(w) : Day(w, k) \in Stored
        /\ told[w] \in Seq({told[w][k] : k \in DOMAIN told[w]}) /\ Len(told[w]) = NDays(w)
        /\ \E phases : Trail(Shown, cache, w, NDays(w), told[w], phases)

\* A cached walk leaves its trail; in a window that was told it is on the old one.
WalkIsOnTrail ==
    job.kind = "walk" =>
        /\ job.stage = "decide" => /\ job.state = StateOf(Shown, job.window, job.engine.i)
                                   /\ job.universe = UniverseOf(Shown, job.window, job.engine.i)
        /\ (Cached(job.arm) /\ job.window \notin DOMAIN told) =>
              \E phases : /\ Trail(Shown, cache, job.window, Drafted, Decisions(job.drafts), phases)
                          /\ job.prior = phases[Drafted + 1]
        /\ (Cached(job.arm) /\ job.window \in DOMAIN told) =>
              /\ job.stage # "cache_miss"
              /\ \E phases :
                    /\ Trail(Shown, cache, job.window, NDays(job.window), told[job.window], phases)
                    /\ job.prior = phases[Drafted + 1]
                    /\ \A k \in 1 .. Drafted : job.drafts[k].decision = told[job.window][k]

TrailInv == ToldIsTold /\ WalkIsOnTrail

\* An answer that was saved is never replaced.
AnswersKept == \A p \in DOMAIN cache : p \in DOMAIN cache' /\ cache'[p] = cache[p]

LEMMA TrailIsKept ==
    ASSUME FilesKept, AnswersKept, NEW w \in Windows, NEW n \in 0 .. NDays(w),
           \A k \in 1 .. n : Day(w, k) \in Stored,
           NEW ds, NEW phases, Trail(Shown, cache, w, n, ds, phases)
    PROVE  Trail(Shown', cache', w, n, ds, phases)
<1>1. n \in Nat
  BY WindowIsCounted
<1>2. \A k \in 1 .. n : Shown'[Day(w, k)] = Shown[Day(w, k)]
  BY DayIsKept
<1>3. ASSUME NEW k \in 1 .. n PROVE Past(Shown', w, k - 1) = Past(Shown, w, k - 1)
  <2>1. \A j \in 1 .. k - 1 : j \in 1 .. n
    BY <1>1
  <2>2. \A j \in 1 .. k - 1 :
           RawSentiment(Shown'[Day(w, j)]) = RawSentiment(Shown[Day(w, j)])
    BY <1>2, <2>1
  <2> QED BY <2>2 DEF Past
<1>4. \A k \in 1 .. n : /\ StateOf(Shown', w, k) = StateOf(Shown, w, k)
                        /\ UniverseOf(Shown', w, k) = UniverseOf(Shown, w, k)
  BY <1>2, <1>3 DEF StateOf, UniverseOf
<1>5. \A k \in 1 .. n : PromptOf(Shown', w, k, phases[k]) = PromptOf(Shown, w, k, phases[k])
  BY <1>4 DEF PromptOf
<1> QED BY <1>4, <1>5 DEF Trail, AnswersKept

LEMMA ToldIsKept ==
    ASSUME FilesKept, AnswersKept, UNCHANGED told, ToldIsTold
    PROVE  ToldIsTold'
<1> SUFFICES ASSUME NEW w \in DOMAIN told
             PROVE  /\ w \in Windows /\ \A k \in 1 .. NDays(w) : Day(w, k) \in Stored'
                    /\ told[w] \in Seq({told[w][k] : k \in DOMAIN told[w]})
                    /\ Len(told[w]) = NDays(w)
                    /\ \E phases : Trail(Shown', cache', w, NDays(w), told[w], phases)
  BY DEF ToldIsTold
<1>1. /\ w \in Windows /\ \A k \in 1 .. NDays(w) : Day(w, k) \in Stored
      /\ told[w] \in Seq({told[w][k] : k \in DOMAIN told[w]}) /\ Len(told[w]) = NDays(w)
  BY DEF ToldIsTold
<1>2. PICK phases : Trail(Shown, cache, w, NDays(w), told[w], phases)
  BY DEF ToldIsTold
<1>3. NDays(w) \in 0 .. NDays(w)
  BY <1>1, WindowIsCounted
<1>4. Trail(Shown', cache', w, NDays(w), told[w], phases)
  BY <1>1, <1>2, <1>3, TrailIsKept
<1>5. \A k \in 1 .. NDays(w) : Day(w, k) \in Stored'
  BY <1>1, DayIsKept
<1> QED BY <1>1, <1>4, <1>5

\* Whatever is no walk and saves nothing.
LEMMA TrailFollows ==
    ASSUME TrailInv, FilesKept, UNCHANGED <<cache, told>>, job'.kind # "walk"
    PROVE  TrailInv'
<1>1. AnswersKept
  BY DEF AnswersKept
<1> QED BY <1>1, ToldIsKept DEF TrailInv, WalkIsOnTrail

LEMMA BeginWalkIsOnTrail ==
    ASSUME TrailInv, NEW w \in Windows, NEW arm \in Arms, NEW ruler \in Rulers,
           BeginWalk(w, arm, ruler)
    PROVE  TrailInv'
<1> DEFINE none == [k \in 1 .. 1 |-> NoPhase]
<1>1. /\ UNCHANGED <<cache, told>> /\ FilesKept /\ AnswersKept /\ Shown' = Shown
  BY ShownIsKept DEF BeginWalk, storeVars, FilesKept, AnswersKept
<1>2. /\ job'.kind = "walk" /\ job'.window = w /\ job'.stage = "observe" /\ job'.engine.i = 1
      /\ job'.drafts = << >> /\ job'.prior = NoPhase
  BY DEF BeginWalk, NewEngine
<1>3. Drafted' = 0
  BY <1>2 DEF Drafted, BeforeDecision
<1>4. Trail(Shown', cache', w, 0, Decisions(<< >>), none) /\ none[0 + 1] = NoPhase
  BY DEF Trail
<1>5. ASSUME w \in DOMAIN told
      PROVE  \E phases : /\ Trail(Shown, cache, w, NDays(w), told[w], phases)
                         /\ NoPhase = phases[0 + 1]
  <2>1. PICK phases : Trail(Shown, cache, w, NDays(w), told[w], phases)
    BY <1>5 DEF TrailInv, ToldIsTold
  <2>2. NoPhase = phases[0 + 1]
    BY <2>1 DEF Trail
  <2> QED BY <2>1, <2>2
<1>6. \A k \in 1 .. 0 : FALSE
  OBVIOUS
<1> HIDE DEF none
<1>7. WalkIsOnTrail'
  BY <1>1, <1>2, <1>3, <1>4, <1>5, <1>6 DEF WalkIsOnTrail
<1> QED BY <1>1, <1>7, ToldIsKept DEF TrailInv

LEMMA ObserveIsOnTrail ==
    ASSUME TrailInv, PlaceInv, ObserveDay
    PROVE  TrailInv'
<1> DEFINE w == job.window
           i == job.engine.i
<1>1. /\ UNCHANGED <<cache, told>> /\ FilesKept /\ AnswersKept /\ Shown' = Shown
      /\ job.kind = "walk" /\ job.stage = "observe"
  BY ShownIsKept DEF ObserveDay, At, Running, storeVars, FilesKept, AnswersKept
<1>2. Looked = i - 1 /\ Drafted = i - 1
  BY <1>1 DEF Looked, Drafted, BeforeLook, BeforeDecision
<1>3. /\ PlaceOf(job, Shown, i - 1, i - 1) /\ w \in Windows /\ i \in 1 .. NDays(w)
      /\ EngineAt(job.engine, Shown, w, i, i - 1)
  BY <1>1, <1>2, WalkIsPlaced DEF PlaceOf, PlaceInv
<1>4. ReadError(job.engine) \in {"", "snapshot"}
  BY <1>3, ReadErrorIsAt
<1>5. CASE ReadError(job.engine) # ""
  <2>1. job' = [job EXCEPT !.stage = "snapshot"]
    BY <1>4, <1>5 DEF ObserveDay, Fail
  <2>2. /\ job'.kind = "walk" /\ job'.stage = "snapshot" /\ job'.window = w
        /\ job'.engine = job.engine /\ job'.drafts = job.drafts /\ job'.prior = job.prior
        /\ job'.arm = job.arm
    BY <1>3, <2>1 DEF PlaceOf, IsRecord, WalkFields
  <2>3. Drafted' = Drafted
    BY <1>2, <2>2 DEF Drafted, BeforeDecision
  <2>4. WalkIsOnTrail'
    BY <1>1, <2>2, <2>3 DEF TrailInv, WalkIsOnTrail, Cached
  <2> QED BY <1>1, <2>4, ToldIsKept DEF TrailInv
<1>6. CASE ReadError(job.engine) = ""
  <2> DEFINE day   == Cursor(job.engine)
             state == MarketState(day, PoolsOn(day), job.engine.history)
             univ  == BuildUniverse(PoolsOn(day))
             eng   == Record(job.engine, state.raw)
  <2>1. job' = [job EXCEPT !.engine = eng, !.state = state, !.universe = univ,
                           !.stage = "decide"]
    BY <1>6 DEF ObserveDay
  <2>2. state = StateOf(Shown, w, i) /\ univ = UniverseOf(Shown, w, i)
    <3>1. Day(w, i) \in Nat
      BY <1>3, DaysOfWindow
    <3>2. day = Day(w, i)
      BY <1>3, CursorIsAt
    <3>3. job.engine.history = Past(Shown, w, i - 1)
      BY <1>3 DEF EngineAt
    <3>4. PoolsOn(Day(w, i)) = Shown[Day(w, i)]
      BY <3>1 DEF Shown
    <3> QED BY <3>2, <3>3, <3>4 DEF StateOf, UniverseOf
  <2>3. eng.i = i
    BY <1>3 DEF Record, EngineAt, IsRecord, EngineFields
  <2> HIDE DEF state, univ, eng
  <2>4. /\ job'.kind = "walk" /\ job'.stage = "decide" /\ job'.window = w
        /\ job'.engine = eng /\ job'.drafts = job.drafts /\ job'.prior = job.prior
        /\ job'.arm = job.arm /\ job'.state = state /\ job'.universe = univ
    BY <1>3, <2>1 DEF PlaceOf, IsRecord, WalkFields
  <2>5. Drafted' = Drafted
    BY <1>2, <2>3, <2>4 DEF Drafted, BeforeDecision
  <2>6. WalkIsOnTrail'
    BY <1>1, <2>2, <2>3, <2>4, <2>5 DEF TrailInv, WalkIsOnTrail, Cached
  <2> QED BY <1>1, <2>6, ToldIsKept DEF TrailInv
<1> QED BY <1>5, <1>6


\* A decision that the cache tells continues the trail; in a window that was told
\* it is the decision that was told.
LEMMA AnsweredIsOnTrail ==
    ASSUME TrailInv, PlaceInv, At("decide"), Cached(job.arm), UNCHANGED <<pools, told>>,
           AnswersKept, NEW answer, Answered(answer),
           TodaysPrompt \in DOMAIN cache', cache'[TodaysPrompt] = answer
    PROVE  TrailInv'
<1> DEFINE w == job.window
           i == job.engine.i
           p == TodaysPrompt
           decision == ParseDecision(answer, job.universe)
           draft == [day |-> Cursor(job.engine), mem |-> Membership(job.universe),
                     height |-> job.state.height, entries |-> Entries(decision),
                     decision |-> decision, scored |-> FALSE, outcomes |-> {}]
           drafts == Append(job.drafts, draft)
<1>1. /\ FilesKept /\ Shown' = Shown /\ job.kind = "walk" /\ job.stage = "decide"
  BY ShownIsKept DEF At, Running, FilesKept
<1>2. Looked = i /\ Drafted = i - 1
  BY <1>1 DEF Looked, Drafted, BeforeLook, BeforeDecision
<1>3. /\ PlaceOf(job, Shown, i, i - 1) /\ w \in Windows /\ i \in 1 .. NDays(w) /\ i \in Nat
      /\ \A k \in 1 .. i : Day(w, k) \in Stored
      /\ Len(job.drafts) = i - 1
  <2>1. /\ PlaceOf(job, Shown, i, i - 1)
        /\ \A k \in 1 .. i : Day(w, k) \in Stored
    BY <1>1, <1>2, WalkIsPlaced DEF PlaceInv
  <2>2. w \in Windows /\ i \in 1 .. NDays(w) /\ Len(job.drafts) = i - 1
    BY <2>1 DEF PlaceOf
  <2>3. i \in Nat
    BY <2>2, WindowIsCounted
  <2> QED BY <2>1, <2>2, <2>3
<1>4. /\ job.universe = UniverseOf(Shown, w, i) /\ p = PromptOf(Shown, w, i, job.prior)
  BY <1>1 DEF TrailInv, WalkIsOnTrail, TodaysPrompt, PromptOf
<1>5. decision = ParseDecision(cache'[p], UniverseOf(Shown, w, i))
  BY <1>4
<1>6. job' = [job EXCEPT !.drafts = drafts, !.pending = @ \cup {Len(job.drafts) + 1},
                         !.prior = PriorOf(answer), !.stage = "settle"]
  BY DEF Answered, Decided
<1>7. draft.decision = decision
  OBVIOUS
<1> HIDE DEF draft, decision, p
<1>8. /\ Len(drafts) = i /\ drafts[i].decision = decision
      /\ \A k \in 1 .. i - 1 : drafts[k] = job.drafts[k]
  <2> DEFINE S == {job.drafts[k] : k \in DOMAIN job.drafts} \cup {draft}
  <2>1. job.drafts \in Seq(S)
    BY <1>3 DEF PlaceOf
  <2>2. draft \in S
    OBVIOUS
  <2> HIDE DEF S
  <2> QED BY <1>3, <1>7, <2>1, <2>2
<1>9. DOMAIN drafts = 1 .. i
  <2> DEFINE S == {job.drafts[k] : k \in DOMAIN job.drafts} \cup {draft}
  <2>1. job.drafts \in Seq(S)
    BY <1>3 DEF PlaceOf
  <2>2. draft \in S
    OBVIOUS
  <2> HIDE DEF S
  <2> QED BY <1>3, <2>1, <2>2
<1> HIDE DEF drafts
<1>10. /\ job'.kind = "walk" /\ job'.stage = "settle" /\ job'.window = w /\ job'.engine = job.engine
       /\ job'.drafts = drafts /\ job'.prior = PriorOf(answer) /\ job'.arm = job.arm
  BY <1>3, <1>6 DEF PlaceOf, IsRecord, WalkFields
<1>11. Drafted' = i
  BY <1>10 DEF Drafted, BeforeDecision
<1>12. ToldIsTold'
  BY <1>1, ToldIsKept DEF TrailInv
<1>13. CASE w \notin DOMAIN told
  <2>1. PICK phases : /\ Trail(Shown, cache, w, i - 1, Decisions(job.drafts), phases)
                      /\ job.prior = phases[i]
    <3>1. (i - 1) + 1 = i
      BY <1>3
    <3> QED BY <1>1, <1>2, <1>13, <3>1 DEF TrailInv, WalkIsOnTrail
  <2>2. i - 1 \in 0 .. NDays(w) /\ \A k \in 1 .. i - 1 : Day(w, k) \in Stored
    <3>1. NDays(w) \in Nat
      BY <1>3, WindowIsCounted
    <3>2. \A k \in 1 .. i - 1 : k \in 1 .. i
      BY <1>3
    <3> QED BY <1>3, <3>1, <3>2
  <2>3. Trail(Shown, cache', w, i - 1, Decisions(job.drafts), phases)
    BY <1>1, <1>3, <2>1, <2>2, TrailIsKept
  <2> DEFINE more == [k \in 1 .. i + 1 |-> IF k = i + 1 THEN PriorOf(answer) ELSE phases[k]]
  <2>4. /\ more[i + 1] = PriorOf(answer) /\ more[1] = phases[1]
        /\ \A k \in 1 .. i : more[k] = phases[k]
    BY <1>3
  <2>5. /\ Decisions(drafts)[i] = decision
        /\ \A k \in 1 .. i - 1 : Decisions(drafts)[k] = Decisions(job.drafts)[k]
    <3>1. DOMAIN job.drafts = 1 .. i - 1
      BY <1>3 DEF PlaceOf
    <3> QED BY <1>3, <1>8, <1>9, <3>1 DEF Decisions
  <2> HIDE DEF more
  <2>6. Trail(Shown, cache', w, i, Decisions(drafts), more)
    <3>1. more[1] = NoPhase
      BY <2>3, <2>4 DEF Trail
    <3> DEFINE q(k) == PromptOf(Shown, w, k, more[k])
    <3>2. ASSUME NEW k \in 1 .. i
          PROVE  /\ q(k) \in DOMAIN cache'
                 /\ Decisions(drafts)[k] = ParseDecision(cache'[q(k)], UniverseOf(Shown, w, k))
                 /\ more[k + 1] = PriorOf(cache'[q(k)])
      <4>1. CASE k = i
        <5>1. q(k) = p
          BY <1>4, <2>1, <2>4, <4>1
        <5> QED BY <1>5, <2>4, <2>5, <4>1, <5>1 DEF p
      <4>2. CASE k # i
        <5>1. k \in 1 .. i - 1 /\ k + 1 \in 1 .. i
          BY <1>3, <4>2
        <5> QED BY <2>3, <2>4, <2>5, <5>1 DEF Trail
      <4> QED BY <4>1, <4>2
    <3> QED BY <3>1, <3>2 DEF Trail
  <2>7. WalkIsOnTrail'
    BY <1>1, <1>10, <1>11, <1>13, <2>4, <2>6 DEF WalkIsOnTrail, Cached
  <2> QED BY <1>12, <2>7 DEF TrailInv
<1>14. CASE w \in DOMAIN told
  <2>1. PICK phases : /\ Trail(Shown, cache, w, NDays(w), told[w], phases)
                      /\ job.prior = phases[i]
                      /\ \A k \in 1 .. i - 1 : job.drafts[k].decision = told[w][k]
    <3>1. (i - 1) + 1 = i
      BY <1>3
    <3> QED BY <1>1, <1>2, <1>14, <3>1 DEF TrailInv, WalkIsOnTrail
  <2>2. NDays(w) \in 0 .. NDays(w) /\ \A k \in 1 .. NDays(w) : Day(w, k) \in Stored
    <3>1. NDays(w) \in Nat
      BY <1>3, WindowIsCounted
    <3>2. \A k \in 1 .. NDays(w) : Day(w, k) \in Stored
      BY <1>14 DEF TrailInv, ToldIsTold
    <3> QED BY <3>1, <3>2
  <2>3. Trail(Shown, cache', w, NDays(w), told[w], phases)
    BY <1>1, <1>3, <2>1, <2>2, TrailIsKept
  <2>4. PromptOf(Shown, w, i, phases[i]) = p
    BY <1>4, <2>1
  <2>5. told[w][i] = decision /\ phases[i + 1] = PriorOf(answer)
    BY <1>3, <1>5, <2>3, <2>4 DEF Trail, p
  <2>6. \A k \in 1 .. i : drafts[k].decision = told[w][k]
    <3> TAKE k \in 1 .. i
    <3>1. CASE k = i
      BY <1>8, <2>5, <3>1
    <3>2. CASE k # i
      <4>1. k \in 1 .. i - 1
        BY <1>3, <3>2
      <4> QED BY <1>8, <2>1, <4>1
    <3> QED BY <3>1, <3>2
  <2>7. WalkIsOnTrail'
    BY <1>1, <1>10, <1>11, <1>14, <2>3, <2>5, <2>6 DEF WalkIsOnTrail, Cached
  <2> QED BY <1>12, <2>7 DEF TrailInv
<1> QED BY <1>13, <1>14

\* In a window that was told, the prompt of the day is in the cache.
LEMMA ToldIsHit ==
    ASSUME TrailInv, PlaceInv, At("decide"), Cached(job.arm), job.window \in DOMAIN told
    PROVE  TodaysPrompt \in DOMAIN cache
<1> DEFINE w == job.window
           i == job.engine.i
<1>1. job.kind = "walk" /\ job.stage = "decide"
  BY DEF At, Running
<1>2. Looked = i /\ Drafted = i - 1
  BY <1>1 DEF Looked, Drafted, BeforeLook, BeforeDecision
<1>3. i \in 1 .. NDays(w) /\ i \in Nat /\ (i - 1) + 1 = i
  BY <1>1, WindowIsCounted DEF PlaceInv, WalkIsAt
<1>4. PICK phases : /\ Trail(Shown, cache, w, NDays(w), told[w], phases)
                    /\ job.prior = phases[i]
  BY <1>1, <1>2, <1>3 DEF TrailInv, WalkIsOnTrail
<1>5. TodaysPrompt = PromptOf(Shown, w, i, phases[i])
  BY <1>1, <1>4 DEF TrailInv, WalkIsOnTrail, TodaysPrompt, PromptOf
<1> QED BY <1>3, <1>4, <1>5 DEF Trail

\* A decision of an arm that does not use the cache leaves no trail.
LEMMA UncachedIsOnTrail ==
    ASSUME TrailInv, PlaceInv, At("decide"), ~Cached(job.arm), UNCHANGED <<pools, cache, told>>,
           NEW decision, NEW prior, Decided(decision, prior)
    PROVE  TrailInv'
<1>1. FilesKept /\ AnswersKept /\ job.kind = "walk"
  BY DEF FilesKept, AnswersKept, At, Running
<1>2. job'.kind = "walk" /\ job'.stage = "settle" /\ job'.arm = job.arm
  BY <1>1 DEF Decided, PlaceInv, WalkIsAt, IsRecord, WalkFields
<1> QED BY <1>1, <1>2, ToldIsKept DEF TrailInv, WalkIsOnTrail, Cached

LEMMA DecideBaselineIsOnTrail ==
    ASSUME TrailInv, PlaceInv, DecideBaseline
    PROVE  TrailInv'
<1>1. /\ At("decide") /\ ~Cached(job.arm) /\ UNCHANGED <<pools, cache, told>>
      /\ \E decision : Decided(decision, NoPhase)
  BY DEF DecideBaseline, storeVars, Cached
<1> QED BY <1>1, UncachedIsOnTrail

LEMMA DecideFromCacheIsOnTrail ==
    ASSUME TrailInv, PlaceInv, DecideFromCache
    PROVE  TrailInv'
<1>1. /\ At("decide") /\ Cached(job.arm) /\ UNCHANGED <<pools, cache, told>> /\ AnswersKept
      /\ TodaysPrompt \in DOMAIN cache /\ Answered(cache[TodaysPrompt])
  BY DEF DecideFromCache, storeVars, Cached, Hit, AnswersKept
<1> QED BY <1>1, AnsweredIsOnTrail

LEMMA DecideLiveIsOnTrail ==
    ASSUME TrailInv, PlaceInv, DecideLive
    PROVE  TrailInv'
<1>1. /\ At("decide") /\ UNCHANGED <<pools, told>> /\ job.arm \in {"llm_off", "llm_read_write"}
  BY DEF DecideLive, storeVars
<1>2. PICK answer : /\ Answered(answer)
                    /\ cache' = IF job.arm = "llm_off" THEN cache
                                ELSE Put(cache, TodaysPrompt, answer)
  BY DEF DecideLive
<1>3. CASE job.arm = "llm_off"
  <2>1. ~Cached(job.arm) /\ UNCHANGED cache
    BY <1>2, <1>3 DEF Cached
  <2>2. \E decision, prior : Decided(decision, prior)
    BY <1>2 DEF Answered
  <2> QED BY <1>1, <2>1, <2>2, UncachedIsOnTrail
<1>4. CASE job.arm = "llm_read_write"
  <2>1. Cached(job.arm) /\ TodaysPrompt \notin DOMAIN cache
    BY <1>4 DEF Cached, DecideLive, Hit
  <2> DEFINE p == TodaysPrompt
  <2>2. cache' = Put(cache, p, answer)
    BY <1>2, <1>4
  <2> HIDE DEF p
  <2>3. p \in DOMAIN cache' /\ cache'[p] = answer
    BY <2>2 DEF Put
  <2>4. AnswersKept
    BY <2>1, <2>2 DEF AnswersKept, Put, p
  <2> QED BY <1>1, <1>2, <2>1, <2>3, <2>4, AnsweredIsOnTrail DEF p
<1> QED BY <1>1, <1>3, <1>4

LEMMA MissIsOnTrail ==
    ASSUME TrailInv, PlaceInv, MissReadOnly
    PROVE  TrailInv'
<1>1. /\ At("decide") /\ job.kind = "walk" /\ job.stage = "decide" /\ Cached(job.arm)
      /\ TodaysPrompt \notin DOMAIN cache /\ UNCHANGED <<pools, cache, told>>
      /\ FilesKept /\ AnswersKept /\ Shown' = Shown
      /\ job' = [job EXCEPT !.stage = "cache_miss"]
  BY ShownIsKept DEF MissReadOnly, At, Running, Cached, Hit, Fail, storeVars, FilesKept, AnswersKept
<1>2. job.window \notin DOMAIN told
  BY <1>1, ToldIsHit
<1>3. /\ job'.kind = "walk" /\ job'.stage = "cache_miss" /\ job'.window = job.window
      /\ job'.engine = job.engine /\ job'.drafts = job.drafts /\ job'.prior = job.prior
      /\ job'.arm = job.arm
  BY <1>1 DEF PlaceInv, WalkIsAt, IsRecord, WalkFields
<1>4. Drafted' = Drafted
  BY <1>1, <1>3 DEF Drafted, BeforeDecision
<1>5. WalkIsOnTrail'
  BY <1>1, <1>2, <1>3, <1>4 DEF TrailInv, WalkIsOnTrail, Cached
<1> QED BY <1>1, <1>5, ToldIsKept DEF TrailInv


LEMMA SettleIsOnTrail ==
    ASSUME TrailInv, PlaceInv, SettleAndStep
    PROVE  TrailInv'
<1> DEFINE w == job.window
           i == job.engine.i
           ripe == {j \in job.pending : Len(job.drafts) >= j + job.horizon}
           drafts == [j \in DOMAIN job.drafts |->
                        IF j \in ripe
                        THEN [job.drafts[j] EXCEPT !.scored = TRUE,
                                                   !.outcomes = ScoreStep(job.drafts, j)]
                        ELSE job.drafts[j]]
<1>1. /\ UNCHANGED <<cache, told>> /\ FilesKept /\ AnswersKept /\ Shown' = Shown
      /\ job.kind = "walk" /\ job.stage = "settle" /\ At("settle")
  BY ShownIsKept DEF SettleAndStep, At, Running, storeVars, FilesKept, AnswersKept
<1>2. Looked = i /\ Drafted = i
  BY <1>1 DEF Looked, Drafted, BeforeLook, BeforeDecision
<1>3. PlaceOf(job, Shown, i, i) /\ w \in Windows /\ i \in 1 .. NDays(w) /\ i \in Nat
  BY <1>1, <1>2, WalkIsPlaced, WindowIsCounted DEF PlaceOf, PlaceInv
<1>4. ScoreRipe(ripe)
  BY <1>1, RipeIsAllowed DEF SettleAndStep, PlaceInv
<1>5. job' = [job EXCEPT !.drafts = drafts, !.pending = @ \ ripe,
                         !.engine = IF CanStep(@) THEN Step(@) ELSE @,
                         !.stage = IF CanStep(job.engine) THEN "observe" ELSE "ended"]
  BY <1>4 DEF ScoreRipe
<1>6. DOMAIN drafts = DOMAIN job.drafts /\ DOMAIN job.drafts = 1 .. i
  BY <1>3 DEF PlaceOf
<1>7. \A k \in 1 .. i : drafts[k].decision = job.drafts[k].decision
  <2> TAKE k \in 1 .. i
  <2>1. DOMAIN job.drafts[k] = Draft
    BY <1>3 DEF PlaceOf
  <2>2. CASE k \in ripe
    <3> DEFINE score == ScoreStep(job.drafts, k)
    <3>1. drafts[k] = [job.drafts[k] EXCEPT !.scored = TRUE, !.outcomes = score]
      BY <1>6, <2>2
    <3> HIDE DEF score, drafts
    <3> QED BY <2>1, <3>1 DEF Draft
  <2>3. CASE k \notin ripe
    BY <1>6, <2>3
  <2> QED BY <2>2, <2>3
<1> HIDE DEF drafts, ripe
<1>8. Decisions(drafts) = Decisions(job.drafts)
  BY <1>6, <1>7 DEF Decisions
<1>9. /\ job'.kind = "walk" /\ job'.window = w /\ job'.drafts = drafts
      /\ job'.prior = job.prior /\ job'.arm = job.arm
      /\ job'.engine = IF CanStep(job.engine) THEN Step(job.engine) ELSE job.engine
      /\ job'.stage = IF CanStep(job.engine) THEN "observe" ELSE "ended"
  BY <1>3, <1>5 DEF PlaceOf, IsRecord, WalkFields
<1>10. Drafted' = i
  <2>1. CASE CanStep(job.engine)
    <3>1. Step(job.engine).i = i + 1
      BY <1>3 DEF PlaceOf, EngineAt, IsRecord, EngineFields, Step
    <3>2. job'.stage = "observe" /\ job'.engine.i = i + 1
      BY <1>9, <2>1, <3>1
    <3> QED BY <1>3, <3>2 DEF Drafted, BeforeDecision
  <2>2. CASE ~CanStep(job.engine)
    <3>1. job'.stage = "ended" /\ job'.engine.i = i
      BY <1>9, <2>2
    <3> QED BY <3>1 DEF Drafted, BeforeDecision
  <2> QED BY <2>1, <2>2
<1>11. job'.stage \notin {"decide", "cache_miss"}
  BY <1>9
<1>12. WalkIsOnTrail'
  BY <1>1, <1>2, <1>7, <1>8, <1>9, <1>10, <1>11 DEF TrailInv, WalkIsOnTrail, Cached
<1> QED BY <1>1, <1>12, ToldIsKept DEF TrailInv

\* The first cached walk of a window that ends is the one that is retold.
LEMMA EndWalkIsOnTrail ==
    ASSUME TrailInv, PlaceInv, EndWalk
    PROVE  TrailInv'
<1> DEFINE w == job.window
           i == job.engine.i
           ds == Decisions(job.drafts)
<1>1. /\ UNCHANGED cache /\ FilesKept /\ AnswersKept /\ Shown' = Shown /\ Stored' = Stored
      /\ job'.kind = "none" /\ WalkIsOnTrail'
  BY ShownIsKept DEF EndWalk, NoJob, storeVars, FilesKept, AnswersKept, WalkIsOnTrail
<1>2. CASE UNCHANGED told
  BY <1>1, <1>2, ToldIsKept DEF TrailInv
<1>3. CASE /\ At("ended") /\ Cached(job.arm) /\ w \notin DOMAIN told
           /\ told' = Put(told, w, ds)
  <2>1. job.kind = "walk" /\ job.stage = "ended"
    BY <1>3 DEF At, Running
  <2>2. Looked = i /\ Drafted = i
    BY <2>1 DEF Looked, Drafted, BeforeLook, BeforeDecision
  <2>3. /\ PlaceOf(job, Shown, i, i) /\ w \in Windows /\ i \in Nat /\ i = NDays(w)
        /\ \A k \in 1 .. i : Day(w, k) \in Stored
    BY <2>1, <2>2, WalkIsPlaced, WindowIsCounted DEF PlaceOf, PlaceInv, WalkIsAt
  <2>4. \E phases : Trail(Shown, cache, w, i, ds, phases)
    BY <1>3, <2>1, <2>2 DEF TrailInv, WalkIsOnTrail
  <2>5. ds \in Seq({ds[k] : k \in DOMAIN ds}) /\ Len(ds) = i
    <3>1. DOMAIN job.drafts = 1 .. i
      BY <2>3 DEF PlaceOf
    <3> DEFINE S == {ds[k] : k \in DOMAIN ds}
    <3>2. DOMAIN ds = 1 .. i /\ ds \in [1 .. i -> S]
      BY <3>1 DEF Decisions
    <3> HIDE DEF S, ds
    <3>3. ds \in Seq(S) /\ Len(ds) = i
      BY <2>3, <3>2
    <3> QED BY <3>3 DEF S
  <2> HIDE DEF ds
  <2>6. /\ DOMAIN told' = DOMAIN told \cup {w} /\ told'[w] = ds
        /\ \A v \in DOMAIN told : told'[v] = told[v]
    BY <1>3 DEF Put
  <2> SUFFICES ASSUME NEW v \in DOMAIN told'
               PROVE  /\ v \in Windows /\ \A k \in 1 .. NDays(v) : Day(v, k) \in Stored'
                      /\ told'[v] \in Seq({told'[v][k] : k \in DOMAIN told'[v]})
                      /\ Len(told'[v]) = NDays(v)
                      /\ \E phases : Trail(Shown', cache', v, NDays(v), told'[v], phases)
    BY <1>1 DEF TrailInv, ToldIsTold
  <2>7. CASE v = w
    BY <1>1, <2>3, <2>4, <2>5, <2>6, <2>7
  <2>8. CASE v # w
    <3>1. v \in DOMAIN told /\ told'[v] = told[v]
      BY <2>6, <2>8
    <3> QED BY <1>1, <3>1 DEF TrailInv, ToldIsTold
  <2> QED BY <2>7, <2>8
<1> QED BY <1>2, <1>3 DEF EndWalk

LEMMA NextTrail == PlaceInv /\ TrailInv /\ [WalkNext]_vars => TrailInv'
<1> SUFFICES ASSUME PlaceInv, TrailInv, [WalkNext]_vars PROVE TrailInv'
  OBVIOUS
<1>0. FilesKept
  BY NextPlace
<1>1. CASE Die
  BY <1>0, <1>1, TrailFollows DEF Die, NoJob
<1>2. CASE Revise
  BY <1>0, <1>2, TrailFollows DEF Revise, NoJob
<1>3. ASSUME NEW w \in Windows, BeginCapture(w) PROVE TrailInv'
  BY <1>0, <1>3, TrailFollows DEF BeginCapture, NewCapture
<1>4. CASE CapturePool
  <2>1. job'.kind = "capture"
    BY <1>4 DEF CapturePool, Collect, Running, PlaceInv, CaptureIsAt, IsRecord
  <2> QED BY <1>0, <1>4, <2>1, TrailFollows DEF CapturePool
<1>5. CASE CaptureBars
  BY <1>0, <1>5, TrailFollows DEF CaptureBars, Running
<1>6. CASE EndCapture
  BY <1>0, <1>6, TrailFollows DEF EndCapture, NoJob
<1>7. ASSUME NEW w \in Windows, NEW arm \in Arms, NEW r \in Rulers, BeginWalk(w, arm, r)
      PROVE  TrailInv'
  BY <1>7, BeginWalkIsOnTrail
<1>8. CASE ObserveDay
  BY <1>8, ObserveIsOnTrail
<1>9. CASE DecideBaseline
  BY <1>9, DecideBaselineIsOnTrail
<1>10. CASE DecideFromCache
  BY <1>10, DecideFromCacheIsOnTrail
<1>11. CASE DecideLive
  BY <1>11, DecideLiveIsOnTrail
<1>12. CASE MissReadOnly
  BY <1>12, MissIsOnTrail
<1>13. CASE SettleAndStep
  BY <1>13, SettleIsOnTrail
<1>14. CASE EndWalk
  BY <1>14, EndWalkIsOnTrail
<1>15. ASSUME NEW w \in Windows, BeginSession(w) PROVE TrailInv'
  BY <1>0, <1>15, TrailFollows DEF BeginSession
<1>16. CASE SessionObserve
  <2>1. job'.kind = "session"
    BY <1>16, SessionObserveKeeps DEF PlaceInv
  <2> QED BY <1>0, <1>16, <2>1, TrailFollows DEF SessionObserve
<1>17. CASE SessionStep
  <2>1. job'.kind = "session"
    BY <1>17, SessionStepKeeps DEF PlaceInv
  <2> QED BY <1>0, <1>17, <2>1, TrailFollows DEF SessionStep
<1>18. ASSUME NEW k \in DOMAIN job.engine.days, SessionReset(k) PROVE TrailInv'
  <2>1. job'.kind = "session"
    BY <1>18, SessionResetKeeps DEF PlaceInv
  <2> QED BY <1>0, <1>18, <2>1, TrailFollows DEF SessionReset
<1>19. CASE EndSession
  BY <1>0, <1>19, TrailFollows DEF EndSession, NoJob
<1>20. CASE UNCHANGED vars
  <2>1. UNCHANGED <<pools, cache, told, job>> /\ Shown' = Shown /\ AnswersKept
    BY <1>20, ShownIsKept DEF vars, storeVars, AnswersKept
  <2>2. Drafted' = Drafted
    BY <2>1 DEF Drafted
  <2>3. WalkIsOnTrail'
    BY <2>1, <2>2 DEF TrailInv, WalkIsOnTrail
  <2> QED BY <1>0, <2>1, <2>3, ToldIsKept DEF TrailInv
<1> QED BY <1>1, <1>2, <1>3, <1>4, <1>5, <1>6, <1>7, <1>8, <1>9, <1>10, <1>11, <1>12, <1>13,
           <1>14, <1>15, <1>16, <1>17, <1>18, <1>19, <1>20 DEF WalkNext

LEMMA TrailAlways == WalkSpec => []TrailInv
<1>1. WalkInit => TrailInv
  <2>1. DOMAIN << >> = {}
    OBVIOUS
  <2> QED BY <2>1 DEF WalkInit, NoJob, TrailInv, ToldIsTold, WalkIsOnTrail
<1>2. PlaceInv /\ TrailInv /\ [WalkNext]_vars => TrailInv'
  BY NextTrail
<1> QED BY <1>1, <1>2, PlaceAlways, PTL DEF WalkSpec

\* A window that was walked with the cache once makes the same decisions in every
\* later cached walk, and a read-only walk of it never misses -- for any prompts
\* that ran into each other, any deaths, revisions and captures in between, and any
\* number of jobs (CachedLLMClient under LLMAgentPolicy).
THEOREM WalksAreRetold == WalkSpec => []RecordingIsRetold
<1>1. PlaceInv /\ TrailInv => RecordingIsRetold
  <2> SUFFICES ASSUME PlaceInv, TrailInv, job.kind = "walk", Cached(job.arm),
                      job.window \in DOMAIN told
               PROVE  /\ job.stage # "cache_miss"
                      /\ Decisions(job.drafts) = SubSeq(told[job.window], 1, Len(job.drafts))
    BY DEF RecordingIsRetold
  <2> DEFINE w == job.window
             n == Drafted
             old == told[w]
             S == {old[k] : k \in DOMAIN old}
  <2>1. job.stage # "cache_miss" /\ \A k \in 1 .. n : job.drafts[k].decision = old[k]
    BY DEF TrailInv, WalkIsOnTrail
  <2>2. old \in Seq(S) /\ Len(old) = NDays(w) /\ w \in Windows
    BY DEF TrailInv, ToldIsTold
  <2>3. DOMAIN job.drafts = 1 .. n /\ Len(job.drafts) = n /\ n \in 0 .. NDays(w)
    <3>1. w \in Windows /\ job.engine.i \in 1 .. NDays(w) /\ Len(job.drafts) = n
          /\ job.drafts \in Seq({job.drafts[j] : j \in DOMAIN job.drafts})
      BY DEF PlaceInv, WalkIsAt
    <3>2. n \in {job.engine.i - 1, job.engine.i}
      BY DEF Drafted
    <3>3. n \in 0 .. NDays(w)
      BY <3>1, <3>2, WindowIsCounted
    <3> QED BY <3>1, <3>3
  <2> HIDE DEF n, S
  <2>4. SubSeq(old, 1, n) = [k \in 1 .. n |-> old[k]]
    <3>1. NDays(w) \in Nat
      BY <2>2, WindowIsCounted
    <3> HIDE DEF old, w
    <3> QED BY <2>2, <2>3, <3>1
  <2>5. Decisions(job.drafts) = [k \in 1 .. n |-> old[k]]
    BY <2>1, <2>3 DEF Decisions
  <2> QED BY <2>1, <2>3, <2>4, <2>5
<1> QED BY <1>1, PlaceAlways, TrailAlways, PTL

------------------------------------------------------------------------------
(* What is stored was said by the source *)

\* Rows and bars are those of some version of the market, and so are told the
\* answers of the model.
FilesAreOfWorlds ==
    \A f \in DOMAIN pools :
        /\ f \in Kinds \X (1 .. LastDay)
        /\ \A r \in pools[f] : \E v \in DOMAIN World, c \in Codes : r = RowOf(World[v], c, f[2])

BarsAreOfWorlds ==
    \A c \in DOMAIN ohlcv :
        /\ c \in Codes
        /\ ohlcv[c] # << >> =>
              \E v \in DOMAIN World, w \in Windows : ohlcv[c] = LiveBars(World[v], c, w)

AnswersAreKnown == \A p \in DOMAIN cache : cache[p] \in Answers

WorldInv == live \in DOMAIN World /\ FilesAreOfWorlds /\ BarsAreOfWorlds /\ AnswersAreKnown

\* What a version says of a stock on a day.
LEMMA WorldTyped ==
    ASSUME NEW v \in DOMAIN World, NEW c \in Codes, NEW d \in 1 .. LastDay
    PROVE  World[v][c][d] \in StockDay
BY WorldAssumption

LEMMA DaysAreKnown ==
    ASSUME NEW w \in Windows
    PROVE  w[1] .. w[2] \subseteq 1 .. LastDay
<1>1. w[2] \in Nat /\ w[2] <= LastDay /\ LastDay \in Nat
  BY WindowsAssumption
<1> QED BY <1>1, WindowIsCounted

LEMMA ItemIsAPool ==
    ASSUME NEW w \in Windows, NEW n \in 1 .. PoolItems(w)
    PROVE  Item(w, n) \in Kinds \X (1 .. LastDay) /\ Item(w, n)[2] \in 1 .. LastDay
<1>1. w[1] \in Nat /\ w[2] \in Nat /\ PoolItems(w) = 4 * NDays(w) /\ w[1] <= w[2]
  <2>1. Len(TradingDays(w)) = NDays(w)
    BY DaysOfWindow
  <2> QED BY <2>1, WindowIsCounted, KindsAre DEF PoolItems
<1> DEFINE i == ((n - 1) % 4) + 1
           d == w[1] + ((n - 1) \div 4)
<1>2. n \in Nat /\ n >= 1 /\ n <= 4 * (w[2] - w[1] + 1)
  BY <1>1 DEF NDays
<1>3. i \in 1 .. 4
  BY <1>2
<1>4. d \in w[1] .. w[2]
  BY <1>1, <1>2
<1>5. KindSeq[i] \in Kinds
  <2>1. DOMAIN KindSeq = 1 .. 4
    BY DEF KindSeq
  <2> QED BY <1>3, <2>1 DEF Kinds
<1>6. Item(w, n) = <<KindSeq[i], d>>
  BY KindsAre DEF Item
<1>7. d \in 1 .. LastDay
  BY <1>4, DaysAreKnown
<1> HIDE DEF i, d
<1> QED BY <1>5, <1>6, <1>7

LEMMA CapturePoolIsOfWorld ==
    ASSUME PlaceInv, WorldInv, CapturePool
    PROVE  WorldInv'
<1> DEFINE w == job.window
           item == Item(w, job.at)
           frame == LiveFrame(World[live], item[1], item[2])
<1>1. w \in Windows /\ job.at \in 1 .. PoolItems(w)
  <2>1. job.kind = "capture" /\ job.at <= PoolItems(w)
    BY DEF CapturePool, Running, AtPools
  <2>2. w \in Windows /\ job.at \in 1 .. PoolItems(w) + 1
    BY <2>1 DEF PlaceInv, CaptureIsAt, CapturedAreWhole
  <2>3. PoolItems(w) \in Nat
    BY <2>2, WindowIsCounted, KindsAre DEF PoolItems
  <2> QED BY <2>1, <2>2, <2>3
<1>2. item \in Kinds \X (1 .. LastDay)
  BY <1>1, ItemIsAPool
<1>3. \A r \in frame : \E v \in DOMAIN World, c \in Codes : r = RowOf(World[v], c, item[2])
  BY DEF WorldInv, LiveFrame, InPool
<1>4. UNCHANGED <<live, ohlcv, cache>>
  BY DEF CapturePool
<1>5. FilesAreOfWorlds'
  <2>1. CASE UNCHANGED pools
    BY <2>1 DEF WorldInv, FilesAreOfWorlds
  <2>2. CASE pools' = Put(pools, item, frame)
    <3> HIDE DEF item, frame
    <3>1. /\ DOMAIN pools' = DOMAIN pools \cup {item} /\ pools'[item] = frame
          /\ \A f \in DOMAIN pools : f # item => pools'[f] = pools[f]
      BY <2>2 DEF Put
    <3> QED BY <1>2, <1>3, <3>1 DEF WorldInv, FilesAreOfWorlds
  <2> QED BY <2>1, <2>2 DEF CapturePool, PutPool
<1> QED BY <1>4, <1>5 DEF WorldInv, BarsAreOfWorlds, AnswersAreKnown

LEMMA CaptureBarsIsOfWorld ==
    ASSUME PlaceInv, WorldInv, CaptureBars
    PROVE  WorldInv'
<1> DEFINE w == job.window
           i == Min(BarsDue(job))
           c == CodeSeq[i]
<1>1. w \in Windows
  BY DEF CaptureBars, Running, PlaceInv, CaptureIsAt, CapturedAreWhole
<1>2. c \in Codes
  <2>1. BarsDue(job) \subseteq Nat /\ BarsDue(job) \subseteq DOMAIN CodeSeq
    BY CodeSeqAssumption DEF BarsDue
  <2>2. BarsDue(job) # {}
    BY DEF CaptureBars
  <2>3. PICK x \in BarsDue(job) : \A y \in BarsDue(job) : x <= y
    BY <2>1, <2>2, LeastElement
  <2>4. i \in BarsDue(job)
    BY <2>3 DEF Min
  <2> QED BY <2>1, <2>4, CodeSeqAssumption
<1>3. PICK answer \in BarAnswers(c) \ {"down"} :
         ohlcv' = Put(ohlcv, c, IF answer = "data" THEN LiveBars(World[live], c, w) ELSE << >>)
  BY DEF CaptureBars, PutBars
<1> DEFINE bars == IF answer = "data" THEN LiveBars(World[live], c, w) ELSE << >>
<1>4. UNCHANGED <<live, pools, cache>>
  BY DEF CaptureBars
<1>5. /\ DOMAIN ohlcv' = DOMAIN ohlcv \cup {c} /\ ohlcv'[c] = bars
      /\ \A x \in DOMAIN ohlcv : x # c => ohlcv'[x] = ohlcv[x]
  <2>1. ohlcv' = Put(ohlcv, c, bars)
    BY <1>3
  <2> HIDE DEF c, bars
  <2> QED BY <2>1 DEF Put
<1>6. bars # << >> => \E v \in DOMAIN World, u \in Windows : bars = LiveBars(World[v], c, u)
  BY <1>1 DEF WorldInv
<1> HIDE DEF c, bars
<1>7. BarsAreOfWorlds'
  BY <1>2, <1>5, <1>6 DEF WorldInv, BarsAreOfWorlds
<1> QED BY <1>4, <1>7 DEF WorldInv, FilesAreOfWorlds, AnswersAreKnown

LEMMA NextWorld == PlaceInv /\ WorldInv /\ [WalkNext]_vars => WorldInv'
<1> SUFFICES ASSUME PlaceInv, WorldInv, [WalkNext]_vars PROVE WorldInv'
  OBVIOUS
<1>1. CASE UNCHANGED <<live, pools, ohlcv, cache>>
  BY <1>1 DEF WorldInv, FilesAreOfWorlds, BarsAreOfWorlds, AnswersAreKnown
<1>2. CASE Revise
  <2>1. live' \in DOMAIN World /\ UNCHANGED <<pools, ohlcv, cache>>
    BY <1>2, WorldAssumption DEF Revise
  <2> QED BY <2>1 DEF WorldInv, FilesAreOfWorlds, BarsAreOfWorlds, AnswersAreKnown
<1>3. CASE DecideLive
  <2>1. UNCHANGED <<live, pools, ohlcv>>
    BY <1>3 DEF DecideLive, storeVars
  <2>2. PICK answer \in Answers :
           cache' = IF job.arm = "llm_off" THEN cache ELSE Put(cache, TodaysPrompt, answer)
    BY <1>3 DEF DecideLive
  <2>3. AnswersAreKnown'
    <3>1. CASE cache' = cache
      BY <3>1 DEF WorldInv, AnswersAreKnown
    <3>2. CASE cache' = Put(cache, TodaysPrompt, answer)
      <4>1. /\ DOMAIN cache' = DOMAIN cache \cup {TodaysPrompt}
            /\ cache'[TodaysPrompt] = answer
            /\ \A p \in DOMAIN cache : p # TodaysPrompt => cache'[p] = cache[p]
        BY <3>2 DEF Put
      <4> QED BY <4>1 DEF WorldInv, AnswersAreKnown
    <3> QED BY <2>2, <3>1, <3>2
  <2> QED BY <2>1, <2>3 DEF WorldInv, FilesAreOfWorlds, BarsAreOfWorlds
<1>4. CASE CapturePool
  BY <1>4, CapturePoolIsOfWorld
<1>5. CASE CaptureBars
  BY <1>5, CaptureBarsIsOfWorld
<1>6. ASSUME NEW w \in Windows, BeginCapture(w) \/ BeginSession(w)
      PROVE  UNCHANGED <<live, pools, ohlcv, cache>>
  BY <1>6 DEF BeginCapture, BeginSession, storeVars
<1>7. ASSUME NEW w \in Windows, NEW arm \in Arms, NEW r \in Rulers, BeginWalk(w, arm, r)
      PROVE  UNCHANGED <<live, pools, ohlcv, cache>>
  BY <1>7 DEF BeginWalk, storeVars
<1>8. CASE Die \/ EndCapture \/ ObserveDay \/ DecideBaseline \/ DecideFromCache \/ MissReadOnly
           \/ SettleAndStep \/ EndWalk
  BY <1>1, <1>8 DEF Die, EndCapture, ObserveDay, DecideBaseline, DecideFromCache, MissReadOnly,
         SettleAndStep, EndWalk, storeVars
<1>9. CASE SessionObserve \/ SessionStep \/ EndSession
  BY <1>1, <1>9 DEF SessionObserve, SessionStep, EndSession, storeVars
<1>10. ASSUME NEW k, SessionReset(k) PROVE UNCHANGED <<live, pools, ohlcv, cache>>
  BY <1>10 DEF SessionReset, storeVars
<1>11. CASE UNCHANGED vars
  BY <1>1, <1>11 DEF vars
<1> QED BY <1>1, <1>2, <1>3, <1>4, <1>5, <1>6, <1>7, <1>8, <1>9, <1>10, <1>11 DEF WalkNext

LEMMA WorldAlways == WalkSpec => []WorldInv
<1>1. WalkInit => WorldInv
  <2>1. DOMAIN << >> = {}
    OBVIOUS
  <2> QED BY <2>1, WorldAssumption
          DEF WalkInit, WorldInv, FilesAreOfWorlds, BarsAreOfWorlds, AnswersAreKnown
<1>2. PlaceInv /\ WorldInv /\ [WalkNext]_vars => WorldInv'
  BY NextWorld
<1> QED BY <1>1, <1>2, PlaceAlways, PTL DEF WalkSpec

\* What is stored of a code are bars.
LEMMA BarsAreTyped ==
    ASSUME WorldInv, NEW c \in DOMAIN ohlcv
    PROVE  c \in Codes /\ \A d \in DOMAIN ohlcv[c] : ohlcv[c][d] \in Bar
<1>1. c \in Codes
  BY DEF WorldInv, BarsAreOfWorlds
<1>2. CASE ohlcv[c] = << >>
  <2>1. DOMAIN << >> = {}
    OBVIOUS
  <2> QED BY <1>1, <1>2, <2>1
<1>3. CASE ohlcv[c] # << >>
  <2>1. PICK v \in DOMAIN World, w \in Windows : ohlcv[c] = LiveBars(World[v], c, w)
    BY <1>3 DEF WorldInv, BarsAreOfWorlds
  <2>2. \A d \in w[1] .. w[2] : World[v][c][d].bar \in Bar
    BY <1>1, DaysAreKnown, WorldTyped DEF StockDay
  <2> QED BY <1>1, <2>1, <2>2 DEF LiveBars
<1> QED BY <1>2, <1>3

\* The store, the cache and the job hold what the code can put there, for any
\* market, windows, answers and number of jobs.
THEOREM WalkTypeCorrect == WalkSpec => []WalkTypeOK
<1>1. PlaceInv /\ TrailInv /\ WorldInv => WalkTypeOK
  <2> SUFFICES ASSUME PlaceInv, TrailInv, WorldInv PROVE WalkTypeOK
    OBVIOUS
  <2>1. \A f \in DOMAIN pools : \A r \in pools[f] : r \in Row
    <3> SUFFICES ASSUME NEW f \in DOMAIN pools, NEW r \in pools[f] PROVE r \in Row
      OBVIOUS
    <3>1. f \in Kinds \X (1 .. LastDay)
      BY DEF WorldInv, FilesAreOfWorlds
    <3>2. PICK v \in DOMAIN World, c \in Codes : r = RowOf(World[v], c, f[2])
      BY DEF WorldInv, FilesAreOfWorlds
    <3>3. World[v][c][f[2]] \in StockDay
      BY <3>1, WorldTyped
    <3> QED BY <3>2, <3>3 DEF RowOf, Row, StockDay
  <2>2. \A c \in DOMAIN ohlcv : c \in Codes /\ \A d \in DOMAIN ohlcv[c] : ohlcv[c][d] \in Bar
    BY BarsAreTyped
  <2>3. /\ live \in DOMAIN World /\ DOMAIN pools \subseteq Kinds \X (1 .. LastDay)
        /\ \A p \in DOMAIN cache : cache[p] \in Answers
    BY DEF WorldInv, FilesAreOfWorlds, AnswersAreKnown
  <2>4. begun \subseteq Windows /\ captured \subseteq begun
    BY DEF PlaceInv, CapturedAreWhole
  <2>5. DOMAIN told \subseteq Windows
    BY DEF TrailInv, ToldIsTold
  <2>6. ASSUME job.kind = "walk"
        PROVE  /\ job.pending \subseteq DOMAIN job.drafts
               /\ \A j \in DOMAIN job.drafts : DOMAIN job.drafts[j] = Draft
    <3>1. /\ job.drafts \in Seq({job.drafts[j] : j \in DOMAIN job.drafts})
          /\ Len(job.drafts) = Drafted /\ job.pending \subseteq 1 .. Drafted
          /\ \A j \in 1 .. Drafted : DOMAIN job.drafts[j] = Draft
      BY <2>6 DEF PlaceInv, WalkIsAt
    <3>2. DOMAIN job.drafts = 1 .. Drafted
      BY <3>1
    <3> QED BY <3>1, <3>2
  <2>7. job.kind \in {"none", "capture", "walk", "session"}
    BY DEF PlaceInv, KindIsKnown
  <2> QED BY <2>1, <2>2, <2>3, <2>4, <2>5, <2>6, <2>7 DEF WalkTypeOK
<1> QED BY <1>1, WorldAlways, TrailAlways, PlaceAlways, PTL

------------------------------------------------------------------------------
(* What a day's pools say *)

\* What a membership says of a stock is what the pools of its day say.
LEMMA MembershipSays ==
    ASSUME NEW day \in Nat, NEW c
    PROVE  LET mem == Membership(BuildUniverse(Shown[day]))
           IN  /\ c \in mem.limit_up <=> OnBoard(c, day)
               /\ Nuked(c, mem) <=> Broken(c, day)
<1> DEFINE frames == PoolsOn(day)
           U == BuildUniverse(frames)
           mem == Membership(U)
<1>1. Shown[day] = frames
  BY DEF Shown
<1> HIDE DEF frames
<1>2. Listed(frames) = CodesOf(frames.zt) \cup CodesOf(frames.blowup) \cup CodesOf(frames.dt)
  BY DEF Listed, Statuses, PoolOf
<1>3. DOMAIN U = Listed(frames) /\ \A x \in Listed(frames) : U[x].status = StatusOf(frames, x)
  BY DEF BuildUniverse, Snapshot
<1> HIDE DEF U
<1>4. /\ mem.limit_up = {x \in Listed(frames) : StatusOf(frames, x) = "limit_up"}
      /\ mem.blowup = {x \in Listed(frames) : StatusOf(frames, x) = "blowup"}
      /\ mem.limit_down = {x \in Listed(frames) : StatusOf(frames, x) = "limit_down"}
  BY <1>3 DEF Membership, Statuses, ByStatus
<1> HIDE DEF mem
<1>5. OnBoard(c, day) <=> c \in CodesOf(frames.zt)
  BY DEF OnBoard, frames
<1>6. Broken(c, day) <=> /\ c \notin CodesOf(frames.zt)
                         /\ c \in CodesOf(frames.blowup) \cup CodesOf(frames.dt)
  BY <1>5 DEF Broken, frames
<1>7. c \in mem.limit_up <=> c \in CodesOf(frames.zt)
  BY <1>2, <1>4 DEF StatusOf
<1>8. Nuked(c, mem) <=> /\ c \notin CodesOf(frames.zt)
                        /\ c \in CodesOf(frames.blowup) \cup CodesOf(frames.dt)
  BY <1>2, <1>4 DEF StatusOf, Nuked
<1> QED BY <1>1, <1>5, <1>6, <1>7, <1>8 DEF mem, U

\* A stock of the universe is one of the market, and its name is that of the day.
LEMMA UniverseSays ==
    ASSUME WorldInv, NEW day \in Nat, NEW c \in DOMAIN BuildUniverse(Shown[day])
    PROVE  /\ c \in Codes /\ day \in 1 .. LastDay
           /\ \E u \in DOMAIN World : BuildUniverse(Shown[day])[c].st = World[u][c][day].st
<1> DEFINE frames == PoolsOn(day)
<1>1. Shown[day] = frames
  BY DEF Shown
<1>2. /\ frames.zt = ReadPool("zt", day) /\ frames.blowup = ReadPool("blowup", day)
      /\ frames.dt = ReadPool("dt", day)
  BY DEF PoolsOn
<1> HIDE DEF frames
<1>3. /\ c \in CodesOf(frames.zt) \cup CodesOf(frames.blowup) \cup CodesOf(frames.dt)
      /\ BuildUniverse(frames)[c].st
            = RowIn(frames[PoolOf[StatusOf(frames, c)]], c).st
  BY <1>1 DEF BuildUniverse, Listed, Statuses, PoolOf, Snapshot
<1>4. PICK kind \in {"zt", "blowup", "dt"} :
         /\ frames[PoolOf[StatusOf(frames, c)]] = ReadPool(kind, day)
         /\ c \in CodesOf(ReadPool(kind, day))
  BY <1>2, <1>3 DEF StatusOf, PoolOf
<1> DEFINE row == RowIn(ReadPool(kind, day), c)
<1>5. row \in ReadPool(kind, day) /\ row.code = c
  BY <1>4 DEF RowIn, CodesOf
<1> HIDE DEF row
<1>6. <<kind, day>> \in DOMAIN pools /\ row \in pools[<<kind, day>>]
  BY <1>5 DEF ReadPool
<1>7. PICK u \in DOMAIN World, x \in Codes : row = RowOf(World[u], x, day)
  BY <1>6 DEF WorldInv, FilesAreOfWorlds
<1>8. x = c /\ row.st = World[u][c][day].st /\ day \in 1 .. LastDay
  BY <1>5, <1>6, <1>7 DEF RowOf, WorldInv, FilesAreOfWorlds
<1> QED BY <1>1, <1>3, <1>4, <1>7, <1>8 DEF row

\* A decision is about stocks of the universe, under the names they have there.
FromUniverse(decision, universe) ==
    \A cand \in decision : cand.code \in DOMAIN universe /\ cand.st = universe[cand.code].st

\* A decision names a code once, and the average of the pool is all of it.
NamedOnce(decision) == \A a, b \in decision : a.code = b.code => a = b

Chosen(decision, universe, arm) ==
    /\ FromUniverse(decision, universe) /\ NamedOnce(decision)
    /\ arm = "pool_average" => decision = PoolAverage(universe)

\* So does a decision that gives a stock the pattern its code has.
LEMMA PatternsByCode ==
    ASSUME NEW universe, NEW decision, NEW pattern,
           \A cand \in decision :
              \E c \in DOMAIN universe : cand = Candidate(universe, c, pattern[c])
    PROVE  FromUniverse(decision, universe) /\ NamedOnce(decision)
<1>1. \A cand \in decision :
         /\ cand.code \in DOMAIN universe /\ cand.st = universe[cand.code].st
         /\ cand = Candidate(universe, cand.code, pattern[cand.code])
  BY DEF Candidate
<1> QED BY <1>1 DEF FromUniverse, NamedOnce

LEMMA PoliciesChoose ==
    ASSUME NEW universe, NEW arm
    PROVE  /\ arm = "no_trade" => Chosen(NoTrade(universe), universe, arm)
           /\ arm = "highest_board" => Chosen(HighestBoard(universe), universe, arm)
           /\ arm = "pool_average" => Chosen(PoolAverage(universe), universe, arm)
           /\ arm = "rule" => Chosen(HarnessRule(universe), universe, arm)
           /\ arm = "random" => \A decision \in RandomFromPool(universe) :
                                  Chosen(decision, universe, arm)
<1> DEFINE Plain(decision) == FromUniverse(decision, universe) /\ NamedOnce(decision)
           ups == ByStatus(universe, "limit_up")
<1>1. ups \subseteq DOMAIN universe
  BY DEF ByStatus
<1>2. ASSUME NEW decision, NEW word,
             \A cand \in decision : \E c \in DOMAIN universe : cand = Candidate(universe, c, word)
      PROVE  Plain(decision)
  <2> DEFINE pattern == [c \in DOMAIN universe |-> word]
  <2>1. \A cand \in decision :
           \E c \in DOMAIN universe : cand = Candidate(universe, c, pattern[c])
    BY <1>2
  <2> HIDE DEF pattern
  <2> QED BY <2>1, PatternsByCode
<1>3. Plain(NoTrade(universe))
  BY DEF NoTrade, FromUniverse, NamedOnce
<1>4. Plain(HighestBoard(universe))
  <2>1. \A cand \in HighestBoard(universe) :
           \E c \in DOMAIN universe : cand = Candidate(universe, c, "highest_board")
    BY <1>1 DEF HighestBoard
  <2> HIDE DEF Plain
  <2> QED BY <1>2, <2>1
<1>5. Plain(PoolAverage(universe))
  <2>1. \A cand \in PoolAverage(universe) :
           \E c \in DOMAIN universe : cand = Candidate(universe, c, "pool_avg")
    BY <1>1 DEF PoolAverage
  <2> HIDE DEF Plain
  <2> QED BY <1>2, <2>1
<1>6. Plain(HarnessRule(universe))
  <2> DEFINE fits == [c \in DOMAIN universe |->
                        {i \in DOMAIN Gated : GateMatches(Gated[i].gate, universe[c])}]
             pattern == [c \in DOMAIN universe |-> Gated[Min(fits[c])].id]
  <2>1. \A cand \in HarnessRule(universe) :
           \E c \in DOMAIN universe : cand = Candidate(universe, c, pattern[c])
    BY DEF HarnessRule
  <2> HIDE DEF pattern
  <2> QED BY <2>1, PatternsByCode
<1>7. ASSUME NEW decision \in RandomFromPool(universe) PROVE Plain(decision)
  <2>1. PICK picks : /\ picks \subseteq ups
                     /\ decision = {Candidate(universe, c, "random_pool") : c \in picks}
    BY DEF RandomFromPool, kSubset
  <2>2. \A cand \in decision :
           \E c \in DOMAIN universe : cand = Candidate(universe, c, "random_pool")
    BY <1>1, <2>1
  <2> HIDE DEF Plain
  <2> QED BY <1>2, <2>2
<1> QED BY <1>3, <1>4, <1>5, <1>6, <1>7 DEF Chosen

LEMMA AnswersChoose ==
    ASSUME NEW universe, NEW answer \in Answers
    PROVE  FromUniverse(ParseDecision(answer, universe), universe)
           /\ NamedOnce(ParseDecision(answer, universe))
<1> DEFINE picks == answer.picks
           decision == ParseDecision(answer, universe)
           First(i) == /\ i \in DOMAIN picks /\ picks[i].code \in DOMAIN universe
                       /\ \A j \in DOMAIN picks : picks[j].code = picks[i].code => i <= j
           cand(i) == Candidate(universe, picks[i].code, picks[i].pattern)
<1>1. \A i \in DOMAIN picks : i \in Int
  BY AnswersAssumption DEF AnswerRow
<1>2. \A c \in decision : \E i : First(i) /\ c = cand(i)
  BY DEF ParseDecision
<1>3. \A i : cand(i).code = picks[i].code /\ cand(i).st = universe[picks[i].code].st
  BY DEF Candidate
<1> HIDE DEF cand, decision
<1>4. ASSUME NEW a \in decision, NEW b \in decision, a.code = b.code PROVE a = b
  <2>1. PICK i, j : First(i) /\ a = cand(i) /\ First(j) /\ b = cand(j)
    BY <1>2
  <2>2. picks[i].code = picks[j].code
    BY <1>3, <1>4, <2>1
  <2>3. i = j
    BY <1>1, <2>1, <2>2
  <2> QED BY <2>1, <2>3
<1> QED BY <1>2, <1>3, <1>4 DEF FromUniverse, NamedOnce, decision

------------------------------------------------------------------------------
(* The scores *)

\* The days held, and their memberships.
DaysHeld(d, h) == [k \in 1 .. h |-> d + k]

OfHeld(mems, d, h) ==
    /\ DOMAIN mems = 1 .. h /\ Len(mems) = h
    /\ \A i \in 1 .. h : mems[i] = Membership(BuildUniverse(Shown[d + i]))

LEMMA PoolScoresJudge ==
    ASSUME NEW d \in Nat, NEW h \in Nat, h >= 1, NEW mems, OfHeld(mems, d, h),
           NEW draft, NEW mem, draft.day = d,
           draft.outcomes = PoolScores(draft.decision, mems, mem)
    PROVE  Judged(draft, "pool", h)
<1> DEFINE last == d + h
           m == mems[Len(mems)]
           base == AverageOver([c \in mem.limit_up |-> SCORE[OutcomeOn(c, m)]], mem.limit_up)
           Judge(cand) == Scored(cand, OutcomeOn(cand.code, m), SCORE[OutcomeOn(cand.code, m)], base)
<1>0. draft.outcomes = {Judge(cand) : cand \in draft.decision}
  BY DEF PoolScores
<1> HIDE DEF base
<1>1. m = Membership(BuildUniverse(Shown[last])) /\ last \in Nat
  BY DEF OfHeld
<1>2. \A c : (c \in m.limit_up <=> OnBoard(c, last)) /\ (Nuked(c, m) <=> Broken(c, last))
  BY <1>1, MembershipSays
<1>3. /\ \A s \in draft.outcomes : \E cand \in draft.decision :
             s.code = cand.code /\ s.outcome = OutcomeOn(cand.code, m)
      /\ \A cand \in draft.decision : \E s \in draft.outcomes : s.code = cand.code
  <2>1. \A cand : Judge(cand).code = cand.code /\ Judge(cand).outcome = OutcomeOn(cand.code, m)
    BY DEF Scored
  <2> HIDE DEF m, Judge
  <2> QED BY <1>0, <2>1
<1> HIDE DEF m, Judge
<1>4. {s.code : s \in draft.outcomes} = {cand.code : cand \in draft.decision}
  BY <1>3
<1>5. ASSUME NEW s \in draft.outcomes
      PROVE  /\ s.outcome = "nuked" => Broken(s.code, last)
             /\ s.outcome = "continued" => OnBoard(s.code, last)
             /\ s.outcome = "faded" => ~Broken(s.code, last) /\ ~OnBoard(s.code, last)
  BY <1>2, <1>3 DEF OutcomeOn
<1> HIDE DEF last
<1> QED BY <1>4, <1>5 DEF Judged, last

\* The bars of a stock come from one version of the market.
LEMMA BarsSay ==
    ASSUME WorldInv, NEW c \in Codes, NEW d \in Nat,
           StoredBar(c, d).close # 0, StoredBar(c, d + 1).open # 0
    PROVE  \E v \in DOMAIN World :
              /\ d \in 1 .. LastDay - 1
              /\ StoredBar(c, d) = World[v][c][d].bar
              /\ StoredBar(c, d + 1) = World[v][c][d + 1].bar
<1>1. NoBar.close = 0 /\ NoBar.open = 0
  BY DEF NoBar
<1>2. /\ c \in DOMAIN ohlcv /\ d \in DOMAIN ohlcv[c] /\ d + 1 \in DOMAIN ohlcv[c]
      /\ StoredBar(c, d) = ohlcv[c][d] /\ StoredBar(c, d + 1) = ohlcv[c][d + 1]
  BY <1>1 DEF StoredBar
<1>3. ohlcv[c] # << >>
  <2>1. DOMAIN << >> = {}
    OBVIOUS
  <2> QED BY <1>2, <2>1
<1>4. PICK v \in DOMAIN World, w \in Windows : ohlcv[c] = LiveBars(World[v], c, w)
  BY <1>2, <1>3 DEF WorldInv, BarsAreOfWorlds
<1>5. DOMAIN ohlcv[c] = w[1] .. w[2] /\ \A x \in w[1] .. w[2] : ohlcv[c][x] = World[v][c][x].bar
  BY <1>4 DEF LiveBars
<1>6. d \in 1 .. LastDay - 1
  <2>1. d \in 1 .. LastDay /\ d + 1 \in 1 .. LastDay /\ LastDay \in Nat
    BY <1>2, <1>5, DaysAreKnown, WindowsAssumption
  <2> QED BY <2>1
<1> QED BY <1>2, <1>5, <1>6

\* One gets in at a price that the entry day's bar has.
LEMMA FillIsTraded ==
    ASSUME WorldInv, NEW c \in Codes, NEW d \in Nat, NEW u \in DOMAIN World,
           StoredBar(c, d).close # 0, StoredBar(c, d + 1).open # 0,
           NEW fill, fill # Unfillable,
           fill = FillPrice(StoredBar(c, d + 1), StoredBar(c, d).close,
                            Limit(c, World[u][c][d].st))
    PROVE  fill \in StoredBar(c, d + 1).low .. StoredBar(c, d + 1).high
<1>1. PICK v \in DOMAIN World : /\ d \in 1 .. LastDay - 1
                                /\ StoredBar(c, d) = World[v][c][d].bar
                                /\ StoredBar(c, d + 1) = World[v][c][d + 1].bar
  BY BarsSay
<1> DEFINE bar   == StoredBar(c, d + 1)
           prev  == StoredBar(c, d).close
           limit == Limit(c, World[u][c][d].st)
<1>2. /\ bar.open # 0 => bar.open \in bar.low .. bar.high
      /\ (prev # 0 /\ bar.open # 0 /\ AtLimitOpen(bar, prev, limit) /\ ~Flat(bar, prev)) =>
            LimitPrice(prev, limit) \in bar.low .. bar.high
  BY <1>1, LimitsAssumption
<1> HIDE DEF bar, prev, limit
<1>3. fill = FillPrice(bar, prev, limit) /\ prev # 0 /\ bar.open # 0
  BY DEF bar, prev, limit
<1>4. fill \in bar.low .. bar.high
  BY <1>2, <1>3 DEF FillPrice
<1> QED BY <1>4 DEF bar

\* The day that settles is one of those held but the first; if it is not the
\* last, the board broke on it or the day before.
LEMMA SettleDaySays ==
    ASSUME NEW d \in Nat, NEW h \in Nat, h >= 2, NEW mems, OfHeld(mems, d, h), NEW c
    PROVE  LET x == SettleDay(NukedDays(c, mems), DaysHeld(d, h))
           IN  /\ x \in (d + 2) .. (d + h)
               /\ x = d + h \/ Broken(c, x) \/ Broken(c, x - 1)
<1> DEFINE nuked == NukedDays(c, mems)
           path == DaysHeld(d, h)
           first == Min(nuked)
<1>1. path \in Seq(Nat) /\ Len(path) = h /\ \A k \in 1 .. h : path[k] = d + k
  <2>1. path \in [1 .. h -> Nat]
    BY DEF DaysHeld
  <2> QED BY <2>1 DEF DaysHeld
<1> HIDE DEF path
<1>2. nuked \subseteq 1 .. h /\ \A i \in nuked : Broken(c, d + i)
  <2>1. \A i \in 1 .. h : Nuked(c, mems[i]) <=> Broken(c, d + i)
    <3> SUFFICES ASSUME NEW i \in 1 .. h PROVE Nuked(c, mems[i]) <=> Broken(c, d + i)
      OBVIOUS
    <3>1. d + i \in Nat /\ mems[i] = Membership(BuildUniverse(Shown[d + i]))
      BY DEF OfHeld
    <3> QED BY <3>1, MembershipSays
  <2> QED BY <2>1 DEF NukedDays, OfHeld
<1> HIDE DEF nuked
<1>3. CASE nuked = {}
  <2>1. SettleDay(nuked, path) = d + h
    BY <1>1, <1>3 DEF SettleDay
  <2> QED BY <2>1 DEF nuked, path
<1>4. CASE nuked # {}
  <2>1. PICK x \in nuked : \A y \in nuked : x <= y
    <3>1. nuked \subseteq Nat
      BY <1>2
    <3> QED BY <1>4, <3>1, LeastElement
  <2>2. first \in nuked /\ first \in 1 .. h
    BY <1>2, <2>1 DEF Min
  <2> HIDE DEF first
  <2>3. SettleDay(nuked, path) = IF first = 1 THEN d + 2 ELSE d + first
    BY <1>1, <1>4, <2>2 DEF SettleDay, first
  <2>4. CASE first = 1
    <3>1. SettleDay(nuked, path) = d + 2 /\ Broken(c, d + 1) /\ (d + 2) - 1 = d + 1
      BY <1>2, <2>2, <2>3, <2>4
    <3> QED BY <3>1 DEF nuked, path
  <2>5. CASE first # 1
    <3>1. SettleDay(nuked, path) = d + first /\ Broken(c, d + first) /\ first >= 2
      BY <1>2, <2>2, <2>3, <2>5
    <3> QED BY <2>2, <3>1 DEF nuked, path
  <2> QED BY <2>4, <2>5
<1> QED BY <1>3, <1>4

\* A stock that was bought and settled has the outcome of its path, and a return
\* from a price of the entry day to a close it could be sold at.
LEMMA SettleOneSays ==
    ASSUME WorldInv, NEW d \in Nat, NEW h \in Nat, h >= 2, NEW mems, OfHeld(mems, d, h),
           NEW c \in Codes, NEW u \in DOMAIN World,
           NEW bars, \A x \in d .. d + h : bars[x] = StoredBar(c, x),
           NEW r, r.status \notin NonTrade,
           r = SettleOne(c, World[u][c][d].st, mems, d, DaysHeld(d, h), bars)
    PROVE  /\ r.status = PathOutcome(c, mems)
           /\ \E x \in (d + 2) .. (d + h) :
                 /\ r.net \in ReturnsOf(c, d + 1, x)
                 /\ x = d + h \/ Broken(c, x) \/ Broken(c, x - 1)
<1> DEFINE path == DaysHeld(d, h)
           x == SettleDay(NukedDays(c, mems), path)
           fill == FillPrice(bars[path[1]], bars[d].close, Limit(c, World[u][c][d].st))
<1>1. /\ r.status = PathOutcome(c, mems) /\ r.net = Net(fill, bars[x].close)
      /\ bars[d].close # 0 /\ bars[path[1]].open # 0 /\ fill # Unfillable
  <2> DEFINE lost == [status |-> "missing", net |-> 0]
             shut == [status |-> "unfillable", net |-> 0]
             sold == [status |-> PathOutcome(c, mems), net |-> Net(fill, bars[x].close)]
             noEntry == bars[d].close = 0 \/ bars[path[1]].open = 0
             noExit  == bars[x].close = 0
  <2>1. r = CASE noEntry -> lost
              [] OTHER -> IF fill = Unfillable THEN shut ELSE IF noExit THEN lost ELSE sold
    BY DEF SettleOne
  <2>2. lost.status \in NonTrade /\ shut.status \in NonTrade
    BY DEF NonTrade
  <2>3. sold.status = PathOutcome(c, mems) /\ sold.net = Net(fill, bars[x].close)
    OBVIOUS
  <2>4. r = sold /\ ~noEntry /\ fill # Unfillable
    <3> HIDE DEF lost, shut, sold, noEntry, noExit, fill
    <3> QED BY <2>1, <2>2
  <2> QED BY <2>3, <2>4
<1>2. x \in (d + 2) .. (d + h) /\ (x = d + h \/ Broken(c, x) \/ Broken(c, x - 1))
  BY SettleDaySays
<1>3. path[1] = d + 1 /\ d \in d .. d + h /\ d + 1 \in d .. d + h
  BY DEF DaysHeld
<1>4. bars[path[1]] = StoredBar(c, d + 1) /\ bars[d] = StoredBar(c, d)
  BY <1>3
<1>5. bars[x] = StoredBar(c, x)
  <2> HIDE DEF x
  <2>1. x \in d .. d + h
    BY <1>2
  <2> QED BY <2>1
<1> HIDE DEF x, path
<1>6. fill \in StoredBar(c, d + 1).low .. StoredBar(c, d + 1).high
  <2>1. fill = FillPrice(StoredBar(c, d + 1), StoredBar(c, d).close, Limit(c, World[u][c][d].st))
    BY <1>4
  <2>2. StoredBar(c, d).close # 0 /\ StoredBar(c, d + 1).open # 0 /\ fill # Unfillable
    BY <1>1, <1>4
  <2> HIDE DEF fill
  <2> QED BY <2>1, <2>2, FillIsTraded
<1> HIDE DEF fill
<1>7. r.net \in ReturnsOf(c, d + 1, x)
  BY <1>1, <1>5, <1>6 DEF ReturnsOf
<1> QED BY <1>1, <1>2, <1>7

LEMMA PathOutcomeSays ==
    ASSUME NEW d \in Nat, NEW h \in Nat, h >= 1, NEW mems, OfHeld(mems, d, h), NEW c
    PROVE  LET held == (d + 1) .. (d + h)
           IN  /\ PathOutcome(c, mems) = "nuked" => \E x \in held : Broken(c, x)
               /\ PathOutcome(c, mems) = "continued" => \A x \in held : OnBoard(c, x)
               /\ PathOutcome(c, mems) = "faded" => /\ \A x \in held : ~Broken(c, x)
                                                    /\ \E x \in held : ~OnBoard(c, x)
<1> DEFINE held == (d + 1) .. (d + h)
<1>1. \A i \in 1 .. h : /\ c \in mems[i].limit_up <=> OnBoard(c, d + i)
                        /\ Nuked(c, mems[i]) <=> Broken(c, d + i)
  <2> SUFFICES ASSUME NEW i \in 1 .. h
               PROVE  /\ c \in mems[i].limit_up <=> OnBoard(c, d + i)
                      /\ Nuked(c, mems[i]) <=> Broken(c, d + i)
    OBVIOUS
  <2>1. d + i \in Nat /\ mems[i] = Membership(BuildUniverse(Shown[d + i]))
    BY DEF OfHeld
  <2> QED BY <2>1, MembershipSays
<1>2. \A i \in 1 .. h : d + i \in held
  OBVIOUS
<1>3. \A x \in held : \E i \in 1 .. h : x = d + i
  <2> TAKE x \in held
  <2>1. x - d \in 1 .. h /\ x = d + (x - d)
    OBVIOUS
  <2> QED BY <2>1
<1> HIDE DEF held
<1>4. NukedDays(c, mems) # {} <=> \E x \in held : Broken(c, x)
  <2>1. DOMAIN mems = 1 .. h
    BY DEF OfHeld
  <2> QED BY <1>1, <1>2, <1>3, <2>1 DEF NukedDays
<1>5. (\A i \in DOMAIN mems : c \in mems[i].limit_up) <=> \A x \in held : OnBoard(c, x)
  <2>1. DOMAIN mems = 1 .. h
    BY DEF OfHeld
  <2> QED BY <1>1, <1>2, <1>3, <2>1
<1> QED BY <1>4, <1>5 DEF PathOutcome, held

BarsOfHeld(bars, d, h) == \A c \in Codes, x \in d .. d + h : bars[c][x] = StoredBar(c, x)

LEMMA ReturnScoresJudge ==
    ASSUME WorldInv, NEW d \in Nat, NEW h \in Nat, h >= 2, NEW mems, OfHeld(mems, d, h),
           NEW draft, NEW mem, NEW names, NEW bars, draft.day = d,
           FromUniverse(draft.decision, BuildUniverse(Shown[d])), BarsOfHeld(bars, d, h),
           draft.outcomes = ReturnScores(draft.decision, mems, mem, d, DaysHeld(d, h),
                                         bars, names)
    PROVE  Judged(draft, "return", h)
<1> DEFINE path == DaysHeld(d, h)
           pool == mem.limit_up
           settled == [c \in pool |-> SettleOne(c, c \in names, mems, d, path, bars[c])]
           base == AverageOver([c \in pool |-> settled[c].net], SettledInPool(settled, pool))
           R(cand) == SettleOne(cand.code, cand.st, mems, d, path, bars[cand.code])
           Judge(cand) == IF R(cand).status \in NonTrade THEN Untraded(cand, R(cand).status)
                          ELSE Scored(cand, R(cand).status, R(cand).net, base)
<1>1. draft.outcomes = {Judge(cand) : cand \in draft.decision}
  BY DEF ReturnScores
<1> HIDE DEF base, R
<1>2. \A cand : /\ Judge(cand).code = cand.code /\ Judge(cand).outcome = R(cand).status
                /\ R(cand).status \notin NonTrade => Judge(cand).score = R(cand).net
  BY DEF Scored, Untraded
<1>3. ASSUME NEW cand \in draft.decision, R(cand).status \notin NonTrade
      PROVE  /\ R(cand).status = PathOutcome(cand.code, mems)
             /\ \E x \in (d + 2) .. (d + h) :
                   /\ R(cand).net \in ReturnsOf(cand.code, d + 1, x)
                   /\ x = d + h \/ Broken(cand.code, x) \/ Broken(cand.code, x - 1)
  <2> DEFINE c == cand.code
             r == R(cand)
  <2>1. c \in DOMAIN BuildUniverse(Shown[d]) /\ cand.st = BuildUniverse(Shown[d])[c].st
    BY DEF FromUniverse
  <2>2. c \in Codes
    BY <2>1, UniverseSays
  <2>3. PICK u \in DOMAIN World : cand.st = World[u][c][d].st
    BY <2>1, UniverseSays
  <2> DEFINE its == bars[c]
  <2>4. \A x \in d .. d + h : its[x] = StoredBar(c, x)
    BY <2>2 DEF BarsOfHeld
  <2>5. r = SettleOne(c, World[u][c][d].st, mems, d, DaysHeld(d, h), its)
    BY <2>3 DEF R
  <2>6. r.status \notin NonTrade
    BY <1>3
  <2> HIDE DEF r, c, its
  <2>7. /\ r.status = PathOutcome(c, mems)
        /\ \E x \in (d + 2) .. (d + h) :
              /\ r.net \in ReturnsOf(c, d + 1, x)
              /\ x = d + h \/ Broken(c, x) \/ Broken(c, x - 1)
    BY <2>2, <2>4, <2>5, <2>6, SettleOneSays
  <2> QED BY <2>7 DEF r, c
<1> HIDE DEF Judge
<1>4. {s.code : s \in draft.outcomes} = {cand.code : cand \in draft.decision}
  <2>1. \A s \in draft.outcomes : \E cand \in draft.decision : s.code = cand.code
    BY <1>1, <1>2
  <2>2. \A cand \in draft.decision : \E s \in draft.outcomes : s.code = cand.code
    BY <1>1, <1>2
  <2> QED BY <2>1, <2>2
<1>5. ASSUME NEW s \in draft.outcomes
      PROVE  /\ s.outcome = "nuked" => \E x \in (d + 1) .. (d + h) : Broken(s.code, x)
             /\ s.outcome = "continued" => \A x \in (d + 1) .. (d + h) : OnBoard(s.code, x)
             /\ s.outcome = "faded" => /\ \A x \in (d + 1) .. (d + h) : ~Broken(s.code, x)
                                       /\ \E x \in (d + 1) .. (d + h) : ~OnBoard(s.code, x)
             /\ s.outcome \notin NonTrade =>
                   \E x \in (d + 2) .. (d + h) :
                       /\ s.score \in ReturnsOf(s.code, d + 1, x)
                       /\ x = d + h \/ Broken(s.code, x) \/ Broken(s.code, x - 1)
  <2>1. PICK cand \in draft.decision : s = Judge(cand)
    BY <1>1, <1>5
  <2>2. s.code = cand.code /\ s.outcome = R(cand).status
    BY <1>2, <2>1
  <2>3. CASE s.outcome \in NonTrade
    BY <2>3 DEF NonTrade
  <2>4. CASE s.outcome \notin NonTrade
    <3>1. s.score = R(cand).net /\ s.outcome = PathOutcome(s.code, mems)
      BY <1>2, <1>3, <2>1, <2>2, <2>4
    <3>2. \E x \in (d + 2) .. (d + h) :
             /\ s.score \in ReturnsOf(s.code, d + 1, x)
             /\ x = d + h \/ Broken(s.code, x) \/ Broken(s.code, x - 1)
      BY <1>3, <2>2, <2>4, <3>1
    <3> QED BY <3>1, <3>2, PathOutcomeSays
  <2> QED BY <2>3, <2>4
<1> QED BY <1>4, <1>5 DEF Judged

MemsOf(held) == [i \in DOMAIN held |-> held[i].mem]

\* The days that a score is about, as the drafts have them.
LEMMA PathIsHeld ==
    ASSUME NEW w \in Windows, NEW n \in Nat, NEW S, NEW drafts \in Seq(S), Len(drafts) = n,
           NEW j \in 1 .. n, NEW h \in Nat, h >= 1, j + h <= n,
           \A k \in 1 .. n : /\ drafts[k].day = Day(w, k)
                             /\ drafts[k].mem = Membership(UniverseOf(Shown, w, k))
    PROVE  LET held == Path(drafts, j, h)
           IN  /\ DOMAIN held = 1 .. h /\ Len(held) = h
               /\ held[1].day = Day(w, j) + 1 /\ held[h].day = Day(w, j) + h
               /\ OfHeld(MemsOf(held), Day(w, j), h)
<1> DEFINE held == Path(drafts, j, h)
           mems == MemsOf(held)
           d == Day(w, j)
<1>1. DOMAIN held = 1 .. h /\ Len(held) = h /\ \A i \in 1 .. h : held[i] = drafts[j + i]
  BY DEF Path
<1>2. \A i \in 1 .. h : j + i \in 1 .. n /\ Day(w, j + i) = d + i
  <2>1. w[1] \in Nat
    BY WindowIsCounted
  <2> QED BY <2>1 DEF Day
<1> HIDE DEF held, d
<1>3. \A i \in 1 .. h : held[i].day = d + i
  BY <1>1, <1>2
<1>4. \A i \in 1 .. h : held[i].mem = Membership(BuildUniverse(Shown[d + i]))
  <2> TAKE i \in 1 .. h
  <2>1. j + i \in 1 .. n /\ Day(w, j + i) = d + i /\ held[i] = drafts[j + i]
    BY <1>1, <1>2
  <2> QED BY <2>1 DEF UniverseOf
<1>5. Len(mems) = h /\ DOMAIN mems = 1 .. h
  <2> DEFINE T == {held[i].mem : i \in 1 .. h}
  <2>1. mems \in [1 .. h -> T]
    BY <1>1 DEF MemsOf
  <2> HIDE DEF T, mems
  <2>2. mems \in Seq(T)
    BY <2>1
  <2> QED BY <2>1, <2>2
<1>6. OfHeld(mems, d, h)
  <2>1. \A i \in 1 .. h : mems[i] = held[i].mem
    BY <1>1 DEF MemsOf
  <2> QED BY <1>4, <1>5, <2>1 DEF OfHeld
<1> QED BY <1>1, <1>3, <1>6 DEF held, d

------------------------------------------------------------------------------
(* Scores are of one kind *)

LEMMA CodesAreFinite == IsFiniteSet(Codes)
<1>1. CodeSeq \in Surjection(1 .. Len(CodeSeq), Codes)
  BY CodeSeqAssumption DEF Surjection
<1>2. Len(CodeSeq) \in Nat
  BY CodeSeqAssumption
<1>3. IsFiniteSet(1 .. Len(CodeSeq))
  BY <1>2, FS_Interval
<1> QED BY <1>1, <1>3, FS_Surjection

\* Both scorers judge a candidate by a status and a number against a base.
JudgeAs(r, base, cand) ==
    IF r.status \in NonTrade THEN Untraded(cand, r.status)
    ELSE Scored(cand, r.status, r.net, base)

Verdict == {"nuked", "continued", "faded", "unfillable", "missing"}

OutcomesTyped(outcomes) ==
    /\ IsFiniteSet(outcomes)
    /\ \A s \in outcomes : s.score \in Int /\ s.advantage \in Frac /\ s.outcome \in Verdict
    /\ \A s, t \in outcomes : s.code = t.code => s = t

\* A base is an average, or there is none.
LEMMA AverageIs ==
    ASSUME NEW S, IsFiniteSet(S), NEW v, \A x \in S : v[x] \in Int
    PROVE  /\ S = {} => AverageOver(v, S) = NoBase
           /\ S # {} => /\ AverageOver(v, S) \in Frac /\ AverageOver(v, S) # NoBase
                        /\ AverageOver(v, S) = <<SumFunctionOnSet(v, S), Cardinality(S)>>
                        /\ SumFunctionOnSet(v, S) \in Int /\ Cardinality(S) \in Nat \ {0}
<1>1. CASE S = {}
  BY <1>1 DEF AverageOver
<1>2. CASE S # {}
  <2>1. Cardinality(S) \in Nat \ {0}
    BY <1>2, FS_CardinalityType, FS_EmptySet
  <2>2. SumFunctionOnSet(v, S) \in Int
    <3> DEFINE g == [x \in S |-> Whole(v[x])]
    <3>1. \A x \in S : g[x] = Whole(v[x])
      OBVIOUS
    <3> HIDE DEF g
    <3> QED BY <3>1, WholeSums
  <2> DEFINE V == SumFunctionOnSet(v, S)
             n == Cardinality(S)
  <2>3. AverageOver(v, S) = <<V, n>>
    BY <1>2 DEF AverageOver
  <2> HIDE DEF V, n
  <2>4. V \in Int /\ n \in Nat \ {0}
    BY <2>1, <2>2 DEF V, n
  <2>5. <<V, n>> \in Frac /\ <<V, n>> # NoBase
    BY <2>4 DEF Frac, NoBase
  <2> QED BY <1>2, <2>1, <2>2, <2>3, <2>5 DEF V, n
<1> QED BY <1>1, <1>2

LEMMA AdvantageIs ==
    ASSUME NEW score \in Int, NEW base \in Frac \cup {NoBase}
    PROVE  Advantage(score, base) \in Frac
<1>1. Whole(score) \in Frac
  BY WholePlus
<1> QED BY <1>1, FracOps, 0 \in Int DEF Advantage

\* Scores of a decision that names a code once.
LEMMA JudgedAreTyped ==
    ASSUME NEW decision, IsFiniteSet(decision), \A a, b \in decision : a.code = b.code => a = b,
           NEW base \in Frac \cup {NoBase}, NEW r,
           \A cand \in decision : r[cand].net \in Int /\ r[cand].status \in Verdict,
           NEW outcomes, outcomes = {JudgeAs(r[cand], base, cand) : cand \in decision}
    PROVE  OutcomesTyped(outcomes)
<1> DEFINE m == [cand \in decision |-> JudgeAs(r[cand], base, cand)]
<1>1. \A cand \in decision :
         /\ m[cand].code = cand.code /\ m[cand].score \in Int /\ m[cand].advantage \in Frac
         /\ m[cand].outcome \in Verdict
  <2> SUFFICES ASSUME NEW cand \in decision
               PROVE  LET s == JudgeAs(r[cand], base, cand)
                      IN  /\ s.code = cand.code /\ s.score \in Int /\ s.advantage \in Frac
                          /\ s.outcome \in Verdict
    OBVIOUS
  <2> DEFINE it == r[cand]
  <2>0. it.net \in Int /\ it.status \in Verdict
    OBVIOUS
  <2> HIDE DEF it
  <2>1. Advantage(it.net, base) \in Frac /\ Whole(0) \in Frac
    BY <2>0, AdvantageIs, WholePlus, 0 \in Int
  <2>2. LET s == JudgeAs(it, base, cand)
        IN  /\ s.code = cand.code /\ s.score \in Int /\ s.advantage \in Frac
            /\ s.outcome \in Verdict
    BY <2>0, <2>1 DEF JudgeAs, Scored, Untraded
  <2> QED BY <2>2 DEF it
<1>2. outcomes = {m[cand] : cand \in decision}
  OBVIOUS
<1>3. m \in Surjection(decision, outcomes)
  BY <1>2 DEF Surjection
<1> HIDE DEF m
<1>4. IsFiniteSet(outcomes)
  BY <1>3, FS_Surjection
<1> QED BY <1>1, <1>2, <1>4 DEF OutcomesTyped

\* What is judged against its own average has no excess.
NoExcess(outcomes, j) == AdvantageSum(Real({<<j, s>> : s \in outcomes}))[1] = 0

AverageJudged(outcomes, pool, r, P, v, cand, base) ==
    /\ IsFiniteSet(pool)
    /\ \A c \in pool : r[c].net \in Int /\ cand[c].code = c
    /\ P = {c \in pool : r[c].status \notin NonTrade}
    /\ \A c \in P : v[c] = r[c].net
    /\ base = AverageOver(v, P)
    /\ outcomes = {JudgeAs(r[c], base, cand[c]) : c \in pool}

LEMMA AverageHasNoExcess ==
    ASSUME NEW pool, NEW r, NEW P, NEW v, NEW cand, NEW base, NEW outcomes, NEW j,
           AverageJudged(outcomes, pool, r, P, v, cand, base)
    PROVE  NoExcess(outcomes, j)
<1>0. /\ IsFiniteSet(pool)
      /\ \A c \in pool : r[c].net \in Int /\ cand[c].code = c
      /\ P = {c \in pool : r[c].status \notin NonTrade}
      /\ \A c \in P : v[c] = r[c].net
      /\ base = AverageOver(v, P)
      /\ outcomes = {JudgeAs(r[c], base, cand[c]) : c \in pool}
  BY DEF AverageJudged
<1> DEFINE m == [c \in P |-> <<j, Scored(cand[c], r[c].status, r[c].net, base)>>]
           T == Real({<<j, s>> : s \in outcomes})
           f == [c \in P |-> Advantage(r[c].net, base)]
           g == [t \in T |-> t[2].advantage]
<1>1. IsFiniteSet(P) /\ \A c \in P : v[c] \in Int /\ r[c].net \in Int
  BY <1>0, FS_Subset
<1>2. T = ImageOf(m, P)
  <2>1. \A c \in pool : c \notin P => JudgeAs(r[c], base, cand[c]).outcome \in NonTrade
    BY <1>0 DEF JudgeAs, Untraded
  <2>2. \A c \in P : /\ JudgeAs(r[c], base, cand[c]) = Scored(cand[c], r[c].status, r[c].net, base)
                     /\ Scored(cand[c], r[c].status, r[c].net, base).outcome \notin NonTrade
    BY <1>0 DEF JudgeAs, Scored
  <2>3. P \subseteq pool
    BY <1>0
  <2>4. \A t : t \in T <=> \E s \in outcomes : t = <<j, s>> /\ s.outcome \notin NonTrade
    BY DEF Real
  <2> DEFINE J(c) == JudgeAs(r[c], base, cand[c])
             K(c) == Scored(cand[c], r[c].status, r[c].net, base)
  <2>5. \A s : s \in outcomes <=> \E c \in pool : s = J(c)
    BY <1>0
  <2>6. /\ \A c \in P : m[c] = <<j, K(c)>> /\ J(c) = K(c) /\ K(c).outcome \notin NonTrade
        /\ \A c \in pool : c \notin P => J(c).outcome \in NonTrade
    BY <2>1, <2>2
  <2> HIDE DEF J, K, m, T
  <2>7. \A t : t \in T <=> \E c \in pool : t = <<j, J(c)>> /\ J(c).outcome \notin NonTrade
    <3> SUFFICES ASSUME NEW t
                 PROVE  t \in T <=> \E c \in pool : t = <<j, J(c)>> /\ J(c).outcome \notin NonTrade
      OBVIOUS
    <3>1. ASSUME t \in T
          PROVE  \E c \in pool : t = <<j, J(c)>> /\ J(c).outcome \notin NonTrade
      <4>1. PICK s \in outcomes : t = <<j, s>> /\ s.outcome \notin NonTrade
        BY <2>4, <3>1
      <4>2. PICK c \in pool : s = J(c)
        BY <2>5
      <4> QED BY <4>1, <4>2
    <3>2. ASSUME NEW c \in pool, t = <<j, J(c)>>, J(c).outcome \notin NonTrade
          PROVE  t \in T
      <4>1. J(c) \in outcomes
        BY <2>5
      <4> QED BY <2>4, <3>2, <4>1
    <3> QED BY <3>1, <3>2
  <2>8. \A t : t \in T <=> \E c \in P : t = <<j, K(c)>>
    BY <2>3, <2>6, <2>7
  <2>9. \A t : t \in ImageOf(m, P) <=> \E c \in P : t = <<j, K(c)>>
    BY <2>6 DEF ImageOf
  <2> QED BY <2>8, <2>9
<1>3. \A c, d \in P : m[c] = m[d] => c = d
  BY <1>0 DEF Scored
<1>4. \A c \in P : g[m[c]] = f[c]
  <2>1. \A c \in P : m[c] \in T
    BY <1>2 DEF ImageOf
  <2>2. \A c \in P : m[c][2].advantage = f[c]
    BY DEF Scored
  <2> HIDE DEF m, T
  <2> QED BY <2>1, <2>2
<1>5. base \in Frac \cup {NoBase}
  BY <1>0, <1>1, AverageIs
<1>6. \A c \in P : f[c] \in Frac
  BY <1>1, <1>5, AdvantageIs
<1> DEFINE X == SumOver(g, T)
           Y == SumOver(f, P)
<1>7. NoExcess(outcomes, j) <=> X[1] = 0
  BY DEF NoExcess, AdvantageSum
<1> HIDE DEF m, f, g, T
<1>8. Same(Y, X) /\ Y \in Frac /\ IsFiniteSet(T)
  <2>1. /\ \A c, d \in P : m[c] = m[d] => c = d
        /\ \A c \in P : f[c] \in Frac
        /\ \A c \in P : g[m[c]] = f[c]
    BY <1>3, <1>4, <1>6
  <2>2. Same(SumOver(f, P), SumOver(g, ImageOf(m, P)))
    BY <1>1, <2>1, SumAlong
  <2>3. IsFiniteSet(ImageOf(m, P))
    BY <1>1, <2>1, ImageIsAsLarge
  <2> QED BY <1>1, <1>2, <1>6, <2>2, <2>3, SumTyped
<1>9. X \in Frac
  <2>1. \A t \in T : g[t] \in Frac
    BY <1>2, <1>4, <1>6 DEF ImageOf
  <2> QED BY <1>8, <2>1, SumTyped
<1>10. \E Z \in Frac : Same(Y, Z) /\ Z[1] = 0
  <2>1. CASE P = {}
    <3>1. Y = Whole(0)
      BY <1>1, <2>1, SumUnfolds
    <3> HIDE DEF Y
    <3>2. Y \in Frac /\ Same(Y, Y) /\ Y[1] = 0
      BY <1>8, <3>1, SameSelf DEF Whole
    <3> QED BY <3>2
  <2>2. CASE P # {}
    <3> DEFINE V == SumFunctionOnSet(v, P)
               n == Cardinality(P)
               w == [c \in P |-> Whole(v[c])]
               o == [c \in P |-> Opposite(base)]
               Z == Plus(Whole(V), Scale(Opposite(base), n))
    <3>1. base \in Frac /\ base # NoBase /\ base = <<V, n>> /\ V \in Int /\ n \in Nat \ {0}
      BY <1>0, <1>1, <2>2, AverageIs
    <3>2. Opposite(base) \in Frac
      BY <3>1, MinusIs
    <3>3. \A c \in P : w[c] = Whole(v[c]) /\ w[c] \in Frac /\ o[c] = Opposite(base) /\ o[c] \in Frac
      BY <1>1, <3>2, WholePlus
    <3> HIDE DEF V, n, w, o
    <3>4. \A c \in P : f[c] = Plus(w[c], o[c])
      <4>1. \A c \in P : f[c] = Minus(Whole(v[c]), base)
        BY <1>0, <3>1 DEF Advantage, f
      <4>2. \A c \in P : Whole(v[c]) \in Frac
        BY <1>1, WholePlus
      <4>3. \A c \in P : Minus(Whole(v[c]), base) = Plus(Whole(v[c]), Opposite(base))
        BY <3>1, <4>2, MinusIs
      <4> QED BY <3>3, <4>1, <4>3
    <3>5. Same(Y, Plus(SumOver(w, P), SumOver(o, P)))
      BY <1>1, <3>3, <3>4, SumPlus
    <3>6. SumOver(w, P) = Whole(V) /\ Whole(V) \in Frac
      <4>1. Whole(V) \in Frac
        BY <3>1, WholePlus
      <4>2. SumOver(w, P) = Whole(V)
        BY <1>1, <3>3, WholeSums DEF V
      <4> QED BY <4>1, <4>2
    <3>7. Same(SumOver(o, P), Scale(Opposite(base), n)) /\ Scale(Opposite(base), n) \in Frac
          /\ SumOver(o, P) \in Frac
      BY <1>1, <3>2, <3>3, SumOfSame, SumTyped DEF n
    <3>8. Plus(Whole(V), SumOver(o, P)) \in Frac /\ Z \in Frac
      BY <3>6, <3>7, FracOps, 0 \in Int
    <3>9. Same(Plus(Whole(V), SumOver(o, P)), Z)
      BY <3>6, <3>7, PlusSame
    <3>10. Same(Y, Z)
      BY <1>8, <3>5, <3>6, <3>8, <3>9, SameTrans
    <3>11. Z[1] = 0
      <4>1. Scale(Opposite(base), n) = <<(-V) * n, n>>
        BY <3>1 DEF Scale, Opposite
      <4>2. Z = IF 1 = n THEN <<V + (-V) * n, 1>> ELSE <<V * n + ((-V) * n) * 1, 1 * n>>
        BY <4>1 DEF Plus, Whole
      <4>3. V * n + ((-V) * n) * 1 = 0 /\ (n = 1 => V + (-V) * n = 0)
        BY <3>1
      <4> QED BY <4>2, <4>3
    <3> QED BY <3>8, <3>10, <3>11
  <2> QED BY <2>1, <2>2
<1>11. PICK Z \in Frac : Same(Y, Z) /\ Z[1] = 0
  BY <1>10
<1>12. X[1] = 0
  <2> HIDE DEF X, Y
  <2>1. Same(X, Z)
    BY <1>8, <1>9, <1>11, SameSym, SameTrans
  <2>2. X[1] * Z[2] = 0 * X[2] /\ X[1] \in Int /\ X[2] \in Int /\ Z[2] \in Nat \ {0}
    BY <1>9, <1>11, <2>1 DEF Same, Frac
  <2>3. X[1] * Z[2] = 0 * Z[2]
    BY <2>2
  <2> QED BY <2>2, <2>3, Cancel, 0 \in Int
<1> QED BY <1>7, <1>12

LEMMA StoredBarIsABar ==
    ASSUME WorldInv, NEW c, NEW d
    PROVE  StoredBar(c, d) \in Bar
<1>1. NoBar \in Bar
  BY DEF NoBar, Bar
<1>2. CASE c \in DOMAIN ohlcv /\ d \in DOMAIN ohlcv[c]
  BY <1>2, BarsAreTyped DEF StoredBar
<1>3. CASE ~(c \in DOMAIN ohlcv /\ d \in DOMAIN ohlcv[c])
  BY <1>1, <1>3 DEF StoredBar
<1> QED BY <1>2, <1>3

\* A price that is paid is a number, and so is its return.
LEMMA NetIsANumber ==
    ASSUME NEW bar \in Bar, NEW prev \in Nat, NEW limit \in Nat, NEW close \in Nat,
           FillPrice(bar, prev, limit) # Unfillable
    PROVE  Net(FillPrice(bar, prev, limit), close) \in Int
<1> DEFINE fill == FillPrice(bar, prev, limit)
<1>1. LimitPrice(prev, limit) \in Nat
  <2>1. prev * (100 + limit) \in Nat
    OBVIOUS
  <2> DEFINE p == prev * (100 + limit)
  <2> HIDE DEF p
  <2>2. p \in Nat => p \div 100 \in Nat
    OBVIOUS
  <2> QED BY <2>1, <2>2 DEF p, LimitPrice
<1>2. fill \in Nat \ {0}
  BY <1>1 DEF FillPrice, Bar, Unfillable
<1> HIDE DEF fill
<1>3. ((close - fill) * 10000) \div fill \in Int
  <2> DEFINE p == (close - fill) * 10000
  <2>1. p \in Int
    BY <1>2
  <2> HIDE DEF p
  <2>2. p \div fill \in Int
    BY <1>2, <2>1
  <2> QED BY <2>2 DEF p
<1>4. RoundTripCost \in Int
  BY DEF RoundTripCost
<1> QED BY <1>3, <1>4 DEF Net, fill

LEMMA SettledIsTyped ==
    ASSUME WorldInv, NEW c \in Codes, NEW st \in BOOLEAN, NEW d \in Nat, NEW h \in Nat, h >= 2,
           NEW mems, OfHeld(mems, d, h),
           NEW bars, \A x \in d .. d + h : bars[x] = StoredBar(c, x)
    PROVE  LET r == SettleOne(c, st, mems, d, DaysHeld(d, h), bars)
           IN  r.net \in Int /\ r.status \in Verdict
<1> DEFINE path == DaysHeld(d, h)
           x == SettleDay(NukedDays(c, mems), path)
           limit == Limit(c, st)
           fill == FillPrice(bars[path[1]], bars[d].close, limit)
           lost == [status |-> "missing", net |-> 0]
           shut == [status |-> "unfillable", net |-> 0]
           sold == [status |-> PathOutcome(c, mems), net |-> Net(fill, bars[x].close)]
           noEntry == bars[d].close = 0 \/ bars[path[1]].open = 0
           noExit  == bars[x].close = 0
           r == SettleOne(c, st, mems, d, DaysHeld(d, h), bars)
<1>1. r = CASE noEntry -> lost
            [] OTHER -> IF fill = Unfillable THEN shut ELSE IF noExit THEN lost ELSE sold
  BY DEF SettleOne
<1>2. x \in d .. d + h /\ path[1] \in d .. d + h /\ d \in d .. d + h
  <2>1. x \in (d + 2) .. (d + h)
    BY SettleDaySays
  <2>2. path[1] = d + 1
    BY DEF DaysHeld
  <2> HIDE DEF x, path
  <2> QED BY <2>1, <2>2
<1>3. \A y \in d .. d + h : bars[y] \in Bar
  BY StoredBarIsABar
<1>4. limit \in Nat
  BY BoardsAssumption DEF Limit, LimitPercent, Boards
<1>5. fill # Unfillable => sold.net \in Int
  <2> DEFINE b == bars[path[1]] p == bars[d].close q == bars[x].close
  <2>1. b \in Bar /\ p \in Nat /\ q \in Nat
    BY <1>2, <1>3 DEF Bar
  <2> HIDE DEF b, p, q, limit
  <2>2. FillPrice(b, p, limit) # Unfillable => Net(FillPrice(b, p, limit), q) \in Int
    BY <1>4, <2>1, NetIsANumber
  <2> QED BY <2>2 DEF b, p, q
<1>6. sold.status \in Verdict
  BY DEF PathOutcome, Verdict
<1>7. lost.net \in Int /\ lost.status \in Verdict /\ shut.net \in Int /\ shut.status \in Verdict
  BY DEF Verdict
<1> HIDE DEF lost, shut, sold, noEntry, noExit, fill, r
<1>8. r \in {lost, shut} \/ (fill # Unfillable /\ r = sold)
  BY <1>1
<1> QED BY <1>5, <1>6, <1>7, <1>8 DEF r

NamesMatch(draft) ==
    \A c \in draft.mem.limit_up : RowIn(PoolsOn(draft.day).zt, c).st <=> c \in StNames(draft.day + 1)

\* What the reports rely on.
Fair(draft, arm) ==
    /\ OutcomesTyped(draft.outcomes)
    /\ (arm = "pool_average" /\ NamesMatch(draft)) => \A j : NoExcess(draft.outcomes, j)

LEMMA DecisionIsFinite ==
    ASSUME WorldInv, NEW d \in Nat, NEW decision, NEW arm,
           Chosen(decision, BuildUniverse(Shown[d]), arm)
    PROVE  IsFiniteSet(decision)
<1> DEFINE F == [cand \in decision |-> cand.code]
<1>1. \A cand \in decision : cand.code \in Codes
  BY UniverseSays DEF Chosen, FromUniverse
<1>2. F \in Injection(decision, Codes)
  BY <1>1 DEF Chosen, NamedOnce, Injection, IsInjective
<1> QED BY <1>2, CodesAreFinite, FS_Injection

LEMMA PoolIsFinite ==
    ASSUME WorldInv, NEW d \in Nat
    PROVE  LET universe == BuildUniverse(Shown[d])
           IN  /\ IsFiniteSet(ByStatus(universe, "limit_up"))
               /\ ByStatus(universe, "limit_up") \subseteq Codes
               /\ Membership(universe).limit_up = ByStatus(universe, "limit_up")
<1> DEFINE universe == BuildUniverse(Shown[d])
           ups == ByStatus(universe, "limit_up")
<1>1. ups \subseteq Codes
  BY UniverseSays DEF ByStatus
<1>2. IsFiniteSet(ups)
  <2> HIDE DEF ups
  <2> QED BY <1>1, CodesAreFinite, FS_Subset
<1>3. Membership(universe).limit_up = ups
  BY DEF Membership, Statuses
<1> QED BY <1>1, <1>2, <1>3

\* The candidates of the pool average, by code.
Members(universe) == [c \in ByStatus(universe, "limit_up") |-> Candidate(universe, c, "pool_avg")]

LEMMA MembersAre ==
    ASSUME NEW universe, NEW c \in ByStatus(universe, "limit_up")
    PROVE  Members(universe)[c].code = c /\ Members(universe)[c].st = universe[c].st
BY DEF Members, Candidate

LEMMA PoolScoresAreFair ==
    ASSUME WorldInv, NEW d \in Nat, NEW decision, NEW arm,
           Chosen(decision, BuildUniverse(Shown[d]), arm), NEW mems,
           NEW outcomes, outcomes = PoolScores(decision, mems, Membership(BuildUniverse(Shown[d])))
    PROVE  /\ OutcomesTyped(outcomes)
           /\ arm = "pool_average" => \A j : NoExcess(outcomes, j)
<1> DEFINE universe == BuildUniverse(Shown[d])
           pool == ByStatus(universe, "limit_up")
           mem == mems[Len(mems)]
           v == [c \in pool |-> SCORE[OutcomeOn(c, mem)]]
           base == AverageOver(v, pool)
           R(c) == [status |-> OutcomeOn(c, mem), net |-> SCORE[OutcomeOn(c, mem)]]
<1>1. \A c : /\ R(c).net \in Int /\ R(c).status \in Verdict /\ R(c).status \notin NonTrade
             /\ R(c).net = SCORE[OutcomeOn(c, mem)]
  BY DEF OutcomeOn, SCORE, Verdict, NonTrade
<1>2. IsFiniteSet(pool) /\ Membership(universe).limit_up = pool /\ IsFiniteSet(decision)
  BY PoolIsFinite, DecisionIsFinite
<1>3. outcomes = {Scored(cand, OutcomeOn(cand.code, mem), SCORE[OutcomeOn(cand.code, mem)], base) :
                     cand \in decision}
  BY <1>2 DEF PoolScores
<1>4. \A cand : JudgeAs(R(cand.code), base, cand)
                   = Scored(cand, OutcomeOn(cand.code, mem), SCORE[OutcomeOn(cand.code, mem)], base)
  BY <1>1 DEF JudgeAs
<1>5. \A c \in pool : v[c] = R(c).net /\ v[c] \in Int
  BY <1>1
<1> HIDE DEF v, R, base, pool, universe, mem
<1>6. base \in Frac \cup {NoBase}
  BY <1>2, <1>5, AverageIs DEF base
<1>7. OutcomesTyped(outcomes)
  <2> DEFINE r == [cand \in decision |-> R(cand.code)]
  <2>1. \A cand \in decision : r[cand].net \in Int /\ r[cand].status \in Verdict
    BY <1>1
  <2>2. outcomes = {JudgeAs(r[cand], base, cand) : cand \in decision}
    BY <1>3, <1>4
  <2>3. \A a, b \in decision : a.code = b.code => a = b
    BY DEF Chosen, NamedOnce
  <2> HIDE DEF r
  <2> QED BY <1>2, <1>6, <2>1, <2>2, <2>3, JudgedAreTyped
<1>8. ASSUME arm = "pool_average", NEW j PROVE NoExcess(outcomes, j)
  <2> DEFINE r == [c \in pool |-> R(c)]
             cand == Members(universe)
  <2>1. decision = {cand[c] : c \in pool}
    BY <1>8 DEF Chosen, PoolAverage, Members, universe, pool
  <2>2. \A c \in pool : cand[c].code = c
    BY MembersAre DEF pool
  <2>3. \A c \in pool : r[c].net \in Int /\ r[c].status \notin NonTrade /\ v[c] = r[c].net
    BY <1>1, <1>5
  <2>4. outcomes = {JudgeAs(r[c], base, cand[c]) : c \in pool}
    <3>1. \A c \in pool :
             Scored(cand[c], OutcomeOn(cand[c].code, mem), SCORE[OutcomeOn(cand[c].code, mem)], base)
                = JudgeAs(r[c], base, cand[c])
      BY <1>4, <2>2
    <3> HIDE DEF r, cand
    <3> QED BY <1>3, <2>1, <3>1
  <2>5. pool = {c \in pool : r[c].status \notin NonTrade}
    BY <2>3
  <2> HIDE DEF r, cand
  <2>6. AverageJudged(outcomes, pool, r, pool, v, cand, base)
    BY <1>2, <2>2, <2>3, <2>4, <2>5 DEF base, AverageJudged
  <2> QED BY <2>6, AverageHasNoExcess
<1> QED BY <1>7, <1>8

\* What ReturnScorer says of a decision of day d, given the names of the entry day.
ReturnsAre(outcomes, decision, d, h, names) ==
    \E mems, bars :
        /\ OfHeld(mems, d, h) /\ BarsOfHeld(bars, d, h)
        /\ outcomes = ReturnScores(decision, mems, Membership(BuildUniverse(Shown[d])), d,
                                   DaysHeld(d, h), bars, names)

NamedAlike(d, names) ==
    \A c \in ByStatus(BuildUniverse(Shown[d]), "limit_up") :
        RowIn(PoolsOn(d).zt, c).st <=> c \in names

LEMMA ReturnScoresAreFair ==
    ASSUME WorldInv, NEW d \in Nat, NEW h \in Nat, h >= 2, NEW decision, NEW arm,
           Chosen(decision, BuildUniverse(Shown[d]), arm), NEW names,
           NEW outcomes, ReturnsAre(outcomes, decision, d, h, names)
    PROVE  /\ OutcomesTyped(outcomes)
           /\ (arm = "pool_average" /\ NamedAlike(d, names)) => \A j : NoExcess(outcomes, j)
<1>0. PICK mems, bars :
         /\ OfHeld(mems, d, h) /\ BarsOfHeld(bars, d, h)
         /\ outcomes = ReturnScores(decision, mems, Membership(BuildUniverse(Shown[d])), d,
                                    DaysHeld(d, h), bars, names)
  BY DEF ReturnsAre
<1> DEFINE universe == BuildUniverse(Shown[d])
           pool == ByStatus(universe, "limit_up")
           path == DaysHeld(d, h)
           Settle(c, st) == SettleOne(c, st, mems, d, path, bars[c])
           settled == [c \in pool |-> Settle(c, c \in names)]
           v == [c \in pool |-> settled[c].net]
           P == SettledInPool(settled, pool)
           base == AverageOver(v, P)
<1>1. IsFiniteSet(pool) /\ pool \subseteq Codes /\ Membership(universe).limit_up = pool
      /\ IsFiniteSet(decision)
  BY PoolIsFinite, DecisionIsFinite
<1>2. \A c \in Codes, st \in BOOLEAN : Settle(c, st).net \in Int /\ Settle(c, st).status \in Verdict
  <2> TAKE c \in Codes, st \in BOOLEAN
  <2> DEFINE its == bars[c]
  <2>1. \A x \in d .. d + h : its[x] = StoredBar(c, x)
    BY <1>0 DEF BarsOfHeld
  <2> HIDE DEF its
  <2>2. LET r == SettleOne(c, st, mems, d, DaysHeld(d, h), its)
        IN  r.net \in Int /\ r.status \in Verdict
    BY <1>0, <2>1, SettledIsTyped
  <2> QED BY <2>2 DEF its
<1>3. outcomes = {JudgeAs(Settle(cand.code, cand.st), base, cand) : cand \in decision}
  <2>1. outcomes = {LET r == Settle(cand.code, cand.st)
                    IN  IF r.status \in NonTrade THEN Untraded(cand, r.status)
                        ELSE Scored(cand, r.status, r.net, base) : cand \in decision}
    BY <1>0, <1>1 DEF ReturnScores
  <2> QED BY <2>1 DEF JudgeAs
<1>4. \A cand \in decision : cand.code \in Codes /\ cand.st \in BOOLEAN
                             /\ cand.st = universe[cand.code].st
  <2> TAKE cand \in decision
  <2>1. cand.code \in DOMAIN universe /\ cand.st = universe[cand.code].st
    BY DEF Chosen, FromUniverse
  <2>2. PICK u \in DOMAIN World : cand.st = World[u][cand.code][d].st /\ cand.code \in Codes
    BY <2>1, UniverseSays
  <2>3. d \in 1 .. LastDay
    BY <2>1, UniverseSays
  <2> QED BY <2>1, <2>2, <2>3, WorldTyped DEF StockDay
<1> HIDE DEF Settle, universe, pool, path
<1>5. /\ \A c \in pool : v[c] = settled[c].net /\ v[c] \in Int /\ settled[c] = Settle(c, c \in names)
      /\ P = {c \in pool : settled[c].status \notin NonTrade} /\ P \subseteq pool
  <2>1. P = {c \in pool : settled[c].status \notin NonTrade}
    BY DEF SettledInPool
  <2>2. \A c \in pool : settled[c] = Settle(c, c \in names) /\ v[c] = settled[c].net
    OBVIOUS
  <2> HIDE DEF settled, v, P
  <2>3. \A c \in pool : v[c] \in Int
    <3> TAKE c \in pool
    <3>1. (c \in names) \in BOOLEAN /\ c \in Codes
      BY <1>1
    <3> QED BY <1>2, <2>2, <3>1
  <2> QED BY <2>1, <2>2, <2>3
<1> HIDE DEF v, settled, P
<1>6. IsFiniteSet(P)
  BY <1>1, <1>5, FS_Subset
<1>7. base \in Frac \cup {NoBase}
  BY <1>5, <1>6, AverageIs
<1> HIDE DEF base
<1>8. OutcomesTyped(outcomes)
  <2> DEFINE r == [cand \in decision |-> Settle(cand.code, cand.st)]
  <2>1. \A cand \in decision : r[cand].net \in Int /\ r[cand].status \in Verdict
    BY <1>2, <1>4
  <2>2. outcomes = {JudgeAs(r[cand], base, cand) : cand \in decision}
    BY <1>3
  <2>3. \A a, b \in decision : a.code = b.code => a = b
    BY DEF Chosen, NamedOnce
  <2> HIDE DEF r
  <2> QED BY <1>1, <1>7, <2>1, <2>2, <2>3, JudgedAreTyped
<1>9. ASSUME arm = "pool_average", \A c \in pool : RowIn(PoolsOn(d).zt, c).st <=> c \in names, NEW j
      PROVE  NoExcess(outcomes, j)
  <2> DEFINE cand == Members(universe)
  <2>1. decision = {cand[c] : c \in pool}
    BY <1>9 DEF Chosen, PoolAverage, Members, universe, pool
  <2>2. \A c \in pool : cand[c].code = c /\ cand[c].st = universe[c].st
    BY MembersAre DEF pool
  <2>3. \A c \in pool : universe[c].st = (c \in names)
    <3> TAKE c \in pool
    <3>1. universe[c].st = RowIn(PoolsOn(d).zt, c).st
      BY DEF universe, pool, ByStatus, BuildUniverse, Snapshot, PoolOf, Shown
    <3>2. cand[c] \in decision /\ universe[c].st \in BOOLEAN
      BY <1>4, <2>1, <2>2
    <3> QED BY <1>9, <3>1, <3>2
  <2>4. outcomes = {JudgeAs(settled[c], base, cand[c]) : c \in pool}
    <3>1. \A c \in pool : JudgeAs(Settle(cand[c].code, cand[c].st), base, cand[c])
                             = JudgeAs(settled[c], base, cand[c])
      BY <1>5, <2>2, <2>3
    <3> HIDE DEF cand
    <3> QED BY <1>3, <2>1, <3>1
  <2>5. \A c \in pool : settled[c].net \in Int
    BY <1>5
  <2>6. base = AverageOver(v, P) /\ \A c \in P : v[c] = settled[c].net
    BY <1>5 DEF base
  <2> HIDE DEF cand
  <2>7. AverageJudged(outcomes, pool, settled, P, v, cand, base)
    BY <1>1, <1>5, <2>2, <2>4, <2>5, <2>6 DEF AverageJudged
  <2> QED BY <2>7, AverageHasNoExcess
<1> QED BY <1>8, <1>9 DEF NamedAlike, universe, pool

\* What score_step reads: the memberships and the bars of the days held, and the
\* names of the entry day.
LEMMA ScoreStepReads ==
    ASSUME NEW w \in Windows, NEW n \in Nat, NEW S, NEW drafts \in Seq(S), Len(drafts) = n,
           job.horizon \in Nat, job.horizon >= 1,
           NEW j \in 1 .. n, j + job.horizon <= n,
           \A k \in 1 .. n : /\ drafts[k].day = Day(w, k)
                             /\ drafts[k].mem = Membership(UniverseOf(Shown, w, k))
    PROVE  LET d == Day(w, j)
               h == job.horizon
           IN  /\ d \in Nat
               /\ \E mems, bars :
                     /\ OfHeld(mems, d, h) /\ BarsOfHeld(bars, d, h)
                     /\ ScoreStep(drafts, j) =
                           IF job.scorer = "pool"
                           THEN PoolScores(drafts[j].decision, mems, drafts[j].mem)
                           ELSE ReturnScores(drafts[j].decision, mems, drafts[j].mem, d,
                                             DaysHeld(d, h), bars, StNames(d + 1))
<1> DEFINE d == Day(w, j)
           h == job.horizon
           held == Path(drafts, j, h)
           mems == MemsOf(held)
           path == TradingDays(<<held[1].day, held[Len(held)].day>>)
           bars == [c \in Codes |-> [x \in drafts[j].day .. held[Len(held)].day |-> StoredBar(c, x)]]
           names == StNames(held[1].day)
<1>1. d \in Nat /\ h \in Nat /\ h >= 1 /\ drafts[j].day = d
  <2>1. w[1] \in Nat /\ w[1] >= 1
    BY WindowIsCounted
  <2>2. d \in Nat
    BY <2>1 DEF Day
  <2> QED BY <2>2
<1>2. /\ Len(held) = h /\ held[1].day = d + 1 /\ held[h].day = d + h
      /\ OfHeld(mems, d, h)
  BY <1>1, PathIsHeld, SMTT(30)
<1>3. ScoreStep(drafts, j) =
         IF job.scorer = "pool" THEN PoolScores(drafts[j].decision, mems, drafts[j].mem)
         ELSE ReturnScores(drafts[j].decision, mems, drafts[j].mem, d, path, bars, names)
  BY <1>1 DEF ScoreStep, MemsOf
<1>4. path = DaysHeld(d, h) /\ names = StNames(d + 1)
  <2> HIDE DEF d, h, held
  <2>1. path = [k \in 1 .. ((d + h) - (d + 1) + 1) |-> (d + 1) + k - 1]
    BY <1>2 DEF TradingDays
  <2>2. (d + h) - (d + 1) + 1 = h /\ \A k \in 1 .. h : (d + 1) + k - 1 = d + k
    BY <1>1
  <2> QED BY <1>2, <2>1, <2>2 DEF DaysHeld
<1>5. BarsOfHeld(bars, d, h)
  <2> HIDE DEF d, h, held
  <2> QED BY <1>1, <1>2 DEF BarsOfHeld
<1> HIDE DEF d, h, held, mems, path, bars, names
<1>6. ScoreStep(drafts, j) =
         IF job.scorer = "pool" THEN PoolScores(drafts[j].decision, mems, drafts[j].mem)
         ELSE ReturnScores(drafts[j].decision, mems, drafts[j].mem, d, DaysHeld(d, h), bars,
                           StNames(d + 1))
  BY <1>3, <1>4
<1> QED BY <1>1, <1>2, <1>5, <1>6 DEF d, h

\* score_step judges a decision by the market of the days held, and fairly.
LEMMA ScoreStepJudges ==
    ASSUME WorldInv, NEW w \in Windows, NEW n \in Nat,
           NEW S, NEW drafts \in Seq(S), Len(drafts) = n,
           job.horizon \in Nat, job.scorer \in {"pool", "return"},
           job.horizon >= IF job.scorer = "return" THEN 2 ELSE 1,
           NEW j \in 1 .. n, j + job.horizon <= n,
           \A k \in 1 .. n : /\ drafts[k].day = Day(w, k)
                             /\ drafts[k].mem = Membership(UniverseOf(Shown, w, k)),
           NEW arm, Chosen(drafts[j].decision, UniverseOf(Shown, w, j), arm),
           NEW draft, draft.day = Day(w, j), draft.decision = drafts[j].decision,
           draft.mem = drafts[j].mem, draft.outcomes = ScoreStep(drafts, j)
    PROVE  Judged(draft, job.scorer, job.horizon) /\ Fair(draft, arm)
<1> DEFINE d == Day(w, j)
           h == job.horizon
           universe == BuildUniverse(Shown[d])
<1>1. job.horizon >= 1
  BY job.horizon >= 2 \/ job.horizon >= 1
<1>2. d \in Nat /\ h \in Nat /\ h >= 1 /\ draft.day = d
  BY <1>1, ScoreStepReads
<1>3. PICK mems, bars :
         /\ OfHeld(mems, d, h) /\ BarsOfHeld(bars, d, h)
         /\ ScoreStep(drafts, j) =
               IF job.scorer = "pool" THEN PoolScores(drafts[j].decision, mems, drafts[j].mem)
               ELSE ReturnScores(drafts[j].decision, mems, drafts[j].mem, d, DaysHeld(d, h), bars,
                                 StNames(d + 1))
  BY <1>1, ScoreStepReads
<1>4. draft.mem = Membership(universe) /\ Chosen(draft.decision, universe, arm)
  BY DEF UniverseOf
<1>5. draft.mem.limit_up = ByStatus(universe, "limit_up")
  BY <1>2, <1>4, PoolIsFinite
<1> HIDE DEF d, h
<1>6. CASE job.scorer = "pool"
  <2>1. draft.outcomes = PoolScores(draft.decision, mems, Membership(universe))
    BY <1>3, <1>4, <1>6
  <2>2. Judged(draft, "pool", h)
    BY <1>2, <1>3, <2>1, PoolScoresJudge
  <2> DEFINE decision == draft.decision
             outcomes == draft.outcomes
  <2>3. Chosen(decision, BuildUniverse(Shown[d]), arm)
        /\ outcomes = PoolScores(decision, mems, Membership(BuildUniverse(Shown[d])))
    BY <1>4, <2>1
  <2> HIDE DEF decision, outcomes, universe
  <2>4. OutcomesTyped(outcomes) /\ (arm = "pool_average" => \A i : NoExcess(outcomes, i))
    BY <1>2, <2>3, PoolScoresAreFair
  <2> QED BY <1>6, <2>2, <2>4 DEF h, Fair, outcomes
<1>7. CASE job.scorer = "return"
  <2> DEFINE decision == draft.decision
             outcomes == draft.outcomes
             names == StNames(d + 1)
  <2>1. h >= 2 /\ FromUniverse(decision, universe)
    BY <1>4, <1>7 DEF h, Chosen
  <2>2. outcomes = ReturnScores(decision, mems, Membership(universe), d, DaysHeld(d, h), bars, names)
    BY <1>3, <1>4, <1>7
  <2>3. Judged(draft, "return", h)
    BY <1>2, <1>3, <2>1, <2>2, ReturnScoresJudge, ZenonT(60)
  <2>4. Chosen(decision, BuildUniverse(Shown[d]), arm)
        /\ ReturnsAre(outcomes, decision, d, h, names)
    BY <1>3, <1>4, <2>2 DEF ReturnsAre
  <2>5. NamesMatch(draft) => NamedAlike(d, names)
    BY <1>2, <1>5 DEF NamesMatch, NamedAlike
  <2> HIDE DEF decision, outcomes, names, universe
  <2>6. /\ OutcomesTyped(outcomes)
        /\ (arm = "pool_average" /\ NamedAlike(d, names)) => \A i : NoExcess(outcomes, i)
    BY <1>2, <2>1, <2>4, ReturnScoresAreFair
  <2> QED BY <1>7, <2>3, <2>5, <2>6 DEF h, Fair, outcomes
<1> QED BY <1>6, <1>7

------------------------------------------------------------------------------
(* Every decision is judged when its last holding day has come *)

\* The days whose decisions' time has been looked at.
Settled == IF job.stage = "settle" THEN Drafted - 1 ELSE Drafted

PendingIsAhead ==
    job.kind = "walk" =>
        /\ job.scorer \in {"pool", "return"}
        /\ job.horizon >= IF job.scorer = "return" THEN 2 ELSE 1
        /\ \A k \in 1 .. Drafted : k \in job.pending <=> Settled < k + job.horizon

\* The k-th draft of a walk.
DraftIs(walk, k) ==
    LET draft == walk.drafts[k]
    IN  /\ draft.mem = Membership(UniverseOf(Shown, walk.window, k))
        /\ Chosen(draft.decision, UniverseOf(Shown, walk.window, k), walk.arm)
        /\ k \in walk.pending => draft.scored = FALSE /\ draft.outcomes = {}
        /\ k \notin walk.pending =>
              /\ draft.scored = TRUE
              /\ Judged(draft, walk.scorer, walk.horizon) /\ Fair(draft, walk.arm)

DraftsAreRight ==
    \A walk, k : (walk = job /\ walk.kind = "walk" /\ k \in 1 .. Drafted) => DraftIs(walk, k)

ScoreInv == PendingIsAhead /\ DraftsAreRight

LEMMA JudgedIsKept ==
    ASSUME UNCHANGED <<pools, ohlcv>>, NEW draft, NEW scorer, NEW h
    PROVE  /\ Judged(draft, scorer, h)' <=> Judged(draft, scorer, h)
           /\ \A arm : Fair(draft, arm)' <=> Fair(draft, arm)
<1>1. \A c, d : OnBoard(c, d)' <=> OnBoard(c, d)
  BY DEF OnBoard, PoolsOn, ReadPool
<1>2. \A c, d : Broken(c, d)' <=> Broken(c, d)
  BY <1>1 DEF Broken, PoolsOn, ReadPool
<1>3. \A c, d, x : ReturnsOf(c, d, x)' = ReturnsOf(c, d, x)
  BY DEF ReturnsOf, StoredBar
<1>4. NamesMatch(draft)' <=> NamesMatch(draft)
  BY DEF NamesMatch, StNames, PoolsOn, ReadPool
<1>5. \A arm : Fair(draft, arm)' <=> Fair(draft, arm)
  BY <1>4 DEF Fair
<1> QED BY <1>1, <1>2, <1>3, <1>5 DEF Judged

\* A draft that is not touched stays right.
LEMMA DraftStays ==
    ASSUME UNCHANGED <<pools, ohlcv>>, NEW old, NEW new, NEW k, DraftIs(old, k),
           new.drafts[k] = old.drafts[k], new.window = old.window,
           new.scorer = old.scorer, new.horizon = old.horizon, new.arm = old.arm,
           k \in new.pending <=> k \in old.pending
    PROVE  DraftIs(new, k)'
<1>1. Shown' = Shown
  BY ShownIsKept
<1>2. /\ Judged(old.drafts[k], old.scorer, old.horizon)'
         <=> Judged(old.drafts[k], old.scorer, old.horizon)
      /\ Fair(old.drafts[k], old.arm)' <=> Fair(old.drafts[k], old.arm)
  BY JudgedIsKept
<1> QED BY <1>1, <1>2 DEF DraftIs

\* A step of the walk that decides and settles nothing.
LEMMA ScoresStay ==
    ASSUME ScoreInv, UNCHANGED <<pools, ohlcv>>, job.kind = "walk",
           job'.drafts = job.drafts, job'.window = job.window, job'.pending = job.pending,
           job'.scorer = job.scorer, job'.horizon = job.horizon, job'.arm = job.arm,
           Drafted' = Drafted, Settled' = Settled
    PROVE  ScoreInv'
<1>1. PendingIsAhead'
  BY DEF ScoreInv, PendingIsAhead
<1>2. DraftsAreRight'
  <2> SUFFICES ASSUME NEW walk, NEW k, walk = job', k \in 1 .. Drafted
               PROVE  DraftIs(walk, k)'
    BY DEF DraftsAreRight
  <2> DEFINE old == job
  <2>1. DraftIs(old, k)
    BY DEF ScoreInv, DraftsAreRight
  <2>2. /\ walk.drafts[k] = old.drafts[k] /\ walk.window = old.window
        /\ walk.scorer = old.scorer /\ walk.horizon = old.horizon /\ walk.arm = old.arm
        /\ k \in walk.pending <=> k \in old.pending
    OBVIOUS
  <2> QED BY <2>1, <2>2, DraftStays
<1> QED BY <1>1, <1>2 DEF ScoreInv

LEMMA NoWalkNoScore ==
    ASSUME job'.kind # "walk"
    PROVE  ScoreInv'
BY DEF ScoreInv, PendingIsAhead, DraftsAreRight

LEMMA BeginWalkIsRight ==
    ASSUME NEW w \in Windows, NEW arm \in Arms, NEW ruler \in Rulers, BeginWalk(w, arm, ruler)
    PROVE  ScoreInv'
<1>1. /\ job'.stage = "observe" /\ job'.scorer = ruler[1] /\ job'.horizon = ruler[2]
      /\ job'.engine = NewEngine(w)
  BY DEF BeginWalk
<1>2. Drafted' = 0
  BY <1>1 DEF Drafted, BeforeDecision, NewEngine
<1>3. \A k \in 1 .. 0 : FALSE
  OBVIOUS
<1>4. PendingIsAhead'
  BY <1>1, <1>2, <1>3, RulersAssumption DEF PendingIsAhead
<1>5. DraftsAreRight'
  BY <1>2, <1>3 DEF DraftsAreRight
<1> QED BY <1>4, <1>5 DEF ScoreInv

\* A decision that is noted is about the universe of its day, and pending.
LEMMA DecidedIsRight ==
    ASSUME WalkIsAt, ScoreInv, At("decide"), UNCHANGED <<pools, ohlcv>>,
           job.universe = UniverseOf(Shown, job.window, job.engine.i),
           NEW decision, NEW prior, Decided(decision, prior),
           Chosen(decision, job.universe, job.arm)
    PROVE  ScoreInv'
<1> DEFINE w == job.window
           i == job.engine.i
           draft == [day |-> Cursor(job.engine), mem |-> Membership(job.universe),
                     height |-> job.state.height, entries |-> Entries(decision),
                     decision |-> decision, scored |-> FALSE, outcomes |-> {}]
           drafts == Append(job.drafts, draft)
<1>1. job.kind = "walk" /\ job.stage = "decide" /\ Drafted = i - 1
  BY DEF At, Running, Drafted, BeforeDecision
<1>2. /\ IsRecord(job, WalkFields) /\ w \in Windows /\ i \in 1 .. NDays(w) /\ i \in Nat
      /\ job.drafts \in Seq({job.drafts[k] : k \in DOMAIN job.drafts})
      /\ Len(job.drafts) = i - 1 /\ job.horizon \in Nat
      /\ job.pending \subseteq 1 .. i - 1
  BY <1>1, WalkIsPlaced DEF PlaceOf
<1>3. job' = [job EXCEPT !.drafts = drafts, !.pending = @ \cup {Len(job.drafts) + 1},
                         !.prior = prior, !.stage = "settle"]
  BY DEF Decided
<1>4. /\ draft.mem = Membership(job.universe) /\ draft.decision = decision
      /\ draft.scored = FALSE /\ draft.outcomes = {}
  OBVIOUS
<1> HIDE DEF draft
<1>5. drafts[i] = draft /\ \A k \in 1 .. i - 1 : drafts[k] = job.drafts[k]
  <2> DEFINE S == {job.drafts[k] : k \in DOMAIN job.drafts}
  <2> HIDE DEF S
  <2>1. job.drafts \in Seq(S) /\ Len(job.drafts) = i - 1
    BY <1>2 DEF S
  <2> QED BY <1>2, <2>1
<1> HIDE DEF drafts
<1>6. /\ job'.kind = "walk" /\ job'.stage = "settle" /\ job'.window = w
      /\ job'.scorer = job.scorer /\ job'.horizon = job.horizon /\ job'.engine = job.engine
      /\ job'.arm = job.arm
      /\ job'.drafts = drafts /\ job'.pending = job.pending \cup {i}
  BY <1>1, <1>2, <1>3 DEF IsRecord, WalkFields
<1>7. Drafted' = i /\ Settled' = i - 1 /\ Settled = i - 1
  BY <1>1, <1>6 DEF Drafted, Settled, BeforeDecision
<1>8. PendingIsAhead'
  <2>1. \A k \in 1 .. i - 1 : k \in job.pending <=> i - 1 < k + job.horizon
    BY <1>1, <1>7 DEF ScoreInv, PendingIsAhead
  <2>2. \A k \in 1 .. i : k # i => k \in 1 .. i - 1
    BY <1>2
  <2>3. i - 1 < i + job.horizon
    BY <1>2
  <2>4. \A k \in 1 .. i : k \in job'.pending <=> i - 1 < k + job.horizon
    BY <1>6, <2>1, <2>2, <2>3
  <2> QED BY <1>1, <1>6, <1>7, <2>4 DEF ScoreInv, PendingIsAhead
<1>9. DraftsAreRight'
  <2> SUFFICES ASSUME NEW walk, NEW k, walk = job', k \in 1 .. i
               PROVE  DraftIs(walk, k)'
    BY <1>7 DEF DraftsAreRight
  <2>1. CASE k = i
    <3>1. walk.drafts[k] = draft /\ k \in walk.pending /\ walk.window = w /\ walk.arm = job.arm
      BY <1>5, <1>6, <2>1
    <3>2. Shown' = Shown
      BY ShownIsKept
    <3> QED BY <1>4, <2>1, <3>1, <3>2 DEF DraftIs
  <2>2. CASE k # i
    <3> DEFINE old == job
    <3>1. k \in 1 .. i - 1
      BY <1>2, <2>2
    <3>2. DraftIs(old, k)
      BY <1>1, <3>1 DEF ScoreInv, DraftsAreRight
    <3>3. /\ walk.drafts[k] = old.drafts[k] /\ walk.window = old.window
          /\ walk.scorer = old.scorer /\ walk.horizon = old.horizon /\ walk.arm = old.arm
          /\ k \in walk.pending <=> k \in old.pending
      BY <1>5, <1>6, <2>2, <3>1
    <3> QED BY <3>2, <3>3, DraftStays
  <2> QED BY <2>1, <2>2
<1> QED BY <1>8, <1>9 DEF ScoreInv

\* The decisions whose last holding day has come are judged by it, the others wait.
LEMMA SettleIsRight ==
    ASSUME WalkIsAt, WorldInv, ScoreInv, SettleAndStep
    PROVE  ScoreInv'
<1> DEFINE w == job.window
           i == job.engine.i
           h == job.horizon
           ripe == {j \in job.pending : Len(job.drafts) >= j + job.horizon}
           drafts == [j \in DOMAIN job.drafts |->
                        IF j \in ripe
                        THEN [job.drafts[j] EXCEPT !.scored = TRUE,
                                                   !.outcomes = ScoreStep(job.drafts, j)]
                        ELSE job.drafts[j]]
<1>1. /\ job.kind = "walk" /\ At("settle") /\ Drafted = i /\ Settled = i - 1
      /\ UNCHANGED <<pools, ohlcv>>
  BY DEF SettleAndStep, At, Running, Drafted, Settled, BeforeDecision, storeVars
<1>2. /\ IsRecord(job, WalkFields) /\ w \in Windows /\ i \in 1 .. NDays(w) /\ i \in Nat
      /\ job.drafts \in Seq({job.drafts[k] : k \in DOMAIN job.drafts})
      /\ Len(job.drafts) = i /\ DOMAIN job.drafts = 1 .. i /\ h \in Nat
      /\ job.pending \subseteq 1 .. i
      /\ \A k \in 1 .. i : DOMAIN job.drafts[k] = Draft /\ job.drafts[k].day = Day(w, k)
  BY <1>1, WalkIsPlaced, SMTT(30) DEF PlaceOf
<1>3. job' = [job EXCEPT !.drafts = drafts, !.pending = @ \ ripe,
                         !.engine = IF CanStep(@) THEN Step(@) ELSE @,
                         !.stage = IF CanStep(job.engine) THEN "observe" ELSE "ended"]
  BY <1>1, RipeIsAllowed DEF SettleAndStep, ScoreRipe
<1>4. \A k \in 1 .. i : drafts[k] = IF k \in ripe
                                    THEN [job.drafts[k] EXCEPT !.scored = TRUE,
                                                               !.outcomes = ScoreStep(job.drafts, k)]
                                    ELSE job.drafts[k]
  BY <1>2
<1>5. \A k \in 1 .. i : k \in ripe <=> k \in job.pending /\ i >= k + h
  BY <1>2
<1> HIDE DEF drafts, ripe
<1>6. /\ job'.kind = "walk" /\ job'.window = w /\ job'.scorer = job.scorer /\ job'.horizon = h
      /\ job'.arm = job.arm
      /\ job'.drafts = drafts /\ job'.pending = job.pending \ ripe
      /\ job'.stage = IF CanStep(job.engine) THEN "observe" ELSE "ended"
      /\ job'.engine = IF CanStep(job.engine) THEN Step(job.engine) ELSE job.engine
  BY <1>1, <1>2, <1>3 DEF IsRecord, WalkFields
<1>7. Drafted' = i /\ Settled' = i
  <2>1. CanStep(job.engine) => Step(job.engine).i = i + 1
    <3>1. EngineAt(job.engine, Shown, w, i, Looked)
      BY <1>1 DEF WalkIsAt
    <3> QED BY <3>1 DEF Step, EngineAt, IsRecord, EngineFields
  <2> QED BY <1>2, <1>6, <2>1 DEF Drafted, Settled, BeforeDecision
<1>8. /\ job.scorer \in {"pool", "return"} /\ h >= IF job.scorer = "return" THEN 2 ELSE 1
      /\ \A k \in 1 .. i : k \in job.pending <=> i - 1 < k + h
  BY <1>1 DEF ScoreInv, PendingIsAhead
<1>9. PendingIsAhead'
  <2>1. \A k \in 1 .. i : (i - 1 < k + h /\ ~(i >= k + h)) <=> i < k + h
    BY <1>2
  <2>2. \A k \in 1 .. i : k \in job'.pending <=> i < k + h
    BY <1>5, <1>6, <1>8, <2>1
  <2> QED BY <1>6, <1>7, <1>8, <2>2 DEF PendingIsAhead
<1>10. DraftsAreRight'
  <2> SUFFICES ASSUME NEW walk, NEW k, walk = job', k \in 1 .. i
               PROVE  DraftIs(walk, k)'
    BY <1>7 DEF DraftsAreRight
  <2> DEFINE old == job
  <2>1. DraftIs(old, k)
    BY <1>1 DEF ScoreInv, DraftsAreRight
  <2>2. CASE k \in ripe
    <3> DEFINE draft == walk.drafts[k]
               score == ScoreStep(job.drafts, k)
    <3>1. draft = [job.drafts[k] EXCEPT !.scored = TRUE, !.outcomes = score]
      BY <1>4, <1>6, <2>2
    <3> HIDE DEF draft, score
    <3>2. /\ draft.day = Day(w, k) /\ draft.mem = job.drafts[k].mem
          /\ draft.decision = job.drafts[k].decision
          /\ draft.scored = TRUE /\ draft.outcomes = score
      BY <1>2, <3>1 DEF Draft
    <3>3. k \in Nat /\ k + h <= i /\ k \notin walk.pending
      BY <1>2, <1>5, <1>6, <2>2
    <3>4. \A m \in 1 .. i : job.drafts[m].mem = Membership(UniverseOf(Shown, w, m))
      BY <1>1 DEF ScoreInv, DraftsAreRight, DraftIs
    <3>5. Chosen(job.drafts[k].decision, UniverseOf(Shown, w, k), job.arm)
      BY <2>1 DEF DraftIs
    <3>6. Judged(draft, job.scorer, job.horizon) /\ Fair(draft, job.arm)
      <4> DEFINE S == {job.drafts[m] : m \in DOMAIN job.drafts}
      <4>1. job.drafts \in Seq(S)
        BY <1>2
      <4> HIDE DEF S
      <4> QED BY <1>2, <1>8, <3>2, <3>3, <3>4, <3>5, <4>1, ScoreStepJudges DEF score
    <3>7. Judged(draft, walk.scorer, walk.horizon)' /\ Fair(draft, walk.arm)'
      BY <1>1, <1>6, <3>6, JudgedIsKept
    <3>8. Shown' = Shown /\ walk.window = w /\ walk.arm = job.arm
      BY <1>1, <1>6, ShownIsKept
    <3> QED BY <3>2, <3>3, <3>4, <3>5, <3>7, <3>8 DEF DraftIs, draft
  <2>3. CASE k \notin ripe
    <3>1. /\ walk.drafts[k] = old.drafts[k] /\ walk.window = old.window
          /\ walk.scorer = old.scorer /\ walk.horizon = old.horizon /\ walk.arm = old.arm
          /\ k \in walk.pending <=> k \in old.pending
      BY <1>4, <1>6, <2>3
    <3> QED BY <1>1, <2>1, <3>1, DraftStays
  <2> QED BY <2>2, <2>3
<1> QED BY <1>9, <1>10 DEF ScoreInv

LEMMA NextScores ==
    PlaceInv /\ TrailInv /\ WorldInv /\ ScoreInv /\ [WalkNext]_vars => ScoreInv'
<1> SUFFICES ASSUME PlaceInv, TrailInv, WorldInv, ScoreInv, [WalkNext]_vars PROVE ScoreInv'
  OBVIOUS
<1> USE DEF storeVars
<1>0. WalkIsAt
  BY DEF PlaceInv
<1>1. ASSUME At("decide")
      PROVE  job.universe = UniverseOf(Shown, job.window, job.engine.i)
  BY <1>1 DEF TrailInv, WalkIsOnTrail, At, Running
<1>2. ASSUME At("decide"), UNCHANGED <<pools, ohlcv>>,
             \E decision, prior : /\ Decided(decision, prior)
                                  /\ Chosen(decision, job.universe, job.arm)
      PROVE  ScoreInv'
  BY <1>0, <1>1, <1>2, DecidedIsRight
<1>3. ASSUME NEW w \in Windows, BeginCapture(w) \/ BeginSession(w) PROVE ScoreInv'
  BY <1>3, NoWalkNoScore DEF BeginCapture, NewCapture, BeginSession
<1>4. ASSUME NEW w \in Windows, NEW arm \in Arms, NEW r \in Rulers, BeginWalk(w, arm, r)
      PROVE  ScoreInv'
  BY <1>4, BeginWalkIsRight
<1>5. CASE ObserveDay
  <2>1. /\ job.kind = "walk" /\ job.stage = "observe" /\ IsRecord(job, WalkFields)
        /\ UNCHANGED <<pools, ohlcv>>
    BY <1>0, <1>5 DEF ObserveDay, At, Running, WalkIsAt
  <2>2. PICK engine, state, universe, stage :
           /\ engine.i = job.engine.i /\ stage \in {"decide", "snapshot", "lookahead"}
           /\ job' = [job EXCEPT !.engine = engine, !.state = state, !.universe = universe,
                                 !.stage = stage]
    <3>1. CASE ReadError(job.engine) # ""
      <4>1. ReadError(job.engine) \in {"snapshot", "lookahead"}
        BY <3>1 DEF ReadError
      <4>2. job' = [job EXCEPT !.stage = ReadError(job.engine)]
        BY <1>5, <3>1 DEF ObserveDay, Fail
      <4>3. job' = [job EXCEPT !.engine = job.engine, !.state = job.state,
                               !.universe = job.universe, !.stage = ReadError(job.engine)]
        BY <2>1, <4>2 DEF IsRecord, WalkFields
      <4> QED BY <4>1, <4>3
    <3>2. CASE ReadError(job.engine) = ""
      <4> DEFINE day == Cursor(job.engine)
                 state == MarketState(day, PoolsOn(day), job.engine.history)
                 engine == Record(job.engine, state.raw)
      <4>1. job' = [job EXCEPT !.engine = engine, !.state = state,
                               !.universe = BuildUniverse(PoolsOn(day)), !.stage = "decide"]
        BY <1>5, <3>2 DEF ObserveDay
      <4>2. engine.i = job.engine.i
        <5>1. EngineAt(job.engine, Shown, job.window, job.engine.i, Looked)
          BY <1>0, <2>1 DEF WalkIsAt
        <5> HIDE DEF state
        <5> QED BY <5>1 DEF Record, EngineAt, IsRecord, EngineFields
      <4> HIDE DEF engine, state
      <4> QED BY <4>1, <4>2
    <3> QED BY <3>1, <3>2
  <2>3. /\ job'.kind = "walk" /\ job'.stage = stage /\ job'.engine.i = job.engine.i
        /\ job'.drafts = job.drafts /\ job'.window = job.window /\ job'.pending = job.pending
        /\ job'.scorer = job.scorer /\ job'.horizon = job.horizon /\ job'.arm = job.arm
    BY <2>1, <2>2 DEF IsRecord, WalkFields
  <2>4. stage # "lookahead"
    <3>1. WalkIsAt'
      BY <1>0, <1>5, ObserveDayKeeps
    <3> QED BY <2>3, <3>1 DEF WalkIsAt, Stages
  <2>5. Drafted' = Drafted /\ Settled' = Settled
    BY <2>1, <2>2, <2>3, <2>4 DEF Drafted, Settled, BeforeDecision
  <2> QED BY <2>1, <2>3, <2>5, ScoresStay
<1>6. CASE DecideBaseline
  <2>1. At("decide") /\ UNCHANGED <<pools, ohlcv>>
    BY <1>6 DEF DecideBaseline
  <2>2. \E decision, prior : Decided(decision, prior) /\ Chosen(decision, job.universe, job.arm)
    <3> DEFINE Allowed(decision) == /\ Decided(decision, NoPhase)
                                    /\ Chosen(decision, job.universe, job.arm)
    <3>1. \/ job.arm = "no_trade" /\ Decided(NoTrade(job.universe), NoPhase)
          \/ job.arm = "highest_board" /\ Decided(HighestBoard(job.universe), NoPhase)
          \/ job.arm = "pool_average" /\ Decided(PoolAverage(job.universe), NoPhase)
          \/ job.arm = "rule" /\ Decided(HarnessRule(job.universe), NoPhase)
          \/ job.arm = "random" /\ \E decision \in RandomFromPool(job.universe) :
                                     Decided(decision, NoPhase)
      BY <1>6 DEF DecideBaseline
    <3>2. \/ Allowed(NoTrade(job.universe)) \/ Allowed(HighestBoard(job.universe))
          \/ Allowed(PoolAverage(job.universe)) \/ Allowed(HarnessRule(job.universe))
          \/ \E decision \in RandomFromPool(job.universe) : Allowed(decision)
      <4> DEFINE universe == job.universe
                 arm == job.arm
      <4>1. /\ arm = "no_trade" => Chosen(NoTrade(universe), universe, arm)
            /\ arm = "highest_board" => Chosen(HighestBoard(universe), universe, arm)
            /\ arm = "pool_average" => Chosen(PoolAverage(universe), universe, arm)
            /\ arm = "rule" => Chosen(HarnessRule(universe), universe, arm)
            /\ arm = "random" => \A decision \in RandomFromPool(universe) :
                                   Chosen(decision, universe, arm)
        <5> HIDE DEF universe, arm
        <5> QED BY PoliciesChoose, Zenon
      <4> QED BY <3>1, <4>1, Zenon
    <3> QED BY <3>2
  <2> QED BY <1>2, <2>1, <2>2
<1>7. CASE DecideFromCache \/ DecideLive
  <2>1. At("decide") /\ UNCHANGED <<pools, ohlcv>>
    BY <1>7 DEF DecideFromCache, DecideLive
  <2>2. PICK answer \in Answers : Answered(answer)
    BY <1>7 DEF DecideFromCache, DecideLive, Hit, WorldInv, AnswersAreKnown
  <2>3. job.arm # "pool_average"
    BY <1>7 DEF DecideFromCache, DecideLive
  <2>4. Chosen(ParseDecision(answer, job.universe), job.universe, job.arm)
    BY <2>3, AnswersChoose DEF Chosen
  <2> QED BY <1>2, <2>1, <2>2, <2>4 DEF Answered
<1>8. CASE MissReadOnly
  <2>1. /\ job.kind = "walk" /\ job.stage = "decide" /\ IsRecord(job, WalkFields)
        /\ UNCHANGED <<pools, ohlcv>> /\ job' = [job EXCEPT !.stage = "cache_miss"]
    BY <1>0, <1>8 DEF MissReadOnly, At, Running, WalkIsAt, Fail
  <2>2. /\ job'.kind = "walk" /\ job'.stage = "cache_miss" /\ job'.engine = job.engine
        /\ job'.drafts = job.drafts /\ job'.window = job.window /\ job'.pending = job.pending
        /\ job'.scorer = job.scorer /\ job'.horizon = job.horizon /\ job'.arm = job.arm
    BY <2>1 DEF IsRecord, WalkFields
  <2>3. Drafted' = Drafted /\ Settled' = Settled
    BY <2>1, <2>2 DEF Drafted, Settled, BeforeDecision
  <2> QED BY <2>1, <2>2, <2>3, ScoresStay
<1>9. CASE SettleAndStep
  BY <1>0, <1>9, SettleIsRight
<1>10. CASE Die \/ EndCapture \/ EndWalk \/ EndSession
  BY <1>10, NoWalkNoScore DEF Die, EndCapture, EndWalk, EndSession, NoJob
<1>11. CASE CapturePool \/ CaptureBars \/ Revise
  <2>1. CASE CapturePool
    <3>1. job.kind = "capture" /\ CaptureIsAt
      BY <2>1 DEF CapturePool, Running, PlaceInv
    <3>2. job'.kind = "capture"
      BY <2>1, <3>1 DEF CapturePool, Collect, CaptureIsAt, IsRecord
    <3> QED BY <3>2, NoWalkNoScore
  <2>2. CASE CaptureBars \/ Revise
    BY <2>2, NoWalkNoScore DEF CaptureBars, Revise, Running, NoJob
  <2> QED BY <1>11, <2>1, <2>2
<1>12. ASSUME job.kind = "session", UNCHANGED <<pools, ohlcv>>, NEW engine, NEW skipped,
              job' = [job EXCEPT !.engine = engine, !.skipped = skipped]
       PROVE  ScoreInv'
  <2>1. job'.kind = "session"
    BY <1>12 DEF PlaceInv, SessionIsAt, IsRecord
  <2> QED BY <2>1, NoWalkNoScore
<1>13. CASE SessionObserve \/ SessionStep \/ \E k : SessionReset(k)
  <2>1. job.kind = "session" /\ IsRecord(job, {"kind", "engine", "skipped"})
    BY <1>13 DEF SessionObserve, SessionStep, SessionReset, Running, PlaceInv, SessionIsAt
  <2>2. job'.kind = "session"
    BY <1>13, <2>1 DEF SessionObserve, SessionStep, SessionReset, IsRecord
  <2> QED BY <2>2, NoWalkNoScore
<1>14. CASE UNCHANGED vars
  <2>1. UNCHANGED <<pools, ohlcv, job>>
    BY <1>14 DEF vars
  <2>2. Drafted' = Drafted /\ Settled' = Settled
    BY <2>1 DEF Drafted, Settled
  <2> QED BY <2>1, <2>2, ScoresStay, NoWalkNoScore
<1> QED BY <1>3, <1>4, <1>5, <1>6, <1>7, <1>8, <1>9, <1>10, <1>11, <1>13, <1>14 DEF WalkNext

LEMMA ScoresAlways == WalkSpec => []ScoreInv
<1>1. WalkInit => ScoreInv
  <2>1. WalkInit => job.kind # "walk"
    BY DEF WalkInit, NoJob
  <2> QED BY <2>1 DEF ScoreInv, PendingIsAhead, DraftsAreRight
<1>2. PlaceInv /\ TrailInv /\ WorldInv /\ ScoreInv /\ [WalkNext]_vars => ScoreInv'
  BY NextScores
<1> QED BY <1>1, <1>2, PlaceAlways, TrailAlways, WorldAlways, PTL DEF WalkSpec

\* What a walk that ended says of its decisions is what the snapshot says of the
\* days held after them, for any market whose prices keep their limits, any policy,
\* answers, windows and horizons, and however captures before it died
\* (WalkForwardEval.walk with PoolScorer and ReturnScorer).
THEOREM OutcomesAreTheMarkets == WalkSpec => []OutcomesMatchTheMarket
<1>1. PlaceInv /\ ScoreInv => OutcomesMatchTheMarket
  <2> SUFFICES ASSUME PlaceInv, ScoreInv, Ended, NEW k \in DOMAIN job.drafts
               PROVE  LET draft == job.drafts[k]
                      IN  /\ draft.scored <=> draft.day + job.horizon <= job.window[2]
                          /\ draft.scored => Judged(draft, job.scorer, job.horizon)
                          /\ ~draft.scored => draft.outcomes = {}
    BY DEF OutcomesMatchTheMarket
  <2> DEFINE w == job.window
             n == NDays(w)
             walk == job
  <2>1. job.kind = "walk" /\ job.stage = "ended"
    BY DEF Ended
  <2>2. Drafted = n /\ Settled = n /\ w \in Windows /\ n \in Nat
    <3>1. job.engine.i = n /\ w \in Windows
      BY <2>1 DEF PlaceInv, WalkIsAt
    <3> QED BY <2>1, <3>1, WindowIsCounted DEF Drafted, Settled, BeforeDecision
  <2>3. k \in 1 .. n /\ job.drafts[k].day = Day(w, k) /\ job.horizon \in Nat
    <3>1. /\ job.drafts \in Seq({job.drafts[j] : j \in DOMAIN job.drafts})
          /\ Len(job.drafts) = Drafted /\ job.horizon \in Nat
          /\ \A j \in 1 .. Drafted : job.drafts[j].day = Day(w, j)
      BY <2>1 DEF PlaceInv, WalkIsAt
    <3>2. k \in 1 .. n
      BY <2>2, <3>1
    <3> QED BY <2>2, <3>1, <3>2
  <2>4. k \in job.pending <=> n < k + job.horizon
    BY <2>1, <2>2, <2>3 DEF ScoreInv, PendingIsAhead
  <2>5. DraftIs(walk, k)
    BY <2>1, <2>2, <2>3 DEF ScoreInv, DraftsAreRight
  <2>6. n < k + job.horizon <=> ~(job.drafts[k].day + job.horizon <= w[2])
    <3>1. w[1] \in Nat /\ w[2] \in Nat
      BY <2>2, WindowIsCounted
    <3> QED BY <2>3, <3>1 DEF Day, NDays
  <2> QED BY <2>4, <2>5, <2>6 DEF DraftIs
<1> QED BY <1>1, PlaceAlways, ScoresAlways, PTL

\* Buying the whole pool has no excess over the pool, on no day of a walk that ended,
\* whatever could not be bought or has no bars, wherever the entry day's pool names
\* the stocks as the decision day's does (PoolAveragePolicy, PoolScorer.score and
\* ReturnScorer.score).
THEOREM PoolHasNoExcess == WalkSpec => []PoolAverageHasNoExcess
<1>1. PlaceInv /\ ScoreInv => PoolAverageHasNoExcess
  <2> SUFFICES ASSUME PlaceInv, ScoreInv, Ended, job.arm = "pool_average",
                      NEW k \in DOMAIN job.drafts, job.drafts[k].scored, NamesAgree(k)
               PROVE  NoExcess(job.drafts[k].outcomes, k)
    BY DEF PoolAverageHasNoExcess, NoExcess
  <2> DEFINE walk == job
  <2>1. job.kind = "walk" /\ k \in 1 .. Drafted
    <3>1. job.kind = "walk"
      BY DEF Ended
    <3>2. /\ job.drafts \in Seq({job.drafts[j] : j \in DOMAIN job.drafts})
          /\ Len(job.drafts) = Drafted
      BY <3>1 DEF PlaceInv, WalkIsAt
    <3> QED BY <3>1, <3>2
  <2>2. DraftIs(walk, k)
    BY <2>1 DEF ScoreInv, DraftsAreRight
  <2>3. k \notin job.pending
    BY <2>2 DEF DraftIs
  <2>4. Fair(job.drafts[k], job.arm)
    BY <2>2, <2>3 DEF DraftIs
  <2>5. NamesMatch(job.drafts[k])
    BY DEF NamesAgree, NamesMatch
  <2> QED BY <2>4, <2>5 DEF Fair
<1> QED BY <1>1, PlaceAlways, ScoresAlways, PTL

------------------------------------------------------------------------------
(* Sets of trades *)

TradesOf(j, things) == {<<j, s>> : s \in things}

Made(things) == {s \in things : s.outcome \notin NonTrade}

With(outcome, things) == {s \in things : s.outcome = outcome}

\* Of a skill: candidates, and trades.
BySkill(things, skill) == {s \in things : ResolveSkill[s.pattern] = skill}

Skilled(trades, skill) == {t \in trades : ResolveSkill[t[2].pattern] = skill}

SkillsIn(things) == {ResolveSkill[s.pattern] : s \in things}

SkillsOf(trades) == {ResolveSkill[t[2].pattern] : t \in trades}

LEMMA TradesAre ==
    ASSUME NEW j, NEW things
    PROVE  /\ Real(TradesOf(j, things)) = TradesOf(j, Made(things))
           /\ \A o : Of(o, TradesOf(j, things)) = TradesOf(j, With(o, things))
           /\ \A s : Skilled(TradesOf(j, things), s) = TradesOf(j, BySkill(things, s))
           /\ SkillsOf(TradesOf(j, things)) = SkillsIn(things)
<1>1. Real(TradesOf(j, things)) = TradesOf(j, Made(things))
  BY DEF Real, TradesOf, Made
<1>2. ASSUME NEW o PROVE Of(o, TradesOf(j, things)) = TradesOf(j, With(o, things))
  BY DEF Of, TradesOf, With
<1>3. ASSUME NEW s PROVE Skilled(TradesOf(j, things), s) = TradesOf(j, BySkill(things, s))
  BY DEF Skilled, TradesOf, BySkill
<1>4. SkillsOf(TradesOf(j, things)) = SkillsIn(things)
  <2>1. ASSUME NEW t \in TradesOf(j, things) PROVE ResolveSkill[t[2].pattern] \in SkillsIn(things)
    BY <2>1 DEF SkillsIn, TradesOf
  <2>2. ASSUME NEW s \in things
        PROVE  ResolveSkill[s.pattern] \in SkillsOf(TradesOf(j, things))
    <3>1. <<j, s>> \in TradesOf(j, things) /\ <<j, s>>[2] = s
      BY DEF TradesOf
    <3> QED BY <3>1 DEF SkillsOf
  <2>3. SkillsOf(TradesOf(j, things)) \subseteq SkillsIn(things)
    BY <2>1 DEF SkillsOf
  <2>4. SkillsIn(things) \subseteq SkillsOf(TradesOf(j, things))
    BY <2>2 DEF SkillsIn
  <2> QED BY <2>3, <2>4
<1> QED BY <1>1, <1>2, <1>3, <1>4

\* The sum of a value over trades, and that of the candidates they are of.
Tally(v, trades) == SumOver([t \in trades |-> v[t[2]]], trades)

LEMMA TalliesOf ==
    ASSUME NEW j, NEW things, IsFiniteSet(things), NEW v, \A s \in things : v[s] \in Frac
    PROVE  /\ IsFiniteSet(TradesOf(j, things))
           /\ Cardinality(TradesOf(j, things)) = Cardinality(things)
           /\ Tally(v, TradesOf(j, things)) \in Frac /\ SumOver(v, things) \in Frac
           /\ Same(SumOver(v, things), Tally(v, TradesOf(j, things)))
<1> DEFINE m == [s \in things |-> <<j, s>>]
           T == TradesOf(j, things)
           g == [t \in T |-> v[t[2]]]
<1>1. T = ImageOf(m, things) /\ (\A x, y \in things : m[x] = m[y] => x = y)
      /\ \A s \in things : m[s] \in T /\ m[s][2] = s
  BY DEF ImageOf, TradesOf
<1>2. \A s \in things : g[m[s]] = v[s]
  <2> HIDE DEF m, T
  <2> QED BY <1>1
<1>3. \A t \in T : g[t] \in Frac
  BY DEF TradesOf
<1>4. Tally(v, T) = SumOver(g, T)
  BY DEF Tally
<1> HIDE DEF m, T, g
<1>5. IsFiniteSet(T) /\ Cardinality(T) = Cardinality(things)
  BY <1>1, ImageIsAsLarge
<1>6. Same(SumOver(v, things), SumOver(g, T))
  BY <1>1, <1>2, SumAlong
<1>7. SumOver(g, T) \in Frac /\ SumOver(v, things) \in Frac
  BY <1>3, <1>5, SumTyped
<1> QED BY <1>4, <1>5, <1>6, <1>7 DEF T

LEMMA TallyTyped ==
    ASSUME NEW T, IsFiniteSet(T), NEW v, \A t \in T : v[t[2]] \in Frac
    PROVE  Tally(v, T) \in Frac
<1> DEFINE f == [t \in T |-> v[t[2]]]
<1>1. \A t \in T : f[t] \in Frac
  OBVIOUS
<1>2. Tally(v, T) = SumOver(f, T)
  BY DEF Tally
<1> HIDE DEF f
<1> QED BY <1>1, <1>2, SumTyped

\* A tally is the sum of those of its blocks.
LEMMA TallyByBlock ==
    ASSUME NEW T, IsFiniteSet(T), NEW v, \A t \in T : v[t[2]] \in Frac,
           NEW K, IsFiniteSet(K), NEW k, \A t \in T : k[t] \in K,
           NEW g, \A p \in K : g[p] \in Frac /\ Same(g[p], Tally(v, BlockOf(T, k, p)))
    PROVE  Same(Tally(v, T), SumOver(g, K))
<1> DEFINE f == [t \in T |-> v[t[2]]]
<1>1. \A t \in T : f[t] \in Frac /\ f[t] = v[t[2]]
  OBVIOUS
<1>2. Tally(v, T) = SumOver(f, T)
  BY DEF Tally
<1> HIDE DEF f
<1>3. \A p \in K : g[p] \in Frac /\ Same(g[p], SumOver(f, {t \in T : k[t] = p}))
  <2> TAKE p \in K
  <2> DEFINE B == BlockOf(T, k, p)
             h == [t \in B |-> v[t[2]]]
  <2>1. B = {t \in T : k[t] = p} /\ B \in SUBSET T
    BY DEF BlockOf
  <2>2. IsFiniteSet(B)
    BY <2>1, FS_Subset
  <2>3. \A t \in B : h[t] = f[t]
    BY <1>1, <2>1
  <2>4. Tally(v, B) = SumOver(h, B)
    BY DEF Tally
  <2> HIDE DEF B, h
  <2>5. SumOver(h, B) = SumOver(f, B)
    BY <2>2, <2>3, SumAgrees
  <2> QED BY <2>1, <2>4, <2>5 DEF B
<1> QED BY <1>1, <1>2, <1>3, SumByBlock

------------------------------------------------------------------------------
(* Credits *)

\* The excess and the score of candidates, as fractions.
Excess(things) == [s \in things |-> s.advantage]

Points(things) == [s \in things |-> Whole(s.score)]

TypedTrades(trades, things) ==
    /\ IsFiniteSet(trades)
    /\ \A t \in trades : t[2] \in things /\ t[2].score \in Int /\ t[2].advantage \in Frac

LEMMA SumsAreTallies ==
    ASSUME NEW T, NEW things, TypedTrades(T, things)
    PROVE  /\ AdvantageSum(T) = Tally(Excess(things), T)
           /\ Whole(ScoreSum(T)) = Tally(Points(things), T)
           /\ \A t \in T : Excess(things)[t[2]] \in Frac /\ Points(things)[t[2]] \in Frac
<1> DEFINE a == [t \in T |-> t[2].advantage]
           b == [t \in T |-> Excess(things)[t[2]]]
           c == [t \in T |-> t[2].score]
           d == [t \in T |-> Points(things)[t[2]]]
<1>1. \A t \in T : /\ t[2] \in things /\ t[2].score \in Int /\ t[2].advantage \in Frac
                   /\ Whole(t[2].score) \in Frac
  BY WholePlus DEF TypedTrades
<1>2. \A t \in T : a[t] = b[t] /\ c[t] \in Int /\ d[t] = Whole(c[t])
                   /\ Excess(things)[t[2]] \in Frac /\ Points(things)[t[2]] \in Frac
  BY <1>1 DEF Excess, Points
<1>3. AdvantageSum(T) = SumOver(a, T) /\ Tally(Excess(things), T) = SumOver(b, T)
  BY DEF AdvantageSum, Tally
<1>4. ScoreSum(T) = SumFunctionOnSet(c, T) /\ Tally(Points(things), T) = SumOver(d, T)
  BY DEF ScoreSum, Tally
<1>5. IsFiniteSet(T)
  BY DEF TypedTrades
<1> HIDE DEF a, b, c, d
<1>6. SumOver(a, T) = SumOver(b, T)
  BY <1>2, <1>5, SumAgrees
<1>7. SumOver(d, T) = Whole(SumFunctionOnSet(c, T))
  BY <1>2, <1>5, WholeSums
<1> QED BY <1>2, <1>3, <1>4, <1>6, <1>7

\* What a credit is of.
LEMMA CreditReads ==
    ASSUME NEW T, NEW things, TypedTrades(T, things)
    PROVE  LET credit == CreditOf(T)
               n == Cardinality(T)
               wins == Cardinality(Of("continued", T))
           IN  /\ credit.n = n /\ credit.wins = wins /\ credit.losses = n - wins
               /\ credit.nukes = Cardinality(Of("nuked", T))
               /\ credit.expectancy = Over(Tally(Excess(things), T), n)
               /\ credit.expectancy_raw = Over(Tally(Points(things), T), n)
<1>1. AdvantageSum(T) = Tally(Excess(things), T) /\ Whole(ScoreSum(T)) = Tally(Points(things), T)
  BY SumsAreTallies
<1> QED BY <1>1 DEF CreditOf, Credit

LEMMA ApplyReads ==
    ASSUME NEW outcomes
    PROVE  LET given == ApplyCredit(outcomes)
               real == Real(outcomes)
           IN  /\ given.n_scored = Cardinality(real)
               /\ DOMAIN given.per_skill = SkillsOf(real)
               /\ \A s \in SkillsOf(real) : given.per_skill[s] = CreditOf(Skilled(real, s))
<1> DEFINE real == Real(outcomes)
           whose == [t \in real |-> ResolveSkill[t[2].pattern]]
           per == [s \in {whose[t] : t \in real} |-> CreditOf({t \in real : whose[t] = s})]
<1>1. ApplyCredit(outcomes) = [n_scored |-> Cardinality(real), per_skill |-> per]
  BY DEF ApplyCredit
<1>2. {whose[t] : t \in real} = SkillsOf(real)
  BY DEF SkillsOf
<1>3. \A s : {t \in real : whose[t] = s} = Skilled(real, s)
  BY DEF Skilled
<1>4. DOMAIN per = SkillsOf(real) /\ \A s \in SkillsOf(real) : per[s] = CreditOf(Skilled(real, s))
  BY <1>2, <1>3
<1> HIDE DEF per, real
<1> QED BY <1>1, <1>4 DEF real

------------------------------------------------------------------------------
(* Trajectories *)

\* What accounts can be given of: every day has its date and its outcomes, and
\* what is not scored has none.
Accountable(drafts) ==
    /\ \E n \in Nat : DOMAIN drafts = 1 .. n
    /\ \A j \in DOMAIN drafts : /\ OutcomesTyped(drafts[j].outcomes)
                                /\ drafts[j].scored \/ drafts[j].outcomes = {}
    /\ \A i, j \in DOMAIN drafts : drafts[i].day = drafts[j].day => i = j

Things(drafts) == UNION {drafts[j].outcomes : j \in DOMAIN drafts}

MadeOn(drafts, j) == Made(drafts[j].outcomes)

Traded(drafts) == Real(Outcomes(drafts))

LEMMA OutcomesAre ==
    ASSUME NEW drafts
    PROVE  /\ \A j, s : <<j, s>> \in Outcomes(drafts)
                           <=> j \in DOMAIN drafts /\ s \in drafts[j].outcomes
           /\ \A t \in Outcomes(drafts) :
                 t = <<t[1], t[2]>> /\ t[1] \in DOMAIN drafts /\ t[2] \in drafts[t[1]].outcomes
<1>1. \A t : t \in Outcomes(drafts)
                <=> \E j \in DOMAIN drafts : \E s \in drafts[j].outcomes : t = <<j, s>>
  BY DEF Outcomes
<1> QED BY <1>1

LEMMA OutcomesAreFinite ==
    ASSUME NEW drafts, Accountable(drafts)
    PROVE  /\ IsFiniteSet(DOMAIN drafts) /\ IsFiniteSet(Outcomes(drafts))
           /\ \A T : T \subseteq Outcomes(drafts) => TypedTrades(T, Things(drafts))
<1>1. PICK n \in Nat : DOMAIN drafts = 1 .. n
  BY DEF Accountable
<1>2. IsFiniteSet(DOMAIN drafts)
  BY <1>1, FS_Interval, 1 \in Int
<1>3. ASSUME NEW j \in DOMAIN drafts PROVE IsFiniteSet(TradesOf(j, drafts[j].outcomes))
  <2>1. /\ IsFiniteSet(drafts[j].outcomes)
        /\ \A s \in drafts[j].outcomes : Excess(drafts[j].outcomes)[s] \in Frac
    BY DEF Accountable, OutcomesTyped, Excess
  <2> QED BY <2>1, TalliesOf
<1> DEFINE F == [k \in DOMAIN drafts |-> TradesOf(k, drafts[k].outcomes)]
           Days == {F[k] : k \in DOMAIN drafts}
<1>4. F \in Surjection(DOMAIN drafts, Days)
  BY DEF Surjection
<1>5. Outcomes(drafts) = UNION Days
  BY DEF Outcomes, TradesOf
<1>6. \A T \in Days : IsFiniteSet(T)
  BY <1>3
<1> HIDE DEF Days, F
<1>7. IsFiniteSet(Outcomes(drafts))
  <2>1. IsFiniteSet(Days)
    BY <1>2, <1>4, FS_Surjection
  <2> QED BY <1>5, <1>6, <2>1, FS_UNION
<1>8. ASSUME NEW T, T \subseteq Outcomes(drafts) PROVE TypedTrades(T, Things(drafts))
  <2>1. IsFiniteSet(T)
    BY <1>7, <1>8, FS_Subset
  <2>2. ASSUME NEW t \in T
        PROVE  t[2] \in Things(drafts) /\ t[2].score \in Int /\ t[2].advantage \in Frac
    <3>1. t[1] \in DOMAIN drafts /\ t[2] \in drafts[t[1]].outcomes
      BY <1>8, OutcomesAre
    <3> QED BY <3>1 DEF Things, Accountable, OutcomesTyped
  <2> QED BY <2>1, <2>2 DEF TypedTrades
<1> QED BY <1>2, <1>7, <1>8

\* The trades of a day.
LEMMA MadeIsTyped ==
    ASSUME NEW drafts, Accountable(drafts), NEW j \in DOMAIN drafts
    PROVE  /\ IsFiniteSet(MadeOn(drafts, j))
           /\ \A P, i : P \subseteq MadeOn(drafts, j) =>
                 /\ IsFiniteSet(P) /\ TypedTrades(TradesOf(i, P), Things(drafts))
                 /\ \A s \in P : /\ Excess(Things(drafts))[s] \in Frac
                                 /\ Points(Things(drafts))[s] \in Frac
<1>1. MadeOn(drafts, j) \subseteq drafts[j].outcomes /\ IsFiniteSet(drafts[j].outcomes)
      /\ drafts[j].outcomes \subseteq Things(drafts)
      /\ \A s \in drafts[j].outcomes : s.score \in Int /\ s.advantage \in Frac
  BY DEF MadeOn, Made, Accountable, OutcomesTyped, Things
<1>2. IsFiniteSet(MadeOn(drafts, j))
  BY <1>1, FS_Subset
<1>3. ASSUME NEW P, NEW i, P \subseteq MadeOn(drafts, j)
      PROVE  /\ IsFiniteSet(P) /\ TypedTrades(TradesOf(i, P), Things(drafts))
             /\ \A s \in P : /\ Excess(Things(drafts))[s] \in Frac
                             /\ Points(Things(drafts))[s] \in Frac
  <2> DEFINE v == Excess(Things(drafts))
             u == Points(Things(drafts))
  <2>1. IsFiniteSet(P)
    BY <1>2, <1>3, FS_Subset
  <2>2. \A s \in P : /\ s \in Things(drafts) /\ s.score \in Int /\ s.advantage \in Frac
                     /\ v[s] \in Frac /\ u[s] \in Frac
    BY <1>1, <1>3, WholePlus DEF Excess, Points
  <2>3. IsFiniteSet(TradesOf(i, P))
    <3> HIDE DEF v
    <3> QED BY <2>1, <2>2, TalliesOf
  <2>4. TypedTrades(TradesOf(i, P), Things(drafts))
    BY <2>2, <2>3 DEF TypedTrades, TradesOf
  <2> QED BY <2>1, <2>2, <2>4
<1> QED BY <1>2, <1>3

DayOf(trades) == [t \in trades |-> t[1]]

LEMMA TradedIs ==
    ASSUME NEW drafts
    PROVE  /\ \A j, s : <<j, s>> \in Traded(drafts)
                           <=> j \in DOMAIN drafts /\ s \in MadeOn(drafts, j)
           /\ \A t \in Traded(drafts) :
                 t = <<t[1], t[2]>> /\ t[1] \in DOMAIN drafts /\ t[2] \in MadeOn(drafts, t[1])
           /\ Traded(drafts) \subseteq Outcomes(drafts)
<1>1. \A t : t \in Traded(drafts) <=> t \in Outcomes(drafts) /\ t[2].outcome \notin NonTrade
  BY DEF Traded, Real
<1>2. \A j, s : s \in MadeOn(drafts, j) <=> s \in drafts[j].outcomes /\ s.outcome \notin NonTrade
  BY DEF MadeOn, Made
<1>3. ASSUME NEW j, NEW s
      PROVE  <<j, s>> \in Traded(drafts) <=> j \in DOMAIN drafts /\ s \in MadeOn(drafts, j)
  <2>1. <<j, s>>[2] = s
    OBVIOUS
  <2> QED BY <1>1, <1>2, <2>1, OutcomesAre
<1>4. ASSUME NEW t \in Traded(drafts)
      PROVE  t = <<t[1], t[2]>> /\ t[1] \in DOMAIN drafts /\ t[2] \in MadeOn(drafts, t[1])
  BY <1>1, <1>2, OutcomesAre
<1> QED BY <1>1, <1>3, <1>4

\* The trades of a day, of a skill and of an outcome.
LEMMA DayBlocks ==
    ASSUME NEW drafts, NEW j \in DOMAIN drafts, NEW skill, NEW outcome
    PROVE  LET real == Traded(drafts)
               made == MadeOn(drafts, j)
               his == Skilled(real, skill)
           IN  /\ BlockOf(real, DayOf(real), j) = TradesOf(j, made)
               /\ BlockOf(his, DayOf(his), j) = TradesOf(j, BySkill(made, skill))
               /\ BlockOf(Of(outcome, his), DayOf(Of(outcome, his)), j)
                     = TradesOf(j, With(outcome, BySkill(made, skill)))
<1> DEFINE real == Traded(drafts)
           made == MadeOn(drafts, j)
           his == Skilled(real, skill)
           of == Of(outcome, his)
<1>1. \A T : BlockOf(T, DayOf(T), j) = {t \in T : t[1] = j}
  BY DEF BlockOf, DayOf
<1>2. \A t : (t \in real /\ t[1] = j) <=> \E s \in made : t = <<j, s>>
  BY TradedIs
<1>3. \A t : (t \in his /\ t[1] = j)
                <=> \E s \in made : t = <<j, s>> /\ ResolveSkill[s.pattern] = skill
  <2>1. \A t : t \in his <=> t \in real /\ ResolveSkill[t[2].pattern] = skill
    BY DEF Skilled
  <2> QED BY <1>2, <2>1
<1>4. \A t : (t \in of /\ t[1] = j)
                <=> \E s \in made : t = <<j, s>> /\ ResolveSkill[s.pattern] = skill
                                    /\ s.outcome = outcome
  <2>1. \A t : t \in of <=> t \in his /\ t[2].outcome = outcome
    BY DEF Of
  <2> QED BY <1>3, <2>1
<1>5. \A t, P : t \in TradesOf(j, P) <=> \E s \in P : t = <<j, s>>
  BY DEF TradesOf
<1>6. /\ \A s : s \in BySkill(made, skill) <=> s \in made /\ ResolveSkill[s.pattern] = skill
      /\ \A s, P : s \in With(outcome, P) <=> s \in P /\ s.outcome = outcome
  BY DEF BySkill, With
<1> HIDE DEF real, made, his, of
<1>7. BlockOf(real, DayOf(real), j) = TradesOf(j, made)
  <2>1. \A t : t \in {x \in real : x[1] = j} <=> t \in TradesOf(j, made)
    BY <1>2, <1>5
  <2> QED BY <1>1, <2>1
<1>8. BlockOf(his, DayOf(his), j) = TradesOf(j, BySkill(made, skill))
  <2>1. \A t : t \in {x \in his : x[1] = j} <=> t \in TradesOf(j, BySkill(made, skill))
    BY <1>3, <1>5, <1>6
  <2> QED BY <1>1, <2>1
<1>9. BlockOf(of, DayOf(of), j) = TradesOf(j, With(outcome, BySkill(made, skill)))
  <2>1. \A t : t \in {x \in of : x[1] = j}
                 <=> t \in TradesOf(j, With(outcome, BySkill(made, skill)))
    BY <1>4, <1>5, <1>6
  <2> QED BY <1>1, <2>1
<1> QED BY <1>7, <1>8, <1>9 DEF real, made, his, of

LEMMA DailyReads ==
    ASSUME NEW drafts, Accountable(drafts), NEW j \in DOMAIN drafts
    PROVE  LET given == Daily(drafts)[j]
               made == MadeOn(drafts, j)
           IN  /\ given.n_scored = Cardinality(made)
               /\ DOMAIN given.per_skill = SkillsIn(made)
               /\ \A s \in SkillsIn(made) :
                     LET credit == given.per_skill[s]
                         his == BySkill(made, s)
                         n == Cardinality(his)
                     IN  /\ credit.n = n /\ credit.wins = Cardinality(With("continued", his))
                         /\ credit.nukes = Cardinality(With("nuked", his))
                         /\ credit.expectancy
                               = Over(Tally(Excess(Things(drafts)), TradesOf(1, his)), n)
                         /\ credit.expectancy_raw
                               = Over(Tally(Points(Things(drafts)), TradesOf(1, his)), n)
<1> DEFINE made == MadeOn(drafts, j)
           things == Things(drafts)
           outcomes == Outcomes(<<drafts[j]>>)
           given == ApplyCredit(outcomes)
           real == Real(outcomes)
<1>1. outcomes = TradesOf(1, drafts[j].outcomes)
  <2> DEFINE one == <<drafts[j]>>
  <2>1. DOMAIN one = {1} /\ one[1] = drafts[j]
    OBVIOUS
  <2>2. Outcomes(one) = {<<1, s>> : s \in one[1].outcomes}
    <3> HIDE DEF one
    <3> QED BY <2>1 DEF Outcomes
  <2> QED BY <2>1, <2>2 DEF TradesOf
<1>2. real = TradesOf(1, made)
  BY <1>1, TradesAre DEF MadeOn
<1>3. /\ given.n_scored = Cardinality(real)
      /\ DOMAIN given.per_skill = SkillsOf(real)
      /\ \A s \in SkillsOf(real) : given.per_skill[s] = CreditOf(Skilled(real, s))
  BY ApplyReads
<1>4. Daily(drafts)[j] = given
  BY DEF Daily
<1>5. ASSUME NEW P, P \subseteq made
      PROVE  Cardinality(TradesOf(1, P)) = Cardinality(P) /\ TypedTrades(TradesOf(1, P), things)
  <2>1. IsFiniteSet(P) /\ TypedTrades(TradesOf(1, P), things)
        /\ \A s \in P : Excess(things)[s] \in Frac
    BY <1>5, MadeIsTyped
  <2> QED BY <2>1, TalliesOf
<1> HIDE DEF given, real, outcomes, made
<1>6. given.n_scored = Cardinality(made)
  BY <1>2, <1>3, <1>5
<1>7. SkillsOf(real) = SkillsIn(made)
  BY <1>2, TradesAre
<1>8. ASSUME NEW s \in SkillsIn(made)
      PROVE  LET credit == given.per_skill[s]
                 his == BySkill(made, s)
                 n == Cardinality(his)
             IN  /\ credit.n = n /\ credit.wins = Cardinality(With("continued", his))
                 /\ credit.nukes = Cardinality(With("nuked", his))
                 /\ credit.expectancy = Over(Tally(Excess(things), TradesOf(1, his)), n)
                 /\ credit.expectancy_raw = Over(Tally(Points(things), TradesOf(1, his)), n)
  <2> DEFINE his == BySkill(made, s)
             T == TradesOf(1, his)
  <2>1. given.per_skill[s] = CreditOf(T)
    BY <1>2, <1>3, <1>7, TradesAre
  <2>2. his \subseteq made /\ \A o : With(o, his) \subseteq made
    BY DEF BySkill, With
  <2>3. Cardinality(T) = Cardinality(his) /\ TypedTrades(T, things)
    BY <1>5, <2>2
  <2>4. \A o : Cardinality(Of(o, T)) = Cardinality(With(o, his))
    <3> TAKE o
    <3>1. Of(o, T) = TradesOf(1, With(o, his))
      BY TradesAre
    <3> HIDE DEF his
    <3> QED BY <1>5, <2>2, <3>1
  <2> HIDE DEF T, his, things
  <2>5. LET credit == CreditOf(T)
            n == Cardinality(T)
        IN  /\ credit.n = n /\ credit.wins = Cardinality(Of("continued", T))
            /\ credit.nukes = Cardinality(Of("nuked", T))
            /\ credit.expectancy = Over(Tally(Excess(things), T), n)
            /\ credit.expectancy_raw = Over(Tally(Points(things), T), n)
    BY <2>3, CreditReads
  <2> QED BY <2>1, <2>3, <2>4, <2>5 DEF T, his
<1> QED BY <1>4, <1>6, <1>3, <1>7, <1>8 DEF made

\* The days on which a skill has trades.
DaysOfSkill(drafts, skill) == {i \in DOMAIN drafts : skill \in SkillsIn(MadeOn(drafts, i))}

LEMMA SkillHasDays ==
    ASSUME NEW drafts, Accountable(drafts), NEW skill
    PROVE  LET his == Skilled(Traded(drafts), skill)
               days == DaysOfSkill(drafts, skill)
               daily == Daily(drafts)
           IN  /\ IsFiniteSet(days) /\ days \subseteq DOMAIN drafts
               /\ \A t \in his : t[1] \in days
               /\ \A i \in days : BySkill(MadeOn(drafts, i), skill) # {}
               /\ \A i \in days : skill \in SkillsIn(MadeOn(drafts, i))
               /\ {i \in DOMAIN daily : skill \in DOMAIN daily[i].per_skill} = days
<1> DEFINE his == Skilled(Traded(drafts), skill)
           days == DaysOfSkill(drafts, skill)
           daily == Daily(drafts)
<1>1. days \subseteq DOMAIN drafts /\ \A i \in days : skill \in SkillsIn(MadeOn(drafts, i))
  BY DEF DaysOfSkill
<1>2. IsFiniteSet(days)
  BY <1>1, OutcomesAreFinite, FS_Subset
<1>3. ASSUME NEW t \in his PROVE t[1] \in days
  <2>1. t \in Traded(drafts) /\ ResolveSkill[t[2].pattern] = skill
    BY DEF Skilled
  <2>2. t[1] \in DOMAIN drafts /\ t[2] \in MadeOn(drafts, t[1])
    BY <2>1, TradedIs
  <2> QED BY <2>1, <2>2 DEF DaysOfSkill, SkillsIn
<1>4. ASSUME NEW i \in days PROVE BySkill(MadeOn(drafts, i), skill) # {}
  <2>1. PICK s \in MadeOn(drafts, i) : ResolveSkill[s.pattern] = skill
    BY <1>1 DEF SkillsIn
  <2> QED BY <2>1 DEF BySkill
<1>5. {i \in DOMAIN daily : skill \in DOMAIN daily[i].per_skill} = days
  <2>1. DOMAIN daily = DOMAIN drafts
    BY DEF Daily
  <2>2. \A i \in DOMAIN drafts : DOMAIN daily[i].per_skill = SkillsIn(MadeOn(drafts, i))
    BY DailyReads
  <2> HIDE DEF daily
  <2> QED BY <2>1, <2>2 DEF DaysOfSkill
<1> QED BY <1>1, <1>2, <1>3, <1>4, <1>5

\* What is counted by day is counted.
LEMMA CountsMerge ==
    ASSUME NEW drafts, Accountable(drafts), NEW skill
    PROVE  LET his == Skilled(Traded(drafts), skill)
               daily == Daily(drafts)
           IN  /\ Count(daily, skill, "n") = Cardinality(his)
               /\ Count(daily, skill, "wins") = Cardinality(Of("continued", his))
               /\ Count(daily, skill, "nukes") = Cardinality(Of("nuked", his))
<1> DEFINE his == Skilled(Traded(drafts), skill)
           days == DaysOfSkill(drafts, skill)
           daily == Daily(drafts)
           counted(field) == [i \in days |-> daily[i].per_skill[skill][field]]
<1>1. \A field : Count(daily, skill, field) = SumFunctionOnSet(counted(field), days)
  <2>1. {i \in DOMAIN daily : skill \in DOMAIN daily[i].per_skill} = days
    BY SkillHasDays
  <2> HIDE DEF daily, days
  <2> QED BY <2>1 DEF Count
<1>2. \A T : T \subseteq his => IsFiniteSet(T) /\ \A t \in T : DayOf(T)[t] \in days
  <2> TAKE T
  <2> HAVE T \subseteq his
  <2>1. his \subseteq Outcomes(drafts)
    BY TradedIs DEF Skilled
  <2>2. IsFiniteSet(T)
    BY <2>1, OutcomesAreFinite DEF TypedTrades
  <2>3. \A t \in T : DayOf(T)[t] = t[1] /\ t \in his
    BY DEF DayOf
  <2> QED BY <2>2, <2>3, SkillHasDays
<1>3. IsFiniteSet(days) /\ days \subseteq DOMAIN drafts
      /\ \A i \in days : skill \in SkillsIn(MadeOn(drafts, i))
  BY SkillHasDays
<1>4. ASSUME NEW i \in days
      PROVE  LET made == BySkill(MadeOn(drafts, i), skill)
             IN  /\ counted("n")[i] = Cardinality(made)
                 /\ counted("wins")[i] = Cardinality(With("continued", made))
                 /\ counted("nukes")[i] = Cardinality(With("nuked", made))
  <2>1. i \in DOMAIN drafts /\ skill \in SkillsIn(MadeOn(drafts, i))
    BY <1>3
  <2> DEFINE credit == daily[i].per_skill[skill]
  <2>2. LET made == BySkill(MadeOn(drafts, i), skill)
        IN  /\ credit.n = Cardinality(made)
            /\ credit.wins = Cardinality(With("continued", made))
            /\ credit.nukes = Cardinality(With("nuked", made))
    BY <2>1, DailyReads
  <2>3. \A field : counted(field)[i] = credit[field]
    OBVIOUS
  <2> HIDE DEF credit, counted
  <2> QED BY <2>2, <2>3
<1>5. ASSUME NEW i \in days, NEW P, P \subseteq BySkill(MadeOn(drafts, i), skill)
      PROVE  Cardinality(TradesOf(i, P)) = Cardinality(P)
  <2>1. P \subseteq MadeOn(drafts, i) /\ i \in DOMAIN drafts
    BY <1>3, <1>5 DEF BySkill
  <2>2. IsFiniteSet(P) /\ \A s \in P : Excess(Things(drafts))[s] \in Frac
    BY <2>1, MadeIsTyped
  <2> QED BY <2>2, TalliesOf
<1>6. ASSUME NEW i \in days, NEW outcome
      PROVE  /\ Cardinality(BlockOf(his, DayOf(his), i))
                   = Cardinality(BySkill(MadeOn(drafts, i), skill))
             /\ Cardinality(BlockOf(Of(outcome, his), DayOf(Of(outcome, his)), i))
                   = Cardinality(With(outcome, BySkill(MadeOn(drafts, i), skill)))
  <2> DEFINE made == BySkill(MadeOn(drafts, i), skill)
             some == With(outcome, made)
  <2>1. /\ BlockOf(his, DayOf(his), i) = TradesOf(i, made)
        /\ BlockOf(Of(outcome, his), DayOf(Of(outcome, his)), i) = TradesOf(i, some)
    BY <1>3, DayBlocks
  <2>2. some \subseteq made
    BY DEF With
  <2>3. Cardinality(TradesOf(i, made)) = Cardinality(made)
        /\ Cardinality(TradesOf(i, some)) = Cardinality(some)
    BY <1>5, <2>2
  <2> QED BY <2>1, <2>3
<1> HIDE DEF his, days, daily, counted
<1>7. ASSUME NEW T, T \subseteq his, NEW field,
             \A i \in days : counted(field)[i] = Cardinality(BlockOf(T, DayOf(T), i))
      PROVE  Count(daily, skill, field) = Cardinality(T)
  <2> DEFINE c == counted(field)
             k == DayOf(T)
  <2>1. IsFiniteSet(T) /\ (\A t \in T : k[t] \in days) /\ IsFiniteSet(days)
        /\ \A i \in days : c[i] = Cardinality(BlockOf(T, k, i))
    BY <1>2, <1>3, <1>7
  <2> HIDE DEF c, k
  <2>2. Cardinality(T) = SumFunctionOnSet(c, days)
    BY <2>1, CountByBlock
  <2> QED BY <1>1, <2>2 DEF c
<1>8. Count(daily, skill, "n") = Cardinality(his)
  BY <1>4, <1>6, <1>7
<1>9. \A o : Of(o, his) \subseteq his
  BY DEF Of
<1>10. Count(daily, skill, "wins") = Cardinality(Of("continued", his))
  BY <1>4, <1>6, <1>7, <1>9
<1>11. Count(daily, skill, "nukes") = Cardinality(Of("nuked", his))
  BY <1>4, <1>6, <1>7, <1>9
<1> QED BY <1>8, <1>10, <1>11 DEF his, daily

\* A mean that is weighed by day is the sum of what it is the mean of.
LEMMA MeanMerges ==
    ASSUME NEW drafts, Accountable(drafts), NEW skill, NEW mean, NEW v,
           \A j \in DOMAIN drafts : \A s \in MadeOn(drafts, j) : v[s] \in Frac,
           \A j \in DaysOfSkill(drafts, skill) :
              LET his == BySkill(MadeOn(drafts, j), skill)
              IN  Daily(drafts)[j].per_skill[skill][mean]
                     = Over(Tally(v, TradesOf(1, his)), Cardinality(his))
    PROVE  LET his == Skilled(Traded(drafts), skill)
               sum == Weighted(Daily(drafts), skill, mean)
           IN  Tally(v, his) \in Frac /\ sum \in Frac /\ Same(Tally(v, his), sum)
<1> DEFINE his == Skilled(Traded(drafts), skill)
           days == DaysOfSkill(drafts, skill)
           daily == Daily(drafts)
           g == [i \in days |-> Scale(daily[i].per_skill[skill][mean], daily[i].per_skill[skill].n)]
           k == DayOf(his)
           made(i) == BySkill(MadeOn(drafts, i), skill)
<1>1. Weighted(daily, skill, mean) = SumOver(g, days)
  <2>1. {i \in DOMAIN daily : skill \in DOMAIN daily[i].per_skill} = days
    BY SkillHasDays
  <2> HIDE DEF daily, days
  <2> QED BY <2>1 DEF Weighted
<1>2. IsFiniteSet(days) /\ days \subseteq DOMAIN drafts /\ (\A t \in his : k[t] \in days)
      /\ \A i \in days : made(i) # {} /\ skill \in SkillsIn(MadeOn(drafts, i))
  BY SkillHasDays DEF DayOf
<1>3. IsFiniteSet(his) /\ \A t \in his : v[t[2]] \in Frac
  <2>1. \A t \in his : t \in Traded(drafts)
    BY DEF Skilled
  <2>2. IsFiniteSet(his)
    BY <2>1, TradedIs, OutcomesAreFinite DEF TypedTrades
  <2> QED BY <2>1, <2>2, TradedIs
<1>4. ASSUME NEW i \in days
      PROVE  g[i] \in Frac /\ Same(g[i], Tally(v, BlockOf(his, k, i)))
  <2> DEFINE P == made(i)
             n == Cardinality(P)
             one == Tally(v, TradesOf(1, P))
             own == Tally(v, TradesOf(i, P))
             sum == SumOver(v, P)
  <2>1. i \in DOMAIN drafts /\ P \subseteq MadeOn(drafts, i) /\ P # {}
    BY <1>2 DEF BySkill
  <2>2. IsFiniteSet(P) /\ \A s \in P : v[s] \in Frac
    BY <2>1, MadeIsTyped
  <2>3. n \in Nat \ {0}
    BY <2>1, <2>2, FS_EmptySet, FS_CardinalityType
  <2>4. daily[i].per_skill[skill].n = n
    BY <1>2, <2>1, DailyReads
  <2>5. daily[i].per_skill[skill][mean] = Over(one, n)
    OBVIOUS
  <2>6. g[i] = Scale(Over(one, n), n)
    BY <2>4, <2>5
  <2>7. BlockOf(his, k, i) = TradesOf(i, P)
    BY <2>1, DayBlocks
  <2> HIDE DEF P
  <2>8. /\ one \in Frac /\ own \in Frac /\ sum \in Frac /\ Same(sum, one) /\ Same(sum, own)
    BY <2>2, TalliesOf
  <2> HIDE DEF one, own, sum, n, g
  <2>9. Same(g[i], one) /\ g[i] \in Frac
    BY <2>3, <2>6, <2>8, OverSame
  <2>10. Same(one, sum)
    BY <2>8, SameSym
  <2>11. Same(g[i], sum)
    BY <2>8, <2>9, <2>10, SameTrans
  <2>12. Same(g[i], own)
    BY <2>8, <2>9, <2>11, SameTrans
  <2> QED BY <2>7, <2>9, <2>12 DEF own
<1> HIDE DEF g, k, days, his, daily
<1>5. Same(Tally(v, his), SumOver(g, days))
  BY <1>2, <1>3, <1>4, TallyByBlock
<1>6. Tally(v, his) \in Frac /\ SumOver(g, days) \in Frac
  BY <1>2, <1>3, <1>4, TallyTyped, SumTyped
<1> QED BY <1>1, <1>5, <1>6 DEF his, daily

LEMMA SkillsAreDaily ==
    ASSUME NEW drafts, Accountable(drafts)
    PROVE  LET daily == Daily(drafts)
           IN  SkillsOf(Traded(drafts)) = UNION {DOMAIN daily[i].per_skill : i \in DOMAIN daily}
<1> DEFINE daily == Daily(drafts)
<1>1. DOMAIN daily = DOMAIN drafts
  BY DEF Daily
<1>2. \A i \in DOMAIN drafts : DOMAIN daily[i].per_skill = SkillsIn(MadeOn(drafts, i))
  BY DailyReads
<1> HIDE DEF daily
<1>3. ASSUME NEW t \in Traded(drafts)
      PROVE  \E i \in DOMAIN daily : ResolveSkill[t[2].pattern] \in DOMAIN daily[i].per_skill
  <2>1. t[1] \in DOMAIN drafts /\ t[2] \in MadeOn(drafts, t[1])
    BY TradedIs
  <2> QED BY <1>1, <1>2, <2>1 DEF SkillsIn
<1>4. ASSUME NEW i \in DOMAIN daily, NEW skill \in DOMAIN daily[i].per_skill
      PROVE  skill \in SkillsOf(Traded(drafts))
  <2>1. PICK s \in MadeOn(drafts, i) : ResolveSkill[s.pattern] = skill
    BY <1>1, <1>2 DEF SkillsIn
  <2>2. <<i, s>> \in Traded(drafts) /\ <<i, s>>[2] = s
    BY <1>1, TradedIs
  <2> QED BY <2>1, <2>2 DEF SkillsOf
<1>5. SkillsOf(Traded(drafts)) \subseteq UNION {DOMAIN daily[i].per_skill : i \in DOMAIN daily}
  BY <1>3 DEF SkillsOf
<1>6. UNION {DOMAIN daily[i].per_skill : i \in DOMAIN daily} \subseteq SkillsOf(Traded(drafts))
  BY <1>4
<1> QED BY <1>5, <1>6 DEF daily

\* The merge of the daily credits is the credit of all.
LEMMA MergeIsWhole ==
    ASSUME NEW drafts, Accountable(drafts)
    PROVE  LET whole == ApplyCredit(Outcomes(drafts))
               merged == MergeCreditReports(Daily(drafts))
           IN  /\ merged.n_scored = whole.n_scored
               /\ DOMAIN merged.per_skill = DOMAIN whole.per_skill
               /\ \A s \in DOMAIN whole.per_skill :
                     SameCredit(whole.per_skill[s], merged.per_skill[s])
<1> DEFINE real == Traded(drafts)
           things == Things(drafts)
           daily == Daily(drafts)
           whole == ApplyCredit(Outcomes(drafts))
           merged == MergeCreditReports(daily)
           k == DayOf(real)
           scored == [i \in DOMAIN daily |-> daily[i].n_scored]
<1>1. /\ whole.n_scored = Cardinality(real)
      /\ DOMAIN whole.per_skill = SkillsOf(real)
      /\ \A s \in SkillsOf(real) : whole.per_skill[s] = CreditOf(Skilled(real, s))
  BY ApplyReads DEF Traded
<1>2. /\ merged.n_scored = SumFunction(scored)
      /\ DOMAIN merged.per_skill = UNION {DOMAIN daily[i].per_skill : i \in DOMAIN daily}
      /\ \A s \in DOMAIN merged.per_skill : merged.per_skill[s] =
            Credit(Count(daily, s, "n"), Count(daily, s, "wins"), Count(daily, s, "nukes"),
                   Weighted(daily, s, "expectancy"), Weighted(daily, s, "expectancy_raw"))
  <2> HIDE DEF daily
  <2> QED BY DEF MergeCreditReports
<1>3. DOMAIN daily = DOMAIN drafts /\ IsFiniteSet(DOMAIN drafts)
  BY OutcomesAreFinite DEF Daily
<1>4. DOMAIN merged.per_skill = SkillsOf(real)
  BY <1>2, SkillsAreDaily
<1>5. merged.n_scored = Cardinality(real)
  <2>1. IsFiniteSet(real) /\ \A t \in real : k[t] \in DOMAIN drafts
    <3>1. IsFiniteSet(real)
      BY TradedIs, OutcomesAreFinite DEF TypedTrades
    <3> QED BY <3>1, TradedIs DEF DayOf
  <2>2. ASSUME NEW i \in DOMAIN drafts PROVE scored[i] = Cardinality(BlockOf(real, k, i))
    <3> DEFINE made == MadeOn(drafts, i)
    <3>1. scored[i] = Cardinality(made)
      <4>1. daily[i].n_scored = Cardinality(made)
        BY DailyReads
      <4> HIDE DEF daily
      <4> QED BY <1>3, <4>1
    <3>2. BlockOf(real, k, i) = TradesOf(i, made)
      BY DayBlocks
    <3>3. IsFiniteSet(made) /\ \A s \in made : Excess(things)[s] \in Frac
      BY MadeIsTyped
    <3> HIDE DEF made
    <3> QED BY <3>1, <3>2, <3>3, TalliesOf
  <2>3. SumFunction(scored) = SumFunctionOnSet(scored, DOMAIN drafts)
    <3> HIDE DEF daily
    <3> QED BY <1>3 DEF SumFunction
  <2> HIDE DEF real, k, scored, daily, merged
  <2>4. Cardinality(real) = SumFunctionOnSet(scored, DOMAIN drafts)
    BY <1>3, <2>1, <2>2, CountByBlock
  <2> QED BY <1>2, <2>3, <2>4
<1>6. ASSUME NEW s \in SkillsOf(real)
      PROVE  SameCredit(whole.per_skill[s], merged.per_skill[s])
  <2> DEFINE his == Skilled(real, s)
             n == Cardinality(his)
             wins == Cardinality(Of("continued", his))
             nukes == Cardinality(Of("nuked", his))
             adv == Tally(Excess(things), his)
             raw == Tally(Points(things), his)
             mine == whole.per_skill[s]
             theirs == merged.per_skill[s]
             adv2 == Weighted(daily, s, "expectancy")
             raw2 == Weighted(daily, s, "expectancy_raw")
  <2>1. TypedTrades(his, things)
    BY TradedIs, OutcomesAreFinite DEF Skilled
  <2>2. /\ mine.n = n /\ mine.wins = wins /\ mine.losses = n - wins /\ mine.nukes = nukes
        /\ mine.expectancy = Over(adv, n) /\ mine.expectancy_raw = Over(raw, n)
    BY <1>1, <2>1, CreditReads
  <2>3. /\ Count(daily, s, "n") = n /\ Count(daily, s, "wins") = wins
        /\ Count(daily, s, "nukes") = nukes
    BY CountsMerge
  <2>4. theirs = Credit(n, wins, nukes, adv2, raw2)
    BY <1>2, <1>4, <2>3
  <2>5. /\ theirs.n = n /\ theirs.wins = wins /\ theirs.losses = n - wins /\ theirs.nukes = nukes
        /\ theirs.expectancy = Over(adv2, n) /\ theirs.expectancy_raw = Over(raw2, n)
    <3> HIDE DEF theirs, n, wins, nukes, adv2, raw2
    <3> QED BY <2>4 DEF Credit
  <2>6. n \in Nat \ {0}
    <3>1. his # {}
      BY <1>6 DEF SkillsOf, Skilled
    <3>2. IsFiniteSet(his)
      BY <2>1 DEF TypedTrades
    <3> HIDE DEF his
    <3> QED BY <3>1, <3>2, FS_EmptySet, FS_CardinalityType
  <2>7. \A j \in DOMAIN drafts : \A x \in MadeOn(drafts, j) :
           Excess(things)[x] \in Frac /\ Points(things)[x] \in Frac
    BY MadeIsTyped
  <2>8. \A j \in DaysOfSkill(drafts, s) :
           LET P == BySkill(MadeOn(drafts, j), s)
           IN  /\ daily[j].per_skill[s].expectancy
                     = Over(Tally(Excess(things), TradesOf(1, P)), Cardinality(P))
               /\ daily[j].per_skill[s].expectancy_raw
                     = Over(Tally(Points(things), TradesOf(1, P)), Cardinality(P))
    BY SkillHasDays, DailyReads
  <2>9. adv \in Frac /\ adv2 \in Frac /\ Same(adv, adv2)
    BY <2>7, <2>8, MeanMerges
  <2>10. raw \in Frac /\ raw2 \in Frac /\ Same(raw, raw2)
    BY <2>7, <2>8, MeanMerges
  <2> HIDE DEF adv, raw, adv2, raw2, n, mine, theirs, wins, nukes
  <2>11. Same(Over(adv, n), Over(adv2, n)) /\ Same(Over(raw, n), Over(raw2, n))
    BY <2>6, <2>9, <2>10, OverSame
  <2>12. SameCredit(mine, theirs)
    BY <2>2, <2>5, <2>11 DEF SameCredit
  <2> QED BY <2>12 DEF mine, theirs
<1> QED BY <1>1, <1>4, <1>5, <1>6

\* What a report says of all trades.
LEMMA ReportReads ==
    ASSUME NEW drafts, Accountable(drafts)
    PROVE  LET report == BuildReport(drafts)
               all == Outcomes(drafts)
               real == Traded(drafts)
           IN  /\ report.all.n = Cardinality(real)
               /\ report.all.nukes = Cardinality(Of("nuked", real))
               /\ report.all.excess = MeanOr0(Tally(Excess(Things(drafts)), real), Cardinality(real))
               /\ report.n_unfillable = Cardinality(Of("unfillable", all))
               /\ report.n_missing = Cardinality(Of("missing", all))
               /\ DOMAIN report.by_pattern = PatternsOf(real)
               /\ \A p \in PatternsOf(real) :
                     report.by_pattern[p].n = Cardinality({t \in real : t[2].pattern = p})
<1> DEFINE all == Outcomes(drafts)
           real == Real(all)
           report == BuildReport(drafts)
<1>1. AdvantageSum(real) = Tally(Excess(Things(drafts)), real)
  <2>1. TypedTrades(real, Things(drafts))
    BY TradedIs, OutcomesAreFinite DEF Traded
  <2> QED BY <2>1, SumsAreTallies
<1>2. \A T : Aggregate(T).n = Cardinality(T)
  BY DEF Aggregate
<1>3. report.all = Aggregate(real)
  BY DEF BuildReport
<1>4. /\ report.all.n = Cardinality(real)
      /\ report.all.nukes = Cardinality(Of("nuked", real))
      /\ report.all.excess = MeanOr0(AdvantageSum(real), Cardinality(real))
  <2> HIDE DEF report, real
  <2> QED BY <1>3 DEF Aggregate
<1>5. /\ report.n_unfillable = Cardinality(Of("unfillable", all))
      /\ report.n_missing = Cardinality(Of("missing", all))
  BY DEF BuildReport
<1>6. /\ DOMAIN report.by_pattern = PatternsOf(real)
      /\ \A p \in PatternsOf(real) :
            report.by_pattern[p] = Aggregate({t \in real : t[2].pattern = p})
  BY DEF BuildReport
<1> HIDE DEF report, real, all
<1> QED BY <1>1, <1>2, <1>4, <1>5, <1>6 DEF Traded, report, real, all

\* What was not traded is counted.
LEMMA NothingIsLost ==
    ASSUME NEW drafts, Accountable(drafts)
    PROVE  LET all == Outcomes(drafts)
           IN  Cardinality(Traded(drafts)) + Cardinality(Of("unfillable", all))
                  + Cardinality(Of("missing", all)) = Cardinality(all)
<1> DEFINE all == Outcomes(drafts)
           real == Traded(drafts)
           shut == Of("unfillable", all)
           lost == Of("missing", all)
<1>1. \A t : /\ t \in real <=> t \in all /\ t[2].outcome \notin {"unfillable", "missing"}
             /\ t \in shut <=> t \in all /\ t[2].outcome = "unfillable"
             /\ t \in lost <=> t \in all /\ t[2].outcome = "missing"
  BY DEF Traded, Real, Of, NonTrade
<1>2. IsFiniteSet(all)
  BY OutcomesAreFinite
<1> HIDE DEF all, real, shut, lost
<1>3. /\ real \cap shut = {} /\ (real \cup shut) \cap lost = {} /\ (real \cup shut) \cup lost = all
      /\ real \subseteq all /\ shut \subseteq all /\ lost \subseteq all
  BY <1>1
<1>4. IsFiniteSet(real) /\ IsFiniteSet(shut) /\ IsFiniteSet(lost) /\ IsFiniteSet(real \cup shut)
  BY <1>2, <1>3, FS_Subset, FS_Union
<1>5. Cardinality(real \cup shut) = Cardinality(real) + Cardinality(shut) - Cardinality({})
  BY <1>3, <1>4, FS_Union
<1>6. Cardinality(all) = Cardinality(real \cup shut) + Cardinality(lost) - Cardinality({})
  BY <1>3, <1>4, FS_Union
<1>7. /\ Cardinality({}) = 0 /\ Cardinality(real) \in Nat /\ Cardinality(shut) \in Nat
      /\ Cardinality(lost) \in Nat
  BY <1>4, FS_EmptySet, FS_CardinalityType
<1>8. Cardinality(real) + Cardinality(shut) + Cardinality(lost) = Cardinality(all)
  BY <1>5, <1>6, <1>7
<1> QED BY <1>8 DEF all, real, shut, lost

\* Every trade is attributed once, under a skill or under none, and has one pattern.
LEMMA SkillsAddUp ==
    ASSUME NEW drafts, Accountable(drafts)
    PROVE  LET whole == ApplyCredit(Outcomes(drafts))
               who == DOMAIN whole.per_skill
               real == Traded(drafts)
           IN  /\ Cardinality(real) = SumFunctionOnSet([s \in who |-> whole.per_skill[s].n], who)
               /\ Cardinality(Of("nuked", real))
                     = SumFunctionOnSet([s \in who |-> whole.per_skill[s].nukes], who)
<1> DEFINE whole == ApplyCredit(Outcomes(drafts))
           who == DOMAIN whole.per_skill
           real == Traded(drafts)
           nuked == Of("nuked", real)
           n == [s \in who |-> whole.per_skill[s].n]
           nukes == [s \in who |-> whole.per_skill[s].nukes]
           k == [t \in real |-> ResolveSkill[t[2].pattern]]
<1>1. who = SkillsOf(real) /\ \A s \in who : whole.per_skill[s] = CreditOf(Skilled(real, s))
  BY ApplyReads DEF Traded
<1>2. IsFiniteSet(real) /\ nuked \subseteq real
  BY TradedIs, OutcomesAreFinite DEF TypedTrades, Of
<1>3. IsFiniteSet(who) /\ \A t \in real : k[t] \in who
  <2>1. ImageOf(k, real) = SkillsOf(real)
    BY DEF ImageOf, SkillsOf
  <2>2. \A t \in real : k[t] \in SkillsOf(real)
    BY DEF SkillsOf
  <2> HIDE DEF k, who
  <2> QED BY <1>1, <1>2, <2>1, <2>2, ImageIsFinite
<1>4. ASSUME NEW s \in who
      PROVE  /\ n[s] = Cardinality(BlockOf(real, k, s))
             /\ nukes[s] = Cardinality(BlockOf(nuked, k, s))
  <2> DEFINE his == Skilled(real, s)
  <2>1. TypedTrades(his, Things(drafts))
    BY TradedIs, OutcomesAreFinite DEF Skilled
  <2>2. CreditOf(his).n = Cardinality(his) /\ CreditOf(his).nukes = Cardinality(Of("nuked", his))
    BY <2>1, CreditReads
  <2>3. BlockOf(real, k, s) = his /\ BlockOf(nuked, k, s) = Of("nuked", his)
    BY <1>2 DEF BlockOf, Skilled, Of
  <2> QED BY <1>1, <2>2, <2>3
<1> HIDE DEF whole, who, real, nuked, n, nukes, k
<1>5. Cardinality(real) = SumFunctionOnSet(n, who)
  BY <1>2, <1>3, <1>4, CountByBlock
<1>6. Cardinality(nuked) = SumFunctionOnSet(nukes, who)
  <2>1. IsFiniteSet(nuked) /\ \A t \in nuked : k[t] \in who
    BY <1>2, <1>3, FS_Subset
  <2> QED BY <1>3, <1>4, <2>1, CountByBlock
<1> QED BY <1>5, <1>6 DEF whole, who, real, nuked, n, nukes

LEMMA PatternsAddUp ==
    ASSUME NEW drafts, Accountable(drafts)
    PROVE  LET by == BuildReport(drafts).by_pattern
           IN  Cardinality(Traded(drafts)) = SumFunction([p \in DOMAIN by |-> by[p].n])
<1> DEFINE by == BuildReport(drafts).by_pattern
           real == Traded(drafts)
           n == [p \in DOMAIN by |-> by[p].n]
           k == [t \in real |-> t[2].pattern]
           K == PatternsOf(real)
<1>1. DOMAIN by = K /\ \A p \in K : by[p].n = Cardinality({t \in real : t[2].pattern = p})
  BY ReportReads
<1>2. IsFiniteSet(real)
  BY TradedIs, OutcomesAreFinite DEF TypedTrades
<1>3. ImageOf(k, real) = K /\ \A t \in real : k[t] \in K
  BY DEF ImageOf, PatternsOf
<1>4. \A p : BlockOf(real, k, p) = {t \in real : t[2].pattern = p}
  BY DEF BlockOf
<1>5. DOMAIN n = K /\ \A p \in K : n[p] = by[p].n
  <2> HIDE DEF by
  <2> QED BY <1>1
<1> HIDE DEF by, real, n, k, K
<1>6. IsFiniteSet(K) /\ \A p \in K : n[p] = Cardinality(BlockOf(real, k, p))
  BY <1>1, <1>2, <1>3, <1>4, <1>5, ImageIsFinite
<1>7. Cardinality(real) = SumFunctionOnSet(n, K)
  BY <1>2, <1>3, <1>6, CountByBlock
<1>8. SumFunction(n) = SumFunctionOnSet(n, K)
  BY <1>5 DEF SumFunction
<1> QED BY <1>7, <1>8 DEF by, real, n
\* What a signature is of: failures, one to one.
SignatureOf(drafts) == [t \in Failures(Outcomes(drafts)) |->
    [day |-> drafts[t[1]].day, code |-> t[2].code, kind |-> KindOf(drafts[t[1]], t[2]),
     skill |-> ResolveSkill[t[2].pattern], score |-> t[2].score]]

LEMMA SignaturesAre ==
    ASSUME NEW drafts, Accountable(drafts)
    PROVE  LET failures == Failures(Outcomes(drafts))
               sig == SignatureOf(drafts)
           IN  /\ ExtractSignatures(drafts) = ImageOf(sig, failures)
               /\ \A t \in failures :
                     /\ sig[t].skill = ResolveSkill[t[2].pattern]
                     /\ sig[t].kind # "faded_miss" <=> t[2].outcome = "nuked"
               /\ \A t, u \in failures : sig[t] = sig[u] => t = u
<1> DEFINE failures == Failures(Outcomes(drafts))
           sig == SignatureOf(drafts)
<1>1. ExtractSignatures(drafts) = ImageOf(sig, failures)
  BY DEF ExtractSignatures, ImageOf, SignatureOf
<1>2. ASSUME NEW t \in failures
      PROVE  /\ t = <<t[1], t[2]>> /\ t[1] \in DOMAIN drafts /\ t[2] \in drafts[t[1]].outcomes
             /\ t[2].outcome \in {"nuked", "faded"}
  <2>1. t \in Traded(drafts) /\ t[2].outcome # "continued" /\ t[2].outcome \notin NonTrade
    BY DEF Failures, Traded, Real
  <2>2. t = <<t[1], t[2]>> /\ t[1] \in DOMAIN drafts /\ t[2] \in drafts[t[1]].outcomes
    BY <2>1, TradedIs DEF MadeOn, Made
  <2>3. t[2].outcome \in Verdict
    BY <2>2 DEF Accountable, OutcomesTyped
  <2> QED BY <2>1, <2>2, <2>3 DEF Verdict, NonTrade
<1>3. ASSUME NEW t \in failures
      PROVE  /\ sig[t].skill = ResolveSkill[t[2].pattern]
             /\ sig[t].day = drafts[t[1]].day /\ sig[t].code = t[2].code
             /\ sig[t].kind = KindOf(drafts[t[1]], t[2])
  BY DEF SignatureOf
<1>4. ASSUME NEW t \in failures PROVE sig[t].kind # "faded_miss" <=> t[2].outcome = "nuked"
  BY <1>2, <1>3 DEF KindOf
<1>5. ASSUME NEW t \in failures, NEW u \in failures, sig[t] = sig[u] PROVE t = u
  <2>1. drafts[t[1]].day = drafts[u[1]].day /\ t[2].code = u[2].code
    BY <1>3, <1>5
  <2>2. t[1] = u[1]
    BY <1>2, <2>1 DEF Accountable
  <2>3. t[2] = u[2]
    <3>1. OutcomesTyped(drafts[t[1]].outcomes)
      BY <1>2 DEF Accountable
    <3>2. t[2] \in drafts[t[1]].outcomes /\ u[2] \in drafts[t[1]].outcomes
      BY <1>2, <2>2
    <3> QED BY <2>1, <3>1, <3>2 DEF OutcomesTyped
  <2> QED BY <1>2, <2>2, <2>3
<1> QED BY <1>1, <1>3, <1>4, <1>5

\* The signatures are the losses of the skills, and those but the faded the nukes.
LEMMA SignaturesAddUp ==
    ASSUME NEW drafts, Accountable(drafts)
    PROVE  LET whole == ApplyCredit(Outcomes(drafts))
               failed == ExtractSignatures(drafts)
           IN  /\ \A s \in DOMAIN whole.per_skill :
                     whole.per_skill[s].losses = Cardinality({f \in failed : f.skill = s})
               /\ BuildReport(drafts).all.nukes
                     = Cardinality({f \in failed : f.kind # "faded_miss"})
<1> DEFINE whole == ApplyCredit(Outcomes(drafts))
           failed == ExtractSignatures(drafts)
           failures == Failures(Outcomes(drafts))
           sig == SignatureOf(drafts)
           real == Traded(drafts)
<1>1. /\ failed = ImageOf(sig, failures)
      /\ \A t \in failures : /\ sig[t].skill = ResolveSkill[t[2].pattern]
                             /\ sig[t].kind # "faded_miss" <=> t[2].outcome = "nuked"
      /\ \A t, u \in failures : sig[t] = sig[u] => t = u
  BY SignaturesAre
<1>2. \A t : t \in failures <=> t \in real /\ t[2].outcome # "continued"
  BY DEF Failures, Traded
<1>3. IsFiniteSet(real) /\ IsFiniteSet(failures)
  <2>1. IsFiniteSet(real)
    BY TradedIs, OutcomesAreFinite DEF TypedTrades
  <2> QED BY <1>2, <2>1, FS_Subset
<1>4. /\ DOMAIN whole.per_skill = SkillsOf(real)
      /\ \A s \in SkillsOf(real) : whole.per_skill[s] = CreditOf(Skilled(real, s))
  BY ApplyReads DEF Traded
<1>5. ASSUME NEW s \in SkillsOf(real)
      PROVE  whole.per_skill[s].losses = Cardinality({f \in failed : f.skill = s})
  <2> DEFINE his == Skilled(real, s)
             won == Of("continued", his)
             lost == his \ won
             theirs == {f \in failed : f.skill = s}
  <2>1. TypedTrades(his, Things(drafts))
    BY TradedIs, OutcomesAreFinite DEF Skilled
  <2>2. whole.per_skill[s].losses = Cardinality(his) - Cardinality(won)
    BY <1>4, <2>1, CreditReads
  <2>3. /\ \A t : t \in his <=> t \in real /\ ResolveSkill[t[2].pattern] = s
        /\ \A t : t \in won <=> t \in his /\ t[2].outcome = "continued"
    BY DEF Skilled, Of
  <2>4. \A t : t \in lost <=> t \in failures /\ sig[t].skill = s
    BY <1>1, <1>2, <2>3
  <2>5. IsFiniteSet(his) /\ won \subseteq his
    BY <2>1, <2>3 DEF TypedTrades
  <2> HIDE DEF his, won
  <2>6. /\ Cardinality(lost) = Cardinality(his) - Cardinality(his \cap won)
        /\ his \cap won = won
    BY <2>5, FS_Difference, FS_Subset
  <2>7. theirs = ImageOf(sig, lost)
    <3>1. \A f : f \in failed <=> \E t \in failures : f = sig[t]
      BY <1>1 DEF ImageOf
    <3>2. \A f : f \in ImageOf(sig, lost) <=> \E t \in lost : f = sig[t]
      BY DEF ImageOf
    <3> HIDE DEF failed, failures, sig, lost
    <3>3. \A f : f \in theirs <=> f \in ImageOf(sig, lost)
      BY <2>4, <3>1, <3>2
    <3> QED BY <3>3
  <2>8. lost \subseteq failures
    BY <2>4
  <2> HIDE DEF lost, theirs, failures, sig
  <2>9. Cardinality(theirs) = Cardinality(lost)
    BY <1>1, <1>3, <2>7, <2>8, PartIsAsLarge
  <2> QED BY <2>2, <2>6, <2>9 DEF theirs
<1>6. BuildReport(drafts).all.nukes = Cardinality({f \in failed : f.kind # "faded_miss"})
  <2> DEFINE nuked == Of("nuked", real)
             theirs == {f \in failed : f.kind # "faded_miss"}
  <2>1. BuildReport(drafts).all.nukes = Cardinality(nuked)
    BY ReportReads
  <2>2. \A t : t \in nuked <=> t \in failures /\ sig[t].kind # "faded_miss"
    <3>1. \A t : t \in nuked <=> t \in real /\ t[2].outcome = "nuked"
      BY DEF Of
    <3> QED BY <1>1, <1>2, <3>1
  <2>3. theirs = ImageOf(sig, nuked)
    <3>1. \A f : f \in failed <=> \E t \in failures : f = sig[t]
      BY <1>1 DEF ImageOf
    <3>2. \A f : f \in ImageOf(sig, nuked) <=> \E t \in nuked : f = sig[t]
      BY DEF ImageOf
    <3> HIDE DEF failed, failures, sig, nuked
    <3>3. \A f : f \in theirs <=> f \in ImageOf(sig, nuked)
      BY <2>2, <3>1, <3>2
    <3> QED BY <3>3
  <2>4. nuked \subseteq failures
    BY <2>2
  <2> HIDE DEF nuked, theirs, failures, sig
  <2>5. Cardinality(theirs) = Cardinality(nuked)
    BY <1>1, <1>3, <2>3, <2>4, PartIsAsLarge
  <2> QED BY <2>1, <2>5 DEF theirs
<1> QED BY <1>4, <1>5, <1>6
\* A mean, or nothing, times its number is the sum.
LEMMA MeanScales ==
    ASSUME NEW a \in Frac, NEW n \in Nat, n = 0 => a[1] = 0
    PROVE  Scale(MeanOr0(a, n), n) \in Frac /\ Same(Scale(MeanOr0(a, n), n), a)
<1>1. CASE n = 0
  <2>1. Scale(MeanOr0(a, n), n) = <<0, 1>>
    BY <1>1 DEF MeanOr0, Scale, Whole
  <2>2. <<0, 1>> \in Frac /\ a[2] \in Nat /\ a[1] = 0
    BY <1>1 DEF Frac
  <2> QED BY <2>1, <2>2 DEF Same
<1>2. CASE n # 0
  <2>1. MeanOr0(a, n) = Over(a, n) /\ n \in Nat \ {0}
    BY <1>2 DEF MeanOr0
  <2> QED BY <2>1, OverSame
<1> QED BY <1>1, <1>2

\* The tally of no trades.
LEMMA TallyOfNone ==
    ASSUME NEW T, IsFiniteSet(T), NEW v, Cardinality(T) = 0
    PROVE  Tally(v, T)[1] = 0
<1> DEFINE f == [t \in T |-> v[t[2]]]
<1>1. T = {} /\ Tally(v, T) = SumOver(f, T)
  BY FS_EmptySet DEF Tally
<1> HIDE DEF f
<1>2. SumOver(f, {}) = Whole(0)
  BY FS_EmptySet, SumUnfolds
<1> QED BY <1>1, <1>2 DEF Whole

\* The mean excess of all is that of the days, weighed by their trades.
LEMMA DaysAddUp ==
    ASSUME NEW drafts, Accountable(drafts)
    PROVE  LET report == BuildReport(drafts)
               series == DailySeries(drafts)
               daily == Daily(drafts)
           IN  Same(Scale(report.all.excess, report.all.n),
                    SumOver([j \in DOMAIN series |-> Scale(series[j], daily[j].n_scored)],
                            DOMAIN series))
<1> DEFINE report == BuildReport(drafts)
           series == DailySeries(drafts)
           daily == Daily(drafts)
           real == Traded(drafts)
           days == {i \in DOMAIN drafts : drafts[i].scored}
           v == Excess(Things(drafts))
           g == [j \in DOMAIN series |-> Scale(series[j], daily[j].n_scored)]
           k == DayOf(real)
           n == Cardinality(real)
           all == Tally(v, real)
<1>1. report.all.n = n /\ report.all.excess = MeanOr0(all, n)
  BY ReportReads
<1>2. TypedTrades(real, Things(drafts))
  BY TradedIs, OutcomesAreFinite
<1>3. IsFiniteSet(real) /\ \A t \in real : v[t[2]] \in Frac
  <2>1. \A t \in real : v[t[2]] \in Frac
    BY <1>2, SumsAreTallies
  <2> QED BY <1>2, <2>1 DEF TypedTrades
<1>4. IsFiniteSet(days) /\ days \subseteq DOMAIN drafts
  BY OutcomesAreFinite, FS_Subset
<1>5. DOMAIN series = days
  BY DEF DailySeries
<1>6. \A t \in real : k[t] \in days
  <2> TAKE t \in real
  <2>1. t[1] \in DOMAIN drafts /\ t[2] \in drafts[t[1]].outcomes
    BY TradedIs DEF MadeOn, Made
  <2>2. drafts[t[1]].scored
    BY <2>1 DEF Accountable
  <2> QED BY <2>1, <2>2 DEF DayOf
<1>7. ASSUME NEW j \in days
      PROVE  g[j] \in Frac /\ Same(g[j], Tally(v, BlockOf(real, k, j)))
  <2> DEFINE made == MadeOn(drafts, j)
             T == TradesOf(j, made)
             m == Cardinality(T)
             sum == Tally(v, T)
  <2>1. Real(TradesOf(j, drafts[j].outcomes)) = T
    BY TradesAre DEF MadeOn
  <2>2. TypedTrades(T, Things(drafts)) /\ IsFiniteSet(made)
        /\ \A s \in made : v[s] \in Frac
    BY <1>4, MadeIsTyped
  <2>3. AdvantageSum(T) = sum
    BY <2>2, SumsAreTallies
  <2>4. series[j] = MeanOr0(AdvantageSum(T), m)
    BY <2>1 DEF DailySeries, TradesOf
  <2>5. daily[j].n_scored = m
    <3>1. daily[j].n_scored = Cardinality(made)
      BY <1>4, DailyReads
    <3> HIDE DEF made, daily, v
    <3> QED BY <2>2, <3>1, TalliesOf
  <2>6. g[j] = Scale(series[j], daily[j].n_scored)
    BY <1>5
  <2>7. BlockOf(real, k, j) = T
    BY <1>4, DayBlocks
  <2>8. IsFiniteSet(T) /\ m \in Nat
    BY <2>2, FS_CardinalityType DEF TypedTrades
  <2>9. sum \in Frac
    <3>1. \A t \in T : v[t[2]] \in Frac
      BY <2>2, SumsAreTallies
    <3> HIDE DEF T, v
    <3> QED BY <2>8, <3>1, TallyTyped
  <2>10. m = 0 => sum[1] = 0
    <3> HIDE DEF T, v
    <3> QED BY <2>8, TallyOfNone
  <2>11. g[j] = Scale(MeanOr0(sum, m), m)
    BY <2>3, <2>4, <2>5, <2>6
  <2> HIDE DEF g, sum, m, T, series, daily, made, real, k, v
  <2>12. g[j] \in Frac /\ Same(g[j], sum)
    BY <2>8, <2>9, <2>10, <2>11, MeanScales
  <2> QED BY <2>7, <2>12 DEF sum
<1> HIDE DEF g, k, days, real, series, daily, v, n, report
<1>8. Same(all, SumOver(g, days)) /\ SumOver(g, days) \in Frac /\ all \in Frac
  <2>1. Same(all, SumOver(g, days))
    BY <1>3, <1>4, <1>6, <1>7, TallyByBlock
  <2>2. SumOver(g, days) \in Frac /\ all \in Frac
    BY <1>3, <1>4, <1>7, SumTyped, TallyTyped
  <2> QED BY <2>1, <2>2
<1>9. n \in Nat /\ (n = 0 => all[1] = 0)
  BY <1>3, FS_CardinalityType, TallyOfNone DEF n
<1> HIDE DEF all
<1>10. Scale(MeanOr0(all, n), n) \in Frac /\ Same(Scale(MeanOr0(all, n), n), all)
  BY <1>8, <1>9, MeanScales
<1>11. Same(Scale(MeanOr0(all, n), n), SumOver(g, days))
  BY <1>8, <1>10, SameTrans
<1>12. Same(Scale(report.all.excess, report.all.n), SumOver(g, DOMAIN series))
  BY <1>1, <1>5, <1>11
<1> QED BY <1>12 DEF report, g, series, daily

\* The reports on what can be accounted for agree.
LEMMA AccountsOfAgree == ASSUME NEW drafts, Accountable(drafts) PROVE AgreeOn(drafts)
<1> DEFINE report == BuildReport(drafts)
           whole == ApplyCredit(Outcomes(drafts))
           daily == Daily(drafts)
           merged == MergeCreditReports(daily)
           series == DailySeries(drafts)
           failed == ExtractSignatures(drafts)
           who == DOMAIN whole.per_skill
           real == Traded(drafts)
           by == report.by_pattern
<1>1. whole.n_scored = Cardinality(real)
  BY ApplyReads DEF Traded
<1>2. /\ merged.n_scored = whole.n_scored /\ DOMAIN merged.per_skill = who
      /\ \A s \in who : SameCredit(whole.per_skill[s], merged.per_skill[s])
  BY MergeIsWhole
<1>3. /\ report.all.n = Cardinality(real) /\ report.all.nukes = Cardinality(Of("nuked", real))
      /\ report.n_unfillable = Cardinality(Of("unfillable", Outcomes(drafts)))
      /\ report.n_missing = Cardinality(Of("missing", Outcomes(drafts)))
  BY ReportReads
<1>4. report.all.n + report.n_unfillable + report.n_missing = Cardinality(Outcomes(drafts))
  <2> HIDE DEF report
  <2> QED BY <1>3, NothingIsLost
<1>5. /\ Cardinality(real) = SumFunctionOnSet([s \in who |-> whole.per_skill[s].n], who)
      /\ Cardinality(Of("nuked", real))
            = SumFunctionOnSet([s \in who |-> whole.per_skill[s].nukes], who)
  BY SkillsAddUp
<1>6. /\ \A s \in who : whole.per_skill[s].losses = Cardinality({f \in failed : f.skill = s})
      /\ report.all.nukes = Cardinality({f \in failed : f.kind # "faded_miss"})
  BY SignaturesAddUp
<1>7. Same(Scale(report.all.excess, report.all.n),
           SumOver([j \in DOMAIN series |-> Scale(series[j], daily[j].n_scored)], DOMAIN series))
  BY DaysAddUp
<1>8. Cardinality(real) = SumFunction([p \in DOMAIN by |-> by[p].n])
  BY PatternsAddUp
<1>9. AgreeOn(drafts) <=>
         /\ report.all.n = whole.n_scored /\ merged.n_scored = whole.n_scored
         /\ report.all.n + report.n_unfillable + report.n_missing = Cardinality(Outcomes(drafts))
         /\ whole.n_scored = SumFunctionOnSet([s \in who |-> whole.per_skill[s].n], who)
         /\ report.all.nukes = SumFunctionOnSet([s \in who |-> whole.per_skill[s].nukes], who)
         /\ who = DOMAIN merged.per_skill
         /\ \A s \in who :
               /\ SameCredit(whole.per_skill[s], merged.per_skill[s])
               /\ whole.per_skill[s].losses = Cardinality({f \in failed : f.skill = s})
         /\ report.all.nukes = Cardinality({f \in failed : f.kind # "faded_miss"})
         /\ Same(Scale(report.all.excess, report.all.n),
                 SumOver([j \in DOMAIN series |-> Scale(series[j], daily[j].n_scored)],
                         DOMAIN series))
         /\ report.all.n = SumFunction([p \in DOMAIN by |-> by[p].n])
  BY Zenon DEF AgreeOn
<1> HIDE DEF report, whole, daily, merged, series, failed, who, real, by
<1> QED BY <1>1, <1>2, <1>3, <1>4, <1>5, <1>6, <1>7, <1>8, <1>9

\* The drafts of a walk that ended can be accounted for.
LEMMA EndedIsAccountable == PlaceInv /\ ScoreInv /\ Ended => Accountable(job.drafts)
<1> SUFFICES ASSUME PlaceInv, ScoreInv, Ended PROVE Accountable(job.drafts)
  OBVIOUS
<1> DEFINE walk == job
           w == job.window
           drafts == job.drafts
<1>1. job.kind = "walk"
  BY DEF Ended
<1>2. /\ w \in Windows /\ drafts \in Seq({drafts[j] : j \in DOMAIN drafts})
      /\ Len(drafts) = Drafted /\ \A k \in 1 .. Drafted : drafts[k].day = Day(w, k)
  BY <1>1 DEF PlaceInv, WalkIsAt
<1>3. Drafted \in Nat /\ DOMAIN drafts = 1 .. Drafted
  <2>1. Len(drafts) \in Nat /\ DOMAIN drafts = 1 .. Len(drafts)
    BY <1>2
  <2> QED BY <1>2, <2>1
<1>4. ASSUME NEW k \in DOMAIN drafts
      PROVE  OutcomesTyped(drafts[k].outcomes) /\ (drafts[k].scored \/ drafts[k].outcomes = {})
  <2>1. DraftIs(walk, k)
    BY <1>1, <1>3 DEF ScoreInv, DraftsAreRight
  <2>2. CASE k \in job.pending
    BY <2>1, <2>2, FS_EmptySet DEF DraftIs, OutcomesTyped
  <2>3. CASE k \notin job.pending
    BY <2>1, <2>3 DEF DraftIs, Fair
  <2> QED BY <2>2, <2>3
<1>5. ASSUME NEW i \in DOMAIN drafts, NEW j \in DOMAIN drafts, drafts[i].day = drafts[j].day
      PROVE  i = j
  <2>1. Day(w, i) = Day(w, j) /\ w[1] \in Nat /\ i \in Nat /\ j \in Nat
    BY <1>2, <1>3, <1>5, WindowIsCounted
  <2> QED BY <2>1 DEF Day
<1> QED BY <1>3, <1>4, <1>5 DEF Accountable

\* What is reported of a walk that ended -- the report, the credit of all days and
\* the merge of the daily ones, the signatures of failures, the daily series -- is of
\* the same trades, whatever skills are registered and however patterns are spelt
\* (build_report, apply_credit, merge_credit_reports, extract_signatures, daily_series).
THEOREM AccountsAlwaysAgree == WalkSpec => []AccountsAgree
<1>1. PlaceInv /\ ScoreInv => AccountsAgree
  BY EndedIsAccountable, AccountsOfAgree DEF AccountsAgree
<1> QED BY <1>1, PlaceAlways, ScoresAlways, PTL
=============================================================================
