------------------------------- MODULE Capture -------------------------------
(***************************************************************************)
(* The snapshot of the market: PITStore (data/cache.py), the capture of a  *)
(* window into it (data/capture.py) out of a live source that may refuse,  *)
(* fail or be revised (data/source.py), and what SnapshotSource reads back *)
(* (data/snapshot_source.py).                                              *)
(*                                                                         *)
(* A file is written under another name and renamed, so a put is one step; *)
(* a process that dies leaves the puts before.  The source's tries and     *)
(* providers make one fetch, which may fail.                               *)
(***************************************************************************)
EXTENDS Market, Replay

CONSTANTS
    World,       \* a version of the market -> what it says
    AtFirst,     \* the versions that the source may tell at first
    RevisedTo,   \* a version -> the one the source tells after a revision
    LastDay,     \* bound: the trading days are 1 .. LastDay
    Windows,     \* the windows that are captured and replayed
    Refused,     \* the <<kind, day>> that the source refuses (ValueError)
    Unlisted,    \* the codes that some provider of bars has nothing for
    CodeSeq      \* Codes in the order that capture fetches their bars in

\* A world gives every code and day: the pools it is in, its boards and change,
\* whether its name says ST, and its bar.
StockDay == [in : SUBSET (Kinds \ {"prev"}), boards : Nat, pct : Int, st : BOOLEAN, bar : Bar]

ASSUME WorldAssumption ==
    /\ AtFirst \subseteq DOMAIN World
    /\ \A v \in DOMAIN RevisedTo : RevisedTo[v] \in DOMAIN World
    /\ \A v \in DOMAIN World : World[v] \in [Codes -> [1 .. LastDay -> StockDay]]

ASSUME WindowsAssumption ==
    /\ LastDay \in Nat
    /\ \A w \in Windows : w \in (1 .. LastDay) \X (1 .. LastDay) /\ w[1] <= w[2]

ASSUME CodeSeqAssumption ==
    CodeSeq \in Seq(Codes) /\ \A c \in Codes : \E i \in DOMAIN CodeSeq : CodeSeq[i] = c

VARIABLES
    live,        \* the version that the live source tells now
    pools,       \* files of pools: <<kind, day>> -> frame
    ohlcv,       \* files of bars: code -> (day -> bar)
    begun,       \* history: the windows whose capture was begun
    captured     \* history: the windows whose capture was completed

storeVars == <<live, pools, ohlcv, begun, captured>>

\* A file is put whole, under its name.
Put(files, name, content) ==
    [f \in DOMAIN files \cup {name} |-> IF f = name THEN content ELSE files[f]]

------------------------------------------------------------------------------
(* The live source *)

\* A slip: the number of boards keeps the name it has at the source.
RowAsRead(world, c, day) ==
    [code |-> c, lianban |-> world[c][day].boards, pct |-> world[c][day].pct,
     st |-> world[c][day].st]

\* _normalize: the source's columns under the names and types used here.
RowOf(world, c, day) ==
    [code |-> c, boards |-> world[c][day].boards, pct |-> world[c][day].pct,
     st |-> world[c][day].st]

InPool(world, kind, day) ==
    IF kind # "prev" THEN {c \in Codes : kind \in world[c][day].in}
    ELSE IF day = 1 THEN {} ELSE {c \in Codes : "zt" \in world[c][day - 1].in}

\* A pool of the source.  A refusal is stored as an empty frame.
LiveFrame(world, kind, day) ==
    IF <<kind, day>> \in Refused THEN {}
    ELSE {RowOf(world, c, day) : c \in InPool(world, kind, day)}

\* What each of the three providers of bars may say of a code.
ProviderSays(c) == IF c \in Unlisted THEN {"data", "empty", "invalid", "down"}
                   ELSE {"data", "down"}

\* A slip: an outage of every provider reads as no data.
FallbackSilently(said) ==
    IF \E i \in DOMAIN said : said[i] = "data" THEN "data" ELSE "empty"

\* _fallback_ohlcv: the first data; if all raised, the last error; else nothing.
Fallback(said) ==
    IF \E i \in DOMAIN said : said[i] = "data" THEN "data"
    ELSE IF \A i \in DOMAIN said : said[i] \in {"invalid", "down"} THEN said[3]
    ELSE "empty"

\* What a fetch of a code's bars may come to; capture stores "invalid" (a
\* ValueError) as an empty frame too, and "down" ends it.
BarAnswers(c) == {Fallback(said) : said \in [1 .. 3 -> ProviderSays(c)]}

LiveBars(world, c, window) == [d \in window[1] .. window[2] |-> world[c][d].bar]

------------------------------------------------------------------------------
(* capture_window.  A job is [window, at, codes]: `at` counts the pools. *)

PoolItems(window) == Len(KindSeq) * Len(TradingDays(window))

Item(window, n) == <<KindSeq[((n - 1) % Len(KindSeq)) + 1],
                     window[1] + ((n - 1) \div Len(KindSeq))>>

NewCapture(window) == [kind |-> "capture", window |-> window, at |-> 1, codes |-> {}]

AtPools(cap) == cap.at <= PoolItems(cap.window)

\* A slip: only the codes of frames that were fetched now are collected.
CollectFetched(cap, item, had) ==
    [cap EXCEPT !.at = @ + 1, !.codes = IF had THEN @ ELSE @ \cup CodesOf(pools'[item])]

\* The codes of every frame of the window are collected, fetched now or before.
Collect(cap, item, had) ==
    [cap EXCEPT !.at = @ + 1, !.codes = @ \cup CodesOf(pools'[item])]

\* A slip: what is stored is fetched again.
PutPoolAlways(item) == pools' = Put(pools, item, LiveFrame(World[live], item[1], item[2]))

\* `has` skips what is stored.
PutPool(item) ==
    IF item \in DOMAIN pools THEN UNCHANGED pools
    ELSE pools' = Put(pools, item, LiveFrame(World[live], item[1], item[2]))

\* The codes whose bars are still to be fetched: has_ohlcv asks for the code,
\* not for the days.
BarsDue(cap) == {i \in DOMAIN CodeSeq : CodeSeq[i] \in cap.codes \ DOMAIN ohlcv}

PutBars(cap, c) ==
    \E answer \in BarAnswers(c) \ {"down"} :
        ohlcv' = Put(ohlcv, c, IF answer = "data" THEN LiveBars(World[live], c, cap.window)
                               ELSE << >>)

------------------------------------------------------------------------------
(* SnapshotSource *)

\* A slip: a pool that is not there reads as an empty one.
HasPoolsRegardless(day) == TRUE

HasPools(day) == \A kind \in Kinds : <<kind, day>> \in DOMAIN pools

ReadPool(kind, day) == IF <<kind, day>> \in DOMAIN pools THEN pools[<<kind, day>>] ELSE {}

PoolsOn(day) == [zt |-> ReadPool("zt", day), prev |-> ReadPool("prev", day),
                 blowup |-> ReadPool("blowup", day), dt |-> ReadPool("dt", day)]

IsWhole(window) == Kinds \X (window[1] .. window[2]) \subseteq DOMAIN pools

=============================================================================
