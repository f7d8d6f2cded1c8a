--------------------------- MODULE MCWalkForward ---------------------------
(***************************************************************************)
(* Hand-made markets for WalkForward: a one-word board, a board that       *)
(* opened, a stock nuked on its entry day, a code in two pools, a day      *)
(* without limit-ups, a stock without bars and an ST name that leaves the  *)
(* pool.                                                                   *)
(***************************************************************************)
EXTENDS Evaluation

MCCodes == {"M", "G", "S"}
MCBoardOf == [c \in MCCodes |-> IF c = "G" THEN "growth" ELSE "main"]

Stock(in, boards, pct, open, high, low, close) ==
    [in |-> in, boards |-> boards, pct |-> pct, st |-> FALSE,
     bar |-> [open |-> open, high |-> high, low |-> low, close |-> close]]

Quiet(price) == Stock({}, 0, 0, price, price + 9, price - 9, price)

NoTradeDay == [Quiet(10) EXCEPT !.bar = NoBar]

Special(days) == [d \in DOMAIN days |-> [days[d] EXCEPT !.st = TRUE]]

\* M: a one-word board on day 2, one that opens on day 3, down on day 4, when no
\* stock is limit-up.  G: broken on day 3, the day after its board.  S: ST, in
\* the pool on day 1 and broken on day 2, so that its name is gone from there.
Lively ==
    [M |-> << Stock({"zt"}, 1, 10, 950, 1000, 940, 1000),
              Stock({"zt"}, 2, 10, 1100, 1100, 1100, 1100),
              Stock({"zt", "blowup"}, 3, 10, 1210, 1210, 1150, 1210),
              Stock({"dt"}, 0, -10, 1150, 1150, 1089, 1089),
              Quiet(1089) >>,
     G |-> << Quiet(500),
              Stock({"zt"}, 1, 20, 510, 600, 505, 600),
              Stock({"blowup"}, 0, 6, 630, 720, 620, 640),
              Quiet(650),
              Stock({"zt"}, 1, 20, 660, 780, 660, 780) >>,
     S |-> Special(<< Stock({"zt"}, 1, 5, 390, 400, 390, 400),
              Stock({"blowup"}, 0, 4, 419, 420, 400, 416),
              Stock({"dt"}, 0, -5, 395, 395, 395, 395),
              NoTradeDay,
              Quiet(380) >>)]

\* As the source tells it later: G was on the board on day 1, S was not.
Corrected == [Lively EXCEPT !["G"][1].in = {"zt"}, !["G"][1].boards = 1,
                            !["G"][2].boards = 2, !["S"][1].in = {}]

\* M and G on the board on day 1; M fades, G continues until it breaks on day 5.
Plain ==
    [M |-> << Stock({"zt"}, 2, 10, 960, 1000, 950, 1000),
              Quiet(1040), Quiet(1030), Quiet(1035),
              Stock({"zt"}, 1, 10, 1040, 1139, 1040, 1139) >>,
     G |-> << Stock({"zt"}, 1, 20, 500, 600, 500, 600),
              Stock({"zt"}, 2, 20, 610, 720, 605, 720),
              Stock({"zt"}, 3, 20, 730, 864, 725, 864),
              Stock({"zt"}, 4, 20, 1036, 1036, 1000, 1036),
              Stock({"blowup"}, 0, 3, 1100, 1243, 1040, 1070) >>,
     S |-> Special(<< Quiet(300), Quiet(300), Quiet(305),
              Stock({"zt"}, 1, 5, 310, 320, 306, 320),
              Stock({"zt"}, 2, 5, 330, 336, 330, 336) >>)]

MCWorld == "lively" :> Lively @@ "corrected" :> Corrected @@ "plain" :> Plain
MCRevisedTo == "lively" :> "corrected"
MCWindows == {<<1, 4>>, <<4, 5>>}
MCRefused == {<<"dt", 2>>}
MCUnlisted == {"S"}
MCCodeSeq == <<"G", "M", "S">>
MCRulers == {<<"pool", 1>>, <<"return", 3>>}

MCPatterns == {"breakout", " Breakout", "DRAGON", "unheard of", ""}

\* Prose, and a JSON object that repeats a code and names one not in the pools.
MCAnswers ==
    {[json |-> FALSE, picks |-> << >>, phase |-> NoPhase],
     [json |-> TRUE, phase |-> "hot",
      picks |-> << [code |-> "Z", pattern |-> "breakout"], [code |-> "M", pattern |-> "DRAGON"],
                   [code |-> "M", pattern |-> ""], [code |-> "G", pattern |-> " Breakout"],
                   [code |-> "S", pattern |-> "unheard of"] >>]}

MCSkills == << [id |-> "breakout", name |-> "Second Board"], [id |-> "relay", name |-> "Dragon"] >>

\* Of two gates that let the second board in, the first has it.
MCGated == << [id |-> "breakout", gate |-> [min |-> 2, max |-> 0, status |-> {"limit_up"}]],
              [id |-> "relay", gate |-> [min |-> 0, max |-> 0, status |-> {"limit_up", "blowup"}]] >>

MCStrip == [t \in MCPatterns \cup {"highest_board", "pool_avg", "random_pool", "relay"} |->
               IF t = " Breakout" THEN "Breakout" ELSE t]

\* Every text that is compared, in lower case and without blanks.
MCNorm == (" Breakout" :> "breakout" @@ "breakout" :> "breakout" @@ "relay" :> "relay"
           @@ "DRAGON" :> "dragon" @@ "Dragon" :> "dragon" @@ "Second Board" :> "second board"
           @@ "unheard of" :> "unheard of" @@ "" :> "" @@ "highest_board" :> "highest_board"
           @@ "pool_avg" :> "pool_avg" @@ "random_pool" :> "random_pool")
=============================================================================
