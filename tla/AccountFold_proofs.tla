------------------------- MODULE AccountFold_proofs -------------------------
(***************************************************************************)
(* What holds of the fold of an account for any trades and baselines.      *)
(*                                                                         *)
(* A fold goes through its rows in rowid order, and a baseline taken at    *)
(* some moment splits them by the clock instead.  Cash and quantities do   *)
(* not mind: over every prefix of the fill table, what the fold of all     *)
(* rows has moved is what the folds of the two parts have moved together.  *)
(***************************************************************************)
EXTENDS AccountFold, AccountLedger_proofs, DataLemmas

View(v) ==
    /\ v = [cash |-> v.cash, qty |-> v.qty, basis |-> v.basis, realized |-> v.realized,
            oversold |-> v.oversold]
    /\ v.cash \in Int /\ v.qty \in [Codes -> Int]

BaseOK(base) == base.cash \in Int /\ base.held \in [Codes -> Int]

QtyDelta(trade) == IF trade.side = "buy" THEN trade.qty ELSE -trade.qty

------------------------------------------------------------------------------
(* One row, and rows one after the other *)

LEMMA TradeTypes ==
    ASSUME NEW row \in FillRow
    PROVE  /\ row.trade.side \in {"buy", "sell"} /\ row.trade.code \in Codes
           /\ row.trade.price \in Nat /\ row.trade.qty \in Nat /\ row.trade.fee \in Nat
           /\ CashDelta(row.trade) \in Int /\ QtyDelta(row.trade) \in Int
<1>1. row.trade \in TradeRow
  BY TradesAssumption DEF FillRow
<1>2. /\ row.trade.side \in {"buy", "sell"} /\ row.trade.code \in Codes
      /\ row.trade.price \in Nat /\ row.trade.qty \in Nat /\ row.trade.fee \in Nat
  BY <1>1 DEF TradeRow
<1>3. row.trade.price * row.trade.qty \in Nat
  BY <1>2
<1>4. CashDelta(row.trade) \in Int
  BY <1>2, <1>3 DEF CashDelta, Gross
<1> QED BY <1>2, <1>4 DEF QtyDelta

\* What a fill moves: its cash, and the quantity of its code.
LEMMA FillMoves ==
    ASSUME NEW v, View(v), NEW row \in FillRow
    PROVE  LET w == FoldFill(v, row)
           IN  /\ View(w) /\ w.cash = v.cash + CashDelta(row.trade)
               /\ \A c \in Codes :
                    w.qty[c] = v.qty[c] + (IF c = row.trade.code THEN QtyDelta(row.trade) ELSE 0)
<1> DEFINE t == row.trade
           w == FoldFill(v, row)
<1>1. /\ t.side \in {"buy", "sell"} /\ t.code \in Codes /\ t.qty \in Nat
      /\ CashDelta(t) \in Int /\ QtyDelta(t) \in Int
  BY TradeTypes
<1>2. v.cash \in Int /\ v.qty \in [Codes -> Int]
  BY DEF View
<1>3. /\ w = [cash |-> w.cash, qty |-> w.qty, basis |-> w.basis, realized |-> w.realized,
              oversold |-> w.oversold]
      /\ w.cash = v.cash + CashDelta(t)
      /\ w.qty = [v.qty EXCEPT ![t.code] = IF t.side = "buy" THEN v.qty[t.code] + t.qty
                                           ELSE v.qty[t.code] - t.qty]
  <2>1. CASE t.side = "buy"
    BY <2>1 DEF View, FoldFill, Buy
  <2>2. CASE t.side = "sell"
    BY <2>2 DEF View, FoldFill, Sell
  <2> QED BY <1>1, <2>1, <2>2
<1> HIDE DEF w, t
<1>4. w.cash \in Int
  BY <1>1, <1>2, <1>3
<1>5. ASSUME NEW c \in Codes
      PROVE  w.qty[c] = v.qty[c] + (IF c = t.code THEN QtyDelta(t) ELSE 0)
  BY <1>1, <1>2, <1>3 DEF QtyDelta
<1>6. w.qty \in [Codes -> Int]
  BY <1>1, <1>2, <1>3
<1>7. View(w)
  BY <1>3, <1>4, <1>6 DEF View
<1> QED BY <1>3, <1>5, <1>7 DEF w, t

\* The function that FoldFrom reads: its value at n is the view after n rows.
FoldUpTo(V, base, rows) ==
    V[0] = Start(base) /\ \A n \in 1 .. Len(rows) : V[n] = FoldFill(V[n - 1], rows[n])

\* There is such a function, so FoldFrom reads one.
LEMMA FoldReads ==
    ASSUME NEW base, NEW rows \in Seq(FillRow)
    PROVE  \E V : FoldUpTo(V, base, rows) /\ FoldFrom(base, rows) = V[Len(rows)]
<1> DEFINE Fn(V, m) ==
        V = [n \in 0 .. m |-> IF n = 0 THEN Start(base) ELSE FoldFill(V[n - 1], rows[n])]
           Bad == {m \in 0 .. Len(rows) : ~ \E V : Fn(V, m)}
<1>1. Len(rows) \in Nat
  OBVIOUS
<1>2. ASSUME Bad # {} PROVE FALSE
  <2>1. PICK m \in Bad : \A y \in Bad : m <= y
    <3>1. Bad \subseteq Nat
      BY <1>1
    <3> HIDE DEF Bad
    <3> QED BY <1>2, <3>1, LeastElement
  <2>2. CASE m = 0
    <3>1. Fn([n \in 0 .. 0 |-> Start(base)], 0)
      OBVIOUS
    <3> QED BY <2>1, <2>2, <3>1
  <2>3. CASE m # 0
    <3>1. m - 1 \in 0 .. Len(rows) /\ m \in 1 .. Len(rows)
      BY <1>1, <2>3
    <3>2. PICK V : Fn(V, m - 1)
      <4>1. m - 1 \notin Bad
        <5> HIDE DEF Bad
        <5> QED BY <2>1, <3>1
      <4> QED BY <3>1, <4>1
    <3> DEFINE G == [n \in 0 .. m |-> IF n < m THEN V[n] ELSE FoldFill(V[m - 1], rows[m])]
    <3>3. ASSUME NEW n \in 0 .. m
          PROVE  G[n] = IF n = 0 THEN Start(base) ELSE FoldFill(G[n - 1], rows[n])
      <4>1. CASE n = m
        BY <3>1, <4>1
      <4>2. CASE n < m /\ n > 0
        <5>1. n \in 0 .. m - 1 /\ n - 1 \in 0 .. m - 1 /\ n - 1 < m /\ n - 1 \in 0 .. m
          BY <3>1, <4>2
        <5>2. G[n] = V[n] /\ G[n - 1] = V[n - 1]
          BY <4>2, <5>1
        <5> HIDE DEF G
        <5> QED BY <3>2, <4>2, <5>1, <5>2
      <4>3. CASE n = 0
        BY <3>1, <3>2, <4>3
      <4> QED BY <3>1, <4>1, <4>2, <4>3
    <3>4. Fn(G, m)
      <4>1. G = [n \in 0 .. m |-> G[n]]
        OBVIOUS
      <4> HIDE DEF G
      <4> QED BY <3>3, <4>1
    <3> QED BY <2>1, <3>4
  <2> QED BY <2>2, <2>3
<1>3. PICK V : FoldFrom(base, rows) = V[Len(rows)] /\ Fn(V, Len(rows))
  <2>1. \E V : Fn(V, Len(rows))
    <3>1. Len(rows) \in 0 .. Len(rows)
      BY <1>1
    <3>2. Len(rows) \notin Bad
      <4> HIDE DEF Bad
      <4> QED BY <1>2
    <3> QED BY <3>1, <3>2
  <2> QED BY <2>1 DEF FoldFrom
<1>4. V[0] = Start(base)
  BY <1>1, <1>3
<1>5. ASSUME NEW n \in 1 .. Len(rows)
      PROVE  V[n] = FoldFill(V[n - 1], rows[n])
  <2>1. n \in 0 .. Len(rows) /\ n # 0
    BY <1>1
  <2> QED BY <1>3, <2>1
<1> QED BY <1>3, <1>4, <1>5 DEF FoldUpTo

LEMMA FoldEmpty ==
    ASSUME NEW base
    PROVE  FoldFrom(base, << >>) = Start(base)
<1>1. << >> \in Seq(FillRow) /\ Len(<< >>) = 0
  OBVIOUS
<1> QED BY <1>1, FoldReads DEF FoldUpTo

\* Two functions that follow the same rows agree.
LEMMA FoldAgree ==
    ASSUME NEW base, NEW rows, Len(rows) \in Nat, NEW more, Len(rows) <= Len(more),
           Len(more) \in Nat, \A n \in 1 .. Len(rows) : rows[n] = more[n],
           NEW V, FoldUpTo(V, base, rows), NEW W, FoldUpTo(W, base, more)
    PROVE  V[Len(rows)] = W[Len(rows)]
<1> DEFINE Bad == {n \in 0 .. Len(rows) : V[n] # W[n]}
<1>1. ASSUME Bad # {} PROVE FALSE
  <2>1. PICK m \in Bad : \A y \in Bad : m <= y
    <3>1. Bad \subseteq Nat
      OBVIOUS
    <3> HIDE DEF Bad
    <3> QED BY <1>1, <3>1, LeastElement
  <2>2. CASE m = 0
    BY <2>1, <2>2 DEF FoldUpTo
  <2>3. CASE m # 0
    <3>1. m \in 1 .. Len(rows) /\ m - 1 \in 0 .. Len(rows) /\ m \in 1 .. Len(more)
      BY <2>3
    <3>2. V[m - 1] = W[m - 1]
      <4>1. m - 1 \notin Bad
        <5> HIDE DEF Bad
        <5> QED BY <2>1, <3>1
      <4> QED BY <3>1, <4>1
    <3>3. V[m] = FoldFill(V[m - 1], rows[m]) /\ W[m] = FoldFill(W[m - 1], more[m])
      BY <3>1 DEF FoldUpTo
    <3>4. V[m] = W[m]
      BY <3>1, <3>2, <3>3
    <3> QED BY <2>1, <3>4
  <2> QED BY <2>2, <2>3
<1>2. Len(rows) \in 0 .. Len(rows)
  OBVIOUS
<1> QED BY <1>1, <1>2

\* One row more is one fill more.
LEMMA FoldAppend ==
    ASSUME NEW base, NEW rows \in Seq(FillRow), NEW row \in FillRow
    PROVE  FoldFrom(base, Append(rows, row)) = FoldFill(FoldFrom(base, rows), row)
<1> DEFINE more == Append(rows, row)
<1>1. /\ more \in Seq(FillRow) /\ Len(more) = Len(rows) + 1 /\ Len(rows) \in Nat
      /\ more[Len(rows) + 1] = row /\ \A n \in 1 .. Len(rows) : rows[n] = more[n]
  OBVIOUS
<1> HIDE DEF more
<1>2. PICK V : FoldUpTo(V, base, rows) /\ FoldFrom(base, rows) = V[Len(rows)]
  BY FoldReads
<1>3. PICK W : FoldUpTo(W, base, more) /\ FoldFrom(base, more) = W[Len(more)]
  BY <1>1, FoldReads
<1>4. V[Len(rows)] = W[Len(rows)]
  <2>1. Len(rows) <= Len(more) /\ Len(more) \in Nat
    BY <1>1
  <2> QED BY <1>1, <1>2, <1>3, <2>1, FoldAgree
<1>5. W[Len(more)] = FoldFill(W[Len(rows)], row)
  <2>1. Len(more) \in 1 .. Len(more) /\ Len(more) - 1 = Len(rows) /\ more[Len(more)] = row
    BY <1>1
  <2> QED BY <1>3, <2>1 DEF FoldUpTo
<1> QED BY <1>2, <1>3, <1>4, <1>5 DEF more

------------------------------------------------------------------------------
(* A fold of two parts *)

LEMMA StartIsView ==
    ASSUME NEW base, BaseOK(base)
    PROVE  View(Start(base)) /\ Start(base).cash = base.cash /\ Start(base).qty = base.held
BY DEF Start, View, BaseOK

LEMMA FoldIsView ==
    ASSUME NEW base, BaseOK(base), NEW rows \in Seq(FillRow)
    PROVE  View(FoldFrom(base, rows))
<1>1. PICK V : FoldUpTo(V, base, rows) /\ FoldFrom(base, rows) = V[Len(rows)]
  BY FoldReads
<1>2. Len(rows) \in Nat
  OBVIOUS
<1> DEFINE Bad == {n \in 0 .. Len(rows) : ~ View(V[n])}
<1>3. ASSUME Bad # {} PROVE FALSE
  <2>1. PICK m \in Bad : \A y \in Bad : m <= y
    <3>1. Bad \subseteq Nat
      OBVIOUS
    <3> HIDE DEF Bad
    <3> QED BY <1>3, <3>1, LeastElement
  <2>2. CASE m = 0
    <3>1. V[0] = Start(base)
      BY <1>1 DEF FoldUpTo
    <3> QED BY <2>1, <2>2, <3>1, StartIsView
  <2>3. CASE m # 0
    <3>1. m \in 1 .. Len(rows) /\ m - 1 \in 0 .. Len(rows) /\ rows[m] \in FillRow
      BY <1>2, <2>3
    <3>2. View(V[m - 1])
      <4>1. m - 1 \notin Bad
        <5> HIDE DEF Bad
        <5> QED BY <2>1, <3>1
      <4> QED BY <3>1, <4>1
    <3>3. V[m] = FoldFill(V[m - 1], rows[m])
      BY <1>1, <3>1 DEF FoldUpTo
    <3>4. View(V[m])
      BY <3>1, <3>2, <3>3, FillMoves
    <3> QED BY <2>1, <3>4
  <2> QED BY <2>2, <2>3
<1>4. Len(rows) \in 0 .. Len(rows)
  BY <1>2
<1> QED BY <1>1, <1>3, <1>4

\* What a view holds more than another, moved by what a third holds more than its
\* base: cash and quantities of `all` are those of `one` and what `two` has moved.
Together(all, one, two, base) ==
    /\ all.cash = one.cash + (two.cash - base.cash)
    /\ \A c \in Codes : all.qty[c] = one.qty[c] + (two.qty[c] - base.held[c])

LEMMA TogetherMoves ==
    ASSUME NEW all, NEW one, NEW two, NEW base, View(all), View(one), View(two), BaseOK(base),
           Together(all, one, two, base), NEW row \in FillRow
    PROVE  /\ Together(FoldFill(all, row), FoldFill(one, row), two, base)
           /\ Together(FoldFill(all, row), one, FoldFill(two, row), base)
<1> DEFINE move == CashDelta(row.trade)
           shift(c) == IF c = row.trade.code THEN QtyDelta(row.trade) ELSE 0
           all2 == FoldFill(all, row)
           one2 == FoldFill(one, row)
           two2 == FoldFill(two, row)
<1>1. /\ all2.cash = all.cash + move /\ one2.cash = one.cash + move /\ two2.cash = two.cash + move
      /\ \A c \in Codes : /\ all2.qty[c] = all.qty[c] + shift(c)
                          /\ one2.qty[c] = one.qty[c] + shift(c)
                          /\ two2.qty[c] = two.qty[c] + shift(c)
  BY FillMoves
<1>2. move \in Int /\ \A c \in Codes : shift(c) \in Int
  BY TradeTypes
<1>3. all.cash \in Int /\ one.cash \in Int /\ two.cash \in Int /\ base.cash \in Int
  BY DEF View, BaseOK
<1>4. all.cash = one.cash + (two.cash - base.cash)
  BY DEF Together
<1> HIDE DEF move, all2, one2, two2
<1>5. all2.cash = one2.cash + (two.cash - base.cash) /\ all2.cash = one.cash + (two2.cash - base.cash)
  BY <1>1, <1>2, <1>3, <1>4
<1>6. ASSUME NEW c \in Codes
      PROVE  /\ all2.qty[c] = one2.qty[c] + (two.qty[c] - base.held[c])
             /\ all2.qty[c] = one.qty[c] + (two2.qty[c] - base.held[c])
  <2>1. all.qty[c] \in Int /\ one.qty[c] \in Int /\ two.qty[c] \in Int /\ base.held[c] \in Int
    BY DEF View, BaseOK
  <2>2. all.qty[c] = one.qty[c] + (two.qty[c] - base.held[c])
    BY DEF Together
  <2>3. shift(c) \in Int
    BY <1>2
  <2>4. /\ all2.qty[c] = all.qty[c] + shift(c) /\ one2.qty[c] = one.qty[c] + shift(c)
        /\ two2.qty[c] = two.qty[c] + shift(c)
    BY <1>1
  <2> HIDE DEF shift
  <2> QED BY <2>1, <2>2, <2>3, <2>4
<1> QED BY <1>5, <1>6 DEF Together, all2, one2, two2

\* The rows of two sets folded together, and each set on its own.
LEMMA FoldSplits ==
    ASSUME NEW s \in Seq(FillRow), NEW S, NEW T, S \cap T = {},
           NEW base, BaseOK(base), NEW other, BaseOK(other)
    PROVE  Together(FoldFrom(base, Only(s, S \cup T)), FoldFrom(base, Only(s, S)),
                    FoldFrom(other, Only(s, T)), other)
<1>1. PICK F : OnlyUpTo(F, s, S \cup T) /\ Only(s, S \cup T) = F[Len(s)]
  BY OnlyReads
<1>2. PICK G : OnlyUpTo(G, s, S) /\ Only(s, S) = G[Len(s)]
  BY OnlyReads
<1>3. PICK H : OnlyUpTo(H, s, T) /\ Only(s, T) = H[Len(s)]
  BY OnlyReads
<1>4. Len(s) \in Nat
  OBVIOUS
<1> DEFINE Typed(m) == F[m] \in Seq(FillRow) /\ G[m] \in Seq(FillRow) /\ H[m] \in Seq(FillRow)
           Fits(m) == Together(FoldFrom(base, F[m]), FoldFrom(base, G[m]), FoldFrom(other, H[m]),
                               other)
           Bad == {m \in 0 .. Len(s) : ~ (Typed(m) /\ Fits(m))}
<1>5. ASSUME Bad # {} PROVE FALSE
  <2>1. PICK m \in Bad : \A y \in Bad : m <= y
    <3>1. Bad \subseteq Nat
      OBVIOUS
    <3> HIDE DEF Bad
    <3> QED BY <1>5, <3>1, LeastElement
  <2>2. CASE m = 0
    <3>1. F[0] = << >> /\ G[0] = << >> /\ H[0] = << >> /\ << >> \in Seq(FillRow)
      BY <1>1, <1>2, <1>3 DEF OnlyUpTo
    <3>2. Typed(0)
      BY <3>1
    <3>3. Fits(0)
      <4>1. /\ FoldFrom(base, F[0]) = Start(base) /\ FoldFrom(base, G[0]) = Start(base)
            /\ FoldFrom(other, H[0]) = Start(other)
        BY <3>1, FoldEmpty
      <4>2. Together(Start(base), Start(base), Start(other), other)
        <5>1. /\ Start(base).cash = base.cash /\ Start(base).qty = base.held
              /\ Start(other).cash = other.cash /\ Start(other).qty = other.held
          BY StartIsView
        <5>2. /\ base.cash \in Int /\ other.cash \in Int
              /\ \A c \in Codes : base.held[c] \in Int /\ other.held[c] \in Int
          BY DEF BaseOK
        <5> QED BY <5>1, <5>2 DEF Together
      <4> QED BY <4>1, <4>2
    <3> HIDE DEF Typed, Fits
    <3> QED BY <2>1, <2>2, <3>2, <3>3
  <2>3. CASE m # 0
    <3>1. m \in 1 .. Len(s) /\ m - 1 \in 0 .. Len(s) /\ s[m] \in FillRow
      BY <1>4, <2>3
    <3>2. Typed(m - 1) /\ Fits(m - 1)
      <4>1. m - 1 \notin Bad
        <5> HIDE DEF Bad
        <5> QED BY <2>1, <3>1
      <4> HIDE DEF Typed, Fits
      <4> QED BY <3>1, <4>1
    <3>3. /\ F[m] = IF s[m] \in S \cup T THEN Append(F[m - 1], s[m]) ELSE F[m - 1]
          /\ G[m] = IF s[m] \in S THEN Append(G[m - 1], s[m]) ELSE G[m - 1]
          /\ H[m] = IF s[m] \in T THEN Append(H[m - 1], s[m]) ELSE H[m - 1]
      BY <1>1, <1>2, <1>3, <3>1 DEF OnlyUpTo
    <3>4. Typed(m)
      BY <3>1, <3>2, <3>3
    <3> DEFINE all == FoldFrom(base, F[m - 1])
               one == FoldFrom(base, G[m - 1])
               two == FoldFrom(other, H[m - 1])
    <3>5. View(all) /\ View(one) /\ View(two)
      BY <3>2, FoldIsView
    <3>6. /\ FoldFrom(base, Append(F[m - 1], s[m])) = FoldFill(all, s[m])
          /\ FoldFrom(base, Append(G[m - 1], s[m])) = FoldFill(one, s[m])
          /\ FoldFrom(other, Append(H[m - 1], s[m])) = FoldFill(two, s[m])
      BY <3>1, <3>2, FoldAppend
    <3>7. Together(all, one, two, other)
      BY <3>2
    <3>8. /\ Together(FoldFill(all, s[m]), FoldFill(one, s[m]), two, other)
          /\ Together(FoldFill(all, s[m]), one, FoldFill(two, s[m]), other)
      <4> HIDE DEF all, one, two
      <4> QED BY <3>1, <3>5, <3>7, TogetherMoves
    <3>9. Fits(m)
      <4>1. CASE s[m] \in S
        <5>1. s[m] \notin T
          BY <4>1
        <5> QED BY <3>3, <3>6, <3>8, <4>1, <5>1
      <4>2. CASE s[m] \in T
        <5>1. s[m] \notin S
          BY <4>2
        <5> QED BY <3>3, <3>6, <3>8, <4>2, <5>1
      <4>3. CASE s[m] \notin S \cup T
        BY <3>3, <3>7, <4>3
      <4> QED BY <4>1, <4>2, <4>3
    <3> HIDE DEF Typed, Fits
    <3> QED BY <2>1, <3>4, <3>9
  <2> QED BY <2>2, <2>3
<1>6. Fits(Len(s))
  <2>1. Len(s) \in 0 .. Len(s) /\ Len(s) \notin Bad
    BY <1>4, <1>5
  <2> HIDE DEF Typed, Fits
  <2> QED BY <2>1
<1> QED BY <1>1, <1>2, <1>3, <1>6

------------------------------------------------------------------------------
(* The latest baseline, seen from two moments *)

LEMMA NoBaselineOK == BaseOK(NoBaseline) /\ NoBaseline.at = 0
BY DEF NoBaseline, BaseOK

LEMMA LatestFacts ==
    ASSUME LedgerTypeOK, NEW a \in Accounts
    PROVE  LET base == LatestBaseline(a, Forever)
           IN  /\ BaseOK(base) /\ base.at \in Times
               /\ \A t \in Times : t >= base.at => LatestBaseline(a, t) = base
<1> DEFINE times(t) == {x \in BaselineTimes(a) : x <= t}
<1>1. MaxClock \in Nat /\ Times \subseteq Nat /\ BaselineTimes(a) \subseteq Times
  BY MaxClockAssumption DEF Times, BaselineTimes
<1>2. times(Forever) = BaselineTimes(a)
  BY <1>1 DEF Forever, Times
<1>3. CASE BaselineTimes(a) = {}
  <2>1. \A t : LatestBaseline(a, t) = NoBaseline
    BY <1>3 DEF LatestBaseline
  <2> QED BY <1>1, <2>1, NoBaselineOK DEF Times
<1>4. CASE BaselineTimes(a) # {}
  <2> DEFINE last == Max(BaselineTimes(a))
             src == snap[<<a, last>>]
             it == [at |-> last, source |-> src, cash |-> BaseCash[src], held |-> BaseHeld[src]]
  <2>1. last \in BaselineTimes(a) /\ \A y \in BaselineTimes(a) : y <= last
    BY <1>1, <1>4, GreatestElement DEF Times
  <2>2. LatestBaseline(a, Forever) = it
    BY <1>2, <1>4 DEF LatestBaseline
  <2>3. it.at = last /\ it.cash = BaseCash[src] /\ it.held = BaseHeld[src]
    OBVIOUS
  <2>4. src \in BaselineSources
    BY <2>1 DEF BaselineTimes
  <2>5. BaseOK(it) /\ it.at \in Times
    BY <1>1, <2>1, <2>3, <2>4, BaselineAssumption DEF BaseOK
  <2>6. ASSUME NEW t \in Times, t >= last
        PROVE  LatestBaseline(a, t) = it
    <3>1. ASSUME NEW x \in BaselineTimes(a) PROVE x <= t
      <4> HIDE DEF last
      <4>1. x \in Nat /\ last \in Nat /\ t \in Nat
        BY <1>1, <2>1
      <4>2. x <= last /\ last <= t
        BY <2>1, <2>6
      <4> QED BY <4>1, <4>2
    <3>2. times(t) = BaselineTimes(a)
      BY <3>1
    <3> QED BY <1>4, <3>2 DEF LatestBaseline
  <2> HIDE DEF it, last
  <2> QED BY <2>2, <2>3, <2>5, <2>6
<1> QED BY <1>3, <1>4

\* A baseline taken from the fold at any moment since the latest one changes no
\* cash and no quantity, for any trades, baselines, accounts and orders of commits.
THEOREM RebasingAgrees == LedgerSpec => []RebaseAgrees
<1>1. IInv => RebaseAgrees
  <2> SUFFICES ASSUME IInv, NEW a \in Accounts,
                      NEW t \in {LatestBaseline(a, Forever).at} \cup {fill[i].at : i \in DOMAIN fill},
                      t >= LatestBaseline(a, Forever).at
               PROVE  LET now     == Fold(a, Forever)
                          then    == Fold(a, t)
                          rebased == FoldFrom([cash |-> then.cash, held |-> then.qty],
                                              FillsBetween(a, t, Forever))
                      IN  rebased.cash = now.cash /\ rebased.qty = now.qty
      BY DEF RebaseAgrees
  <2> DEFINE base == LatestBaseline(a, Forever)
             early == Stamped(a, base.at, t)
             late == Stamped(a, t, Forever)
             now == Fold(a, Forever)
             then == Fold(a, t)
             other == [cash |-> then.cash, held |-> then.qty]
             rebased == FoldFrom(other, FillsBetween(a, t, Forever))
  <2>1. LedgerTypeOK /\ fill \in Seq(FillRow)
    BY DEF IInv, LedgerTypeOK
  <2>2. BaseOK(base) /\ base.at \in Times /\ \A x \in Times : x >= base.at => LatestBaseline(a, x) = base
    BY <2>1, LatestFacts
  <2>3. t \in Times /\ MaxClock \in Nat /\ Times = 0 .. MaxClock
    <3>1. \A r \in FillRow : r.at \in Times
      BY DEF FillRow
    <3>2. \A i \in DOMAIN fill : fill[i] \in FillRow
      BY <2>1
    <3>3. \A i \in DOMAIN fill : fill[i].at \in Times
      BY <3>1, <3>2
    <3> QED BY <2>2, <3>3, MaxClockAssumption DEF Times
  <2>4. early \cup late = Stamped(a, base.at, Forever) /\ early \cap late = {}
    <3>1. \A r \in FillRow : r.at \in Times
      BY DEF FillRow
    <3>2. \A r \in FillRow : (base.at < r.at /\ r.at <= t) \/ (t < r.at /\ r.at <= MaxClock)
                             <=> base.at < r.at /\ r.at <= MaxClock
      BY <2>2, <2>3, <3>1
    <3>3. \A r \in FillRow : ~ (r.at <= t /\ t < r.at)
      BY <2>3, <3>1
    <3> HIDE DEF base
    <3> QED BY <3>2, <3>3 DEF Stamped, Forever
  <2>5. now = FoldFrom(base, Only(fill, early \cup late))
    BY <2>4 DEF Fold, FillsBetween
  <2>6. then = FoldFrom(base, Only(fill, early))
    <3>1. LatestBaseline(a, t) = base
      BY <2>2, <2>3
    <3> QED BY <3>1 DEF Fold, FillsBetween
  <2>7. rebased = FoldFrom(other, Only(fill, late))
    BY DEF FillsBetween
  <2>8. /\ Only(fill, early) \in Seq(FillRow) /\ Only(fill, late) \in Seq(FillRow)
        /\ Only(fill, early \cup late) \in Seq(FillRow)
    BY <2>1, OnlyTyped
  <2> HIDE DEF base, early, late, now, then, rebased
  <2>9. View(then) /\ View(now)
    BY <2>2, <2>5, <2>6, <2>8, FoldIsView
  <2>10. other.cash = then.cash /\ other.held = then.qty /\ BaseOK(other)
    BY <2>9 DEF View, BaseOK
  <2> HIDE DEF other
  <2>11. View(rebased)
    BY <2>7, <2>8, <2>10, FoldIsView
  <2>12. Together(now, then, rebased, other)
    <3>1. Together(FoldFrom(base, Only(fill, early \cup late)), FoldFrom(base, Only(fill, early)),
                   FoldFrom(other, Only(fill, late)), other)
      BY <2>1, <2>2, <2>4, <2>10, FoldSplits
    <3> QED BY <2>5, <2>6, <2>7, <3>1
  <2>13. rebased.cash = now.cash
    <3>1. now.cash \in Int /\ then.cash \in Int /\ rebased.cash \in Int
      BY <2>9, <2>11 DEF View
    <3>2. now.cash = then.cash + (rebased.cash - then.cash)
      BY <2>10, <2>12 DEF Together
    <3> QED BY <3>1, <3>2
  <2>14. rebased.qty = now.qty
    <3>1. now.qty \in [Codes -> Int] /\ then.qty \in [Codes -> Int] /\ rebased.qty \in [Codes -> Int]
      BY <2>9, <2>11 DEF View
    <3>2. ASSUME NEW c \in Codes PROVE rebased.qty[c] = now.qty[c]
      <4>1. now.qty[c] = then.qty[c] + (rebased.qty[c] - then.qty[c])
        BY <2>10, <2>12 DEF Together
      <4>2. now.qty[c] \in Int /\ then.qty[c] \in Int /\ rebased.qty[c] \in Int
        BY <3>1
      <4> QED BY <4>1, <4>2
    <3> QED BY <3>1, <3>2
  <2> QED BY <2>13, <2>14 DEF now, rebased, other, then
<1> QED BY <1>1, Invariance, PTL

------------------------------------------------------------------------------
(* The page adds up *)

\* Cash and costs together are the opening cash and what was realized.
Balanced(v, base) ==
    Same(Plus(Whole(v.cash - base.cash), SumOver(v.basis, Codes)), v.realized)

\* Nothing was sold that was not held: what is sold out has no cost.
CostsAreHeld(v) ==
    v.oversold = {} => \A c \in Codes : v.qty[c] >= 0 /\ (v.qty[c] = 0 => v.basis[c][1] = 0)

Sound(v, base) ==
    /\ View(v) /\ v.basis \in [Codes -> Frac] /\ v.realized \in Frac
    /\ Balanced(v, base) /\ CostsAreHeld(v)

LEMMA StartIsSound ==
    ASSUME NEW base, BaseOK(base), \A c \in Codes : base.held[c] >= 0
    PROVE  Sound(Start(base), base)
<1> DEFINE v == Start(base)
           S == SumOver(v.basis, Codes)
<1>1. /\ View(v) /\ v.cash = base.cash /\ v.qty = base.held /\ v.realized = Whole(0)
      /\ v.basis = [c \in Codes |-> Whole(0)]
  BY StartIsView DEF Start
<1>2. Whole(0) \in Frac /\ Whole(0)[1] = 0
  BY WholePlus, 0 \in Int DEF Whole
<1>3. \A c \in Codes : v.basis[c] \in Frac /\ v.basis[c][1] = 0
  BY <1>1, <1>2
<1>4. v.basis \in [Codes -> Frac]
  BY <1>1, <1>2
<1>5. Balanced(v, base)
  <2> HIDE DEF v
  <2>1. IsFiniteSet(Codes) /\ {} \subseteq Codes /\ IsFiniteSet({})
    BY PricesAssumption, FS_EmptySet
  <2>2. Same(S, SumOver(v.basis, {}))
    BY <1>3, <2>1, SumDrops
  <2>3. SumOver(v.basis, {}) = Whole(0) /\ S \in Frac
    BY <1>3, <2>1, SumUnfolds, SumTyped
  <2>4. Same(Plus(Whole(0), S), S) /\ Plus(Whole(0), S) \in Frac
    BY <1>2, <2>3, PlusNothing, FracOps, 0 \in Int
  <2>5. Same(Plus(Whole(0), S), Whole(0))
    BY <1>2, <2>2, <2>3, <2>4, SameTrans
  <2>6. v.cash - base.cash = 0
    BY <1>1 DEF BaseOK
  <2> QED BY <1>1, <2>5, <2>6 DEF Balanced
<1>6. CostsAreHeld(v)
  BY <1>1, <1>3 DEF CostsAreHeld
<1> QED BY <1>1, <1>2, <1>4, <1>5, <1>6 DEF Sound

\* A fill moves cash by m and the cost of a code by d; what is realized takes up the rest.
LEMMA BalanceMoves ==
    ASSUME NEW base, BaseOK(base), NEW v, NEW w, v.cash \in Int, NEW m \in Int, NEW d \in Frac,
           NEW k \in Codes, v.basis \in [Codes -> Frac], w.basis \in [Codes -> Frac],
           v.realized \in Frac, w.realized \in Frac, Balanced(v, base),
           w.cash = v.cash + m, w.basis[k] = Plus(v.basis[k], d),
           \A c \in Codes : c # k => w.basis[c] = v.basis[c],
           Same(Plus(v.realized, Plus(Whole(m), d)), w.realized)
    PROVE  Balanced(w, base)
<1> DEFINE S == SumOver(v.basis, Codes)
           T == SumOver(w.basis, Codes)
           x == v.cash - base.cash
<1>1. IsFiniteSet(Codes)
  BY PricesAssumption
<1>2. S \in Frac /\ T \in Frac
  BY <1>1, SumTyped
<1>3. x \in Int /\ w.cash - base.cash = x + m
  BY DEF BaseOK
<1>4. Same(T, Plus(S, d))
  <2>1. \A c \in Codes : v.basis[c] \in Frac /\ w.basis[c] \in Frac
    OBVIOUS
  <2>2. Plus(v.basis[k], d) \in Frac
    BY <2>1, FracOps, 0 \in Int
  <2>3. Same(w.basis[k], Plus(v.basis[k], d))
    BY <2>2, SameSelf
  <2> QED BY <1>1, <2>1, <2>3, SumShifts
<1>5. Same(Plus(Whole(x), S), v.realized)
  BY DEF Balanced
<1> DEFINE X == Whole(x)
           M == Whole(m)
           r == v.realized
           s == w.realized
<1>6. X \in Frac /\ M \in Frac /\ Plus(X, M) = Whole(x + m)
  BY <1>3, WholePlus
<1>7. /\ r \in Frac /\ s \in Frac /\ Same(Plus(r, Plus(M, d)), s) /\ Same(Plus(X, S), r)
  BY <1>5
<1>8. Balanced(w, base) <=> Same(Plus(Plus(X, M), T), s)
  BY <1>3, <1>6 DEF Balanced
<1> HIDE DEF S, T, X, M, r, s, x
<1>9. /\ Plus(X, M) \in Frac /\ Plus(S, d) \in Frac /\ Plus(X, S) \in Frac /\ Plus(M, d) \in Frac
  BY <1>2, <1>6, FracOps, 0 \in Int
<1>10. /\ Plus(Plus(X, M), T) \in Frac /\ Plus(Plus(X, M), Plus(S, d)) \in Frac
       /\ Plus(Plus(X, S), Plus(M, d)) \in Frac /\ Plus(r, Plus(M, d)) \in Frac
  BY <1>2, <1>7, <1>9, FracOps, 0 \in Int
<1>11. Same(Plus(Plus(X, M), T), Plus(Plus(X, M), Plus(S, d)))
  BY <1>2, <1>4, <1>9, PlusSame
<1>12. Same(Plus(Plus(X, M), Plus(S, d)), Plus(Plus(X, S), Plus(M, d)))
  BY <1>2, <1>6, PlusPairs
<1>13. Same(Plus(Plus(X, S), Plus(M, d)), Plus(r, Plus(M, d)))
  BY <1>7, <1>9, PlusSame
<1>14. Same(Plus(Plus(X, M), T), Plus(Plus(X, S), Plus(M, d)))
  BY <1>10, <1>11, <1>12, SameTrans
<1>15. Same(Plus(Plus(X, M), T), Plus(r, Plus(M, d)))
  BY <1>10, <1>13, <1>14, SameTrans
<1>16. Same(Plus(Plus(X, M), T), s)
  BY <1>7, <1>10, <1>15, SameTrans
<1> QED BY <1>8, <1>16

LEMMA BuyIsSound ==
    ASSUME NEW base, BaseOK(base), NEW v, Sound(v, base), NEW row \in FillRow,
           row.trade.side = "buy"
    PROVE  Sound(FoldFill(v, row), base)
<1> DEFINE t == row.trade
           w == FoldFill(v, row)
           k == t.code
           cost == Gross(t) + t.fee
           m == CashDelta(t)
           d == Whole(cost)
<1>1. /\ k \in Codes /\ t.qty \in Nat \ {0} /\ t.price \in Nat /\ t.fee \in Nat
  BY TradesAssumption DEF FillRow, TradeRow
<1>2. cost \in Int /\ m = -cost /\ m \in Int
  <2>1. t.price * t.qty \in Int
    BY <1>1
  <2> QED BY <1>1, <2>1 DEF CashDelta, Gross
<1>3. /\ View(v) /\ View(w) /\ w.cash = v.cash + m /\ v.cash \in Int /\ v.qty \in [Codes -> Int]
      /\ \A c \in Codes : w.qty[c] = v.qty[c] + (IF c = k THEN t.qty ELSE 0)
  BY FillMoves DEF Sound, View, QtyDelta
<1>4. /\ w.basis = [v.basis EXCEPT ![k] = Plus(v.basis[k], d)]
      /\ w.realized = v.realized /\ w.oversold = v.oversold
  BY DEF View, Sound, FoldFill, Buy
<1>5. /\ v.basis \in [Codes -> Frac] /\ v.realized \in Frac /\ Balanced(v, base) /\ CostsAreHeld(v)
  BY DEF Sound
<1>6. d \in Frac /\ Plus(v.basis[k], d) \in Frac /\ Whole(m) \in Frac
      /\ Plus(Whole(m), d) = Whole(0)
  <2>1. d \in Frac /\ Whole(m) \in Frac /\ Plus(Whole(m), d) = Whole(m + cost)
    BY <1>2, WholePlus
  <2>2. m + cost = 0
    BY <1>2
  <2> QED BY <1>1, <1>5, <2>1, <2>2, FracOps, 0 \in Int
<1> HIDE DEF t, w, m, d, cost, k
<1>7. /\ w.basis \in [Codes -> Frac] /\ w.basis[k] = Plus(v.basis[k], d)
      /\ \A c \in Codes : c # k => w.basis[c] = v.basis[c]
  BY <1>1, <1>4, <1>5, <1>6
<1>8. Balanced(w, base)
  <2>1. Whole(0) \in Frac /\ Whole(0)[1] = 0
    BY WholePlus, 0 \in Int DEF Whole
  <2>2. /\ Same(Plus(Whole(0), v.realized), v.realized)
        /\ Same(Plus(v.realized, Whole(0)), Plus(Whole(0), v.realized))
        /\ Plus(Whole(0), v.realized) \in Frac /\ Plus(v.realized, Whole(0)) \in Frac
    BY <1>5, <2>1, PlusNothing, PlusComm, FracOps, 0 \in Int
  <2>3. Same(Plus(v.realized, Plus(Whole(m), d)), w.realized)
    BY <1>4, <1>5, <1>6, <2>2, SameTrans
  <2>4. w.realized \in Frac
    BY <1>4, <1>5
  <2> QED BY <1>1, <1>2, <1>3, <1>5, <1>6, <1>7, <2>3, <2>4, BalanceMoves
<1>9. CostsAreHeld(w)
  <2> SUFFICES ASSUME w.oversold = {}, NEW c \in Codes
               PROVE  w.qty[c] >= 0 /\ (w.qty[c] = 0 => w.basis[c][1] = 0)
    BY DEF CostsAreHeld
  <2>1. v.qty[c] >= 0 /\ (v.qty[c] = 0 => v.basis[c][1] = 0) /\ v.qty[c] \in Int
    BY <1>3, <1>4, <1>5 DEF CostsAreHeld
  <2>2. CASE c = k
    <3>1. w.qty[c] = v.qty[c] + t.qty
      BY <1>3, <2>2
    <3> QED BY <1>1, <2>1, <3>1
  <2>3. CASE c # k
    <3>1. w.qty[c] = v.qty[c]
      BY <1>3, <2>1, <2>3
    <3> QED BY <1>7, <2>1, <2>3, <3>1
  <2> QED BY <2>2, <2>3
<1>10. w.realized \in Frac
  BY <1>4, <1>5
<1>11. Sound(w, base)
  BY <1>3, <1>7, <1>8, <1>9, <1>10 DEF Sound
<1> QED BY <1>11 DEF w

\* When all that is held is sold, its whole cost leaves.
LEMMA SoldOutHasNoCost ==
    ASSUME NEW b \in Frac, NEW n \in Nat \ {0}
    PROVE  Minus(b, Scale(Over(b, n), n))[1] = 0
<1> DEFINE p == b[1] q == b[2]
<1>1. p \in Int /\ q \in Nat \ {0} /\ q * n \in Int /\ p * n \in Int
  BY DEF Frac
<1>2. Minus(b, Scale(Over(b, n), n)) =
         IF q = q * n THEN <<p + (-(p * n)), q>>
         ELSE <<p * (q * n) + (-(p * n)) * q, q * (q * n)>>
  BY DEF Minus, Plus, Scale, Over
<1> HIDE DEF p, q
<1>3. CASE q = q * n
  <2>1. 1 * q = n * q
    BY <1>1, <1>3
  <2>2. 1 = n
    BY <1>1, <2>1, Cancel
  <2>3. p + (-(p * n)) = 0
    BY <1>1, <2>2
  <2> QED BY <1>2, <1>3, <2>3
<1>4. CASE q # q * n
  <2>1. p * (q * n) + (-(p * n)) * q = 0
    BY <1>1
  <2> QED BY <1>2, <1>4, <2>1
<1> QED BY <1>3, <1>4

LEMMA SellIsSound ==
    ASSUME NEW base, BaseOK(base), NEW v, Sound(v, base), NEW row \in FillRow,
           row.trade.side = "sell"
    PROVE  Sound(FoldFill(v, row), base)
<1> DEFINE t == row.trade
           w == FoldFill(v, row)
           k == t.code
           held == v.qty[k]
           avg == IF held > 0 THEN Over(v.basis[k], held) ELSE Whole(0)
           out == Scale(avg, t.qty)
           m == CashDelta(t)
           d == Opposite(out)
<1>1. /\ k \in Codes /\ t.qty \in Nat \ {0} /\ m \in Int
  BY TradesAssumption, TradeTypes DEF FillRow, TradeRow
<1>2. /\ View(v) /\ View(w) /\ w.cash = v.cash + m /\ v.cash \in Int /\ v.qty \in [Codes -> Int]
      /\ \A c \in Codes : w.qty[c] = v.qty[c] + (IF c = k THEN -t.qty ELSE 0)
  BY FillMoves DEF Sound, View, QtyDelta
<1>3. /\ w.basis = [v.basis EXCEPT ![k] = Minus(v.basis[k], out)]
      /\ w.realized = Plus(v.realized, Minus(Whole(m), out))
      /\ w.oversold = IF t.qty > held THEN v.oversold \cup {k} ELSE v.oversold
  BY DEF View, Sound, FoldFill, Sell
<1>4. /\ v.basis \in [Codes -> Frac] /\ v.realized \in Frac /\ Balanced(v, base) /\ CostsAreHeld(v)
      /\ v.basis[k] \in Frac /\ held \in Int
  BY <1>1, <1>2 DEF Sound
<1>5. out \in Frac
  <2>1. Whole(0) \in Frac
    BY WholePlus, 0 \in Int
  <2>2. avg \in Frac
    <3> HIDE DEF held
    <3>1. held > 0 => Over(v.basis[k], held) \in Frac
      BY <1>4, FracOps
    <3> QED BY <2>1, <3>1
  <2> HIDE DEF avg
  <2> QED BY <1>1, <2>2, FracOps
<1>6. held > 0 => out = Scale(Over(v.basis[k], held), t.qty)
  OBVIOUS
<1> HIDE DEF t, w, m, out, k, held
<1>7. /\ d \in Frac /\ Minus(v.basis[k], out) = Plus(v.basis[k], d)
      /\ Whole(m) \in Frac /\ Minus(Whole(m), out) = Plus(Whole(m), d)
  BY <1>1, <1>4, <1>5, MinusIs, WholePlus
<1> HIDE DEF d
<1>8. /\ Plus(v.basis[k], d) \in Frac /\ Plus(Whole(m), d) \in Frac
  BY <1>4, <1>7, FracOps, 0 \in Int
<1>9. w.realized = Plus(v.realized, Plus(Whole(m), d)) /\ w.realized \in Frac
  BY <1>3, <1>4, <1>7, <1>8, FracOps, 0 \in Int
<1>10. /\ w.basis \in [Codes -> Frac] /\ w.basis[k] = Plus(v.basis[k], d)
       /\ \A c \in Codes : c # k => w.basis[c] = v.basis[c]
  BY <1>1, <1>3, <1>4, <1>7, <1>8
<1>11. Balanced(w, base)
  <2>1. Same(Plus(v.realized, Plus(Whole(m), d)), w.realized)
    BY <1>9, SameSelf
  <2> QED BY <1>1, <1>2, <1>4, <1>7, <1>9, <1>10, <2>1, BalanceMoves
<1>12. CostsAreHeld(w)
  <2> SUFFICES ASSUME w.oversold = {}, NEW c \in Codes
               PROVE  w.qty[c] >= 0 /\ (w.qty[c] = 0 => w.basis[c][1] = 0)
    BY DEF CostsAreHeld
  <2>1. v.oversold = {} /\ ~ (t.qty > held)
    BY <1>3
  <2>2. v.qty[c] >= 0 /\ (v.qty[c] = 0 => v.basis[c][1] = 0) /\ v.qty[c] \in Int
    BY <1>2, <1>4, <2>1 DEF CostsAreHeld
  <2>3. CASE c = k
    <3>1. w.qty[c] = held - t.qty
      BY <1>1, <1>2, <1>4, <2>3 DEF held
    <3>2. ASSUME w.qty[c] = 0 PROVE w.basis[c][1] = 0
      <4>1. held = t.qty /\ held \in Nat \ {0} /\ held > 0
        BY <1>1, <1>4, <3>1, <3>2
      <4>2. w.basis[k] = Minus(v.basis[k], Scale(Over(v.basis[k], held), held))
        BY <1>6, <1>7, <1>10, <4>1
      <4> QED BY <1>4, <2>3, <4>1, <4>2, SoldOutHasNoCost
    <3> QED BY <1>1, <1>4, <2>1, <3>1, <3>2
  <2>4. CASE c # k
    <3>1. w.qty[c] = v.qty[c]
      BY <1>2, <2>2, <2>4
    <3> QED BY <1>10, <2>2, <2>4, <3>1
  <2> QED BY <2>3, <2>4
<1>13. Sound(w, base)
  BY <1>2, <1>9, <1>10, <1>11, <1>12 DEF Sound
<1> QED BY <1>13 DEF w

LEMMA FoldIsSound ==
    ASSUME NEW base, BaseOK(base), \A c \in Codes : base.held[c] >= 0, NEW rows \in Seq(FillRow)
    PROVE  Sound(FoldFrom(base, rows), base)
<1>1. PICK V : FoldUpTo(V, base, rows) /\ FoldFrom(base, rows) = V[Len(rows)]
  BY FoldReads
<1>2. Len(rows) \in Nat
  OBVIOUS
<1> DEFINE Bad == {n \in 0 .. Len(rows) : ~ Sound(V[n], base)}
<1>3. ASSUME Bad # {} PROVE FALSE
  <2>1. PICK m \in Bad : \A y \in Bad : m <= y
    <3>1. Bad \subseteq Nat
      OBVIOUS
    <3> HIDE DEF Bad
    <3> QED BY <1>3, <3>1, LeastElement
  <2>2. CASE m = 0
    <3>1. V[0] = Start(base)
      BY <1>1 DEF FoldUpTo
    <3> QED BY <2>1, <2>2, <3>1, StartIsSound
  <2>3. CASE m # 0
    <3>1. m \in 1 .. Len(rows) /\ m - 1 \in 0 .. Len(rows) /\ rows[m] \in FillRow
      BY <1>2, <2>3
    <3>2. Sound(V[m - 1], base)
      <4>1. m - 1 \notin Bad
        <5> HIDE DEF Bad
        <5> QED BY <2>1, <3>1
      <4> QED BY <3>1, <4>1
    <3>3. V[m] = FoldFill(V[m - 1], rows[m])
      BY <1>1, <3>1 DEF FoldUpTo
    <3>4. rows[m].trade.side = "buy" \/ rows[m].trade.side = "sell"
      BY <3>1, TradeTypes
    <3>5. Sound(V[m], base)
      BY <3>1, <3>2, <3>3, <3>4, BuyIsSound, SellIsSound
    <3> QED BY <2>1, <3>5
  <2> QED BY <2>2, <2>3
<1>4. Len(rows) \in 0 .. Len(rows)
  BY <1>2
<1> QED BY <1>1, <1>3, <1>4

\* With everything priced and every cost known, total assets are the opening cash
\* and what was gained.
LEMMA SoundPageBalances ==
    ASSUME NEW base, BaseOK(base), NEW v, Sound(v, base), v.oversold = {},
           Totals(base, v).complete
    PROVE  Same(Whole(Totals(base, v).equity - base.cash),
                Plus(v.realized, Totals(base, v).unreal))
<1> DEFINE listed == Positions(v)
           priced == {c \in listed : Priced(c)}
           known == {c \in priced : CostKnown(base, v, c)}
           M == SumFunctionOnSet(MarketValue(v), listed)
           K == SumOver(v.basis, listed)
           S == SumOver(v.basis, Codes)
           x == v.cash - base.cash
           r == v.realized
<1>1. known = listed /\ priced = listed
  BY DEF Totals
<1>2. /\ Totals(base, v).equity = v.cash + M
      /\ Totals(base, v).unreal = Minus(Whole(M), K)
  BY <1>1 DEF Totals
<1>3. IsFiniteSet(Codes) /\ IsFiniteSet(listed) /\ listed \subseteq Codes
  <2>1. listed \subseteq Codes
    BY DEF Positions
  <2> QED BY <2>1, PricesAssumption, FS_Subset
<1>4. /\ v.basis \in [Codes -> Frac] /\ r \in Frac /\ v.cash \in Int /\ v.qty \in [Codes -> Int]
      /\ base.cash \in Int /\ x \in Int
      /\ Balanced(v, base) /\ CostsAreHeld(v)
  BY DEF Sound, View, BaseOK
<1>5. M \in Int
  <2> DEFINE g == [c \in Codes |-> Whole(MarketValue(v)[c])]
  <2>1. \A c \in listed : MarketValue(v)[c] \in Int
    <3> SUFFICES ASSUME NEW c \in listed PROVE MarketValue(v)[c] \in Int
      OBVIOUS
    <3>1. c \in Codes /\ LastClose[c] \in Nat /\ v.qty[c] \in Int
      BY <1>1, <1>3, <1>4, PricesAssumption DEF Priced
    <3>2. LastClose[c] * v.qty[c] \in Int
      BY <3>1
    <3> QED BY <3>1, <3>2 DEF MarketValue
  <2>2. \A c \in listed : g[c] = Whole(MarketValue(v)[c])
    BY <1>3
  <2> HIDE DEF g, listed
  <2> QED BY <1>3, <2>1, <2>2, WholeSums
<1>6. K \in Frac /\ S \in Frac /\ Same(S, K)
  <2>1. \A c \in Codes : v.basis[c] \in Frac
    BY <1>4
  <2>2. \A c \in Codes : c \notin listed => v.basis[c][1] = 0
    BY <1>4 DEF CostsAreHeld, Positions
  <2> HIDE DEF listed
  <2> QED BY <1>3, <2>1, <2>2, SumDrops, SumTyped
<1>7. Same(Plus(Whole(x), S), r)
  BY <1>4 DEF Balanced
<1> DEFINE X == Whole(x)
           W == Whole(M)
           N == Opposite(K)
           zero == Plus(K, N)
<1> HIDE DEF M, K, S, r, x
<1>8. /\ X \in Frac /\ W \in Frac /\ Plus(X, W) = Whole(x + M) /\ x + M \in Int
  <2>1. x \in Int /\ M \in Int
    BY <1>4, <1>5
  <2> QED BY <2>1, WholePlus
<1>9. /\ N \in Frac /\ Minus(W, K) = Plus(W, N) /\ zero \in Frac /\ zero[1] = 0
  BY <1>6, <1>8, MinusIs
<1>10. (v.cash + M) - base.cash = x + M
  BY <1>4, <1>5 DEF x
<1> HIDE DEF X, W, N, zero
<1>11. /\ Plus(X, W) \in Frac /\ Plus(X, K) \in Frac /\ Plus(W, N) \in Frac /\ Plus(X, S) \in Frac
  BY <1>6, <1>8, <1>9, FracOps, 0 \in Int
<1>12. /\ Plus(Plus(X, W), zero) \in Frac /\ Plus(zero, Plus(X, W)) \in Frac
       /\ Plus(Plus(X, K), Plus(W, N)) \in Frac /\ Plus(r, Plus(W, N)) \in Frac
  BY <1>4, <1>9, <1>11, FracOps, 0 \in Int
<1>13. Same(Plus(X, W), Plus(Plus(X, W), zero))
  <2>1. Same(Plus(Plus(X, W), zero), Plus(zero, Plus(X, W))) /\ Same(Plus(zero, Plus(X, W)), Plus(X, W))
    BY <1>9, <1>11, PlusComm, PlusNothing
  <2> QED BY <1>11, <1>12, <2>1, SameTrans, SameSym
<1>14. Same(Plus(Plus(X, W), zero), Plus(Plus(X, K), Plus(W, N)))
  BY <1>6, <1>8, <1>9, PlusPairs DEF zero
<1>15. Same(Plus(X, K), r)
  <2>1. Same(Plus(X, K), Plus(X, S))
    BY <1>6, <1>8, PlusSame, SameSym
  <2>2. Same(Plus(X, S), r)
    BY <1>7 DEF X
  <2> QED BY <1>4, <1>11, <2>1, <2>2, SameTrans DEF r
<1>16. Same(Plus(Plus(X, K), Plus(W, N)), Plus(r, Plus(W, N)))
  BY <1>4, <1>11, <1>15, PlusSame
<1>17. Same(Plus(X, W), Plus(Plus(X, K), Plus(W, N)))
  BY <1>11, <1>12, <1>13, <1>14, SameTrans
<1>18. Same(Plus(X, W), Plus(r, Plus(W, N)))
  BY <1>11, <1>12, <1>16, <1>17, SameTrans
<1> QED BY <1>2, <1>8, <1>9, <1>10, <1>18 DEF X, W, r

\* Total assets of an open account are its opening cash and what was gained,
\* whatever was bought and sold, in any order of commits, and at any prices.
THEOREM PagesBalance == LedgerSpec => []PageBalances
<1>1. IInv => PageBalances
  <2> SUFFICES ASSUME IInv, NEW a \in Accounts
               PROVE  LET base == LatestBaseline(a, Forever)
                          view == FoldFrom(base, FillsBetween(a, base.at, Forever))
                          page == Totals(base, view)
                      IN  /\ base.source # "none" /\ \A c \in Codes : base.held[c] >= 0
                          /\ page.complete /\ view.oversold = {}
                          => Same(Whole(page.equity - base.cash), Plus(view.realized, page.unreal))
    BY DEF PageBalances
  <2> DEFINE base == LatestBaseline(a, Forever)
             rows == FillsBetween(a, base.at, Forever)
             view == FoldFrom(base, rows)
  <2>1. LedgerTypeOK /\ fill \in Seq(FillRow)
    BY DEF IInv, LedgerTypeOK
  <2>2. BaseOK(base)
    BY <2>1, LatestFacts
  <2>3. rows \in Seq(FillRow)
    BY <2>1, OnlyTyped DEF FillsBetween
  <2> HIDE DEF base, rows
  <2>4. ASSUME \A c \in Codes : base.held[c] >= 0, Totals(base, view).complete, view.oversold = {}
        PROVE  Same(Whole(Totals(base, view).equity - base.cash),
                    Plus(view.realized, Totals(base, view).unreal))
    <3>1. Sound(view, base)
      BY <2>2, <2>3, <2>4, FoldIsSound
    <3> HIDE DEF view
    <3> QED BY <2>2, <2>4, <3>1, SoundPageBalances
  <2> QED BY <2>4 DEF base, rows
<1> QED BY <1>1, Invariance, PTL
=============================================================================
