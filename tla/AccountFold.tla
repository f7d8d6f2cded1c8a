----------------------------- MODULE AccountFold -----------------------------
(***************************************************************************)
(* What the account store says of an account: AccountRepo.fold (positions  *)
(* and cash from the latest baseline and the fills after it), and the      *)
(* overview page (features/account/service.py) that prices the positions   *)
(* of the fold.  The views are queries over the tables of AccountLedger.   *)
(*                                                                         *)
(* Prices, quantities and fees are small whole numbers, costs are exact    *)
(* fractions: the roundings to 2 and 6 decimals are left out, and so are   *)
(* the remarks on holdings of a baseline and on fills reported late.       *)
(***************************************************************************)
EXTENDS AccountLedger, Fractions, Filters

CONSTANTS
    BaseCash,    \* source -> the cash of a baseline
    BaseHeld,    \* source -> the quantities of a baseline, by code
    LastClose,   \* code -> its close on the latest day of the snapshot
    NoPrice      \* the snapshot has no close for the code

Codes == DOMAIN LastClose

TradeRow == [side : {"buy", "sell"}, code : Codes, price : Nat \ {0}, qty : Nat \ {0},
             fee : Nat, decision : STRING]

ASSUME TradesAssumption == Trades \subseteq TradeRow

ASSUME BaselineAssumption ==
    /\ BaseCash \in [BaselineSources -> Nat]
    /\ BaseHeld \in [BaselineSources -> [Codes -> Int]]
    /\ \A c \in Codes : BaseHeld["opening"][c] = 0

ASSUME PricesAssumption ==
    IsFiniteSet(Codes) /\ \A c \in Codes : LastClose[c] # NoPrice => LastClose[c] \in Nat

Forever == MaxClock

------------------------------------------------------------------------------
(* The rows that a fold reads *)

\* A slip: the fills of the baseline's own moment are counted again.
FillsFromBaseline(account, since, until) ==
    Only(fill, {r \in FillRow : r.account = account /\ since - 1 < r.at /\ r.at <= until})

Stamped(account, since, until) ==
    {r \in FillRow : r.account = account /\ since < r.at /\ r.at <= until}

\* fills(account, since, until): exclusive, inclusive, in rowid order.
FillsBetween(account, since, until) ==
    Only(fill, Stamped(account, since, until))

\* No baseline: cash is the net change only.
NoBaseline == [at |-> 0, source |-> "none", cash |-> 0, held |-> [c \in Codes |-> 0]]

LatestBaseline(account, as_of) ==
    LET times == {t \in BaselineTimes(account) : t <= as_of}
    IN  IF times = {} THEN NoBaseline
        ELSE LET t == Max(times)
                 s == snap[<<account, t>>]
             IN  [at |-> t, source |-> s, cash |-> BaseCash[s], held |-> BaseHeld[s]]

------------------------------------------------------------------------------
(* fold *)

Gross(trade) == trade.price * trade.qty

CashDelta(trade) == IF trade.side = "sell" THEN Gross(trade) - trade.fee
                    ELSE -(Gross(trade) + trade.fee)

Start(base) == [cash |-> base.cash, qty |-> base.held,
                basis |-> [c \in Codes |-> Whole(0)],
                realized |-> Whole(0), oversold |-> {}]

\* A slip: the fee of a purchase is left out of its cost.
BuyWithoutFee(view, t) ==
    [view EXCEPT !.cash = @ + CashDelta(t), !.qty[t.code] = @ + t.qty,
                 !.basis[t.code] = Plus(@, Whole(Gross(t)))]

Buy(view, t) ==
    [view EXCEPT !.cash = @ + CashDelta(t), !.qty[t.code] = @ + t.qty,
                 !.basis[t.code] = Plus(@, Whole(Gross(t) + t.fee))]

\* Cost leaves at the average; more than is held is sold all the same.
Sell(view, t) ==
    LET held == view.qty[t.code]
        avg  == IF held > 0 THEN Over(view.basis[t.code], held) ELSE Whole(0)
        out  == Scale(avg, t.qty)
    IN  [view EXCEPT !.cash = @ + CashDelta(t), !.qty[t.code] = held - t.qty,
                     !.basis[t.code] = Minus(@, out),
                     !.realized = Plus(@, Minus(Whole(CashDelta(t)), out)),
                     !.oversold = IF t.qty > held THEN @ \cup {t.code} ELSE @]

FoldFill(view, row) == IF row.trade.side = "buy" THEN Buy(view, row.trade)
                       ELSE Sell(view, row.trade)

FoldFrom(base, rows) ==
    LET view[n \in 0 .. Len(rows)] == IF n = 0 THEN Start(base)
                                      ELSE FoldFill(view[n - 1], rows[n])
    IN  view[Len(rows)]

Fold(account, as_of) ==
    LET base == LatestBaseline(account, as_of)
    IN  FoldFrom(base, FillsBetween(account, base.at, as_of))

\* The positions a view lists: those sold out are not.
Positions(view) == {c \in Codes : view.qty[c] # 0}

------------------------------------------------------------------------------
(* The overview page *)

Priced(c) == LastClose[c] # NoPrice

\* The cost of a holding is known, so its floating gain is shown.
CostKnown(base, view, c) == view.qty[c] > 0 /\ base.held[c] = 0

MarketValue(view) == [c \in Codes |-> LastClose[c] * view.qty[c]]

\* overview_context: total assets only if every position has a price, and the
\* floating gain is complete only if every cost is known as well.
Totals(base, view) ==
    LET priced == {c \in Positions(view) : Priced(c)}
        known  == {c \in priced : CostKnown(base, view, c)}
    IN  [complete |-> known = Positions(view),
         equity   |-> IF priced # Positions(view) THEN NoPrice
                      ELSE view.cash + SumFunctionOnSet(MarketValue(view), priced),
         unreal   |-> Minus(Whole(SumFunctionOnSet(MarketValue(view), known)),
                            SumOver(view.basis, known))]

------------------------------------------------------------------------------
(* Properties *)

\* The page of an open account adds up: total assets are the baseline's cash
\* and what was gained, realized and floating (fold and overview_context use
\* one average cost, fees included) -- unless more than was held is sold, which the
\* fold remarks on, or was under the baseline: bought back, it leaves a cost on a
\* position no longer listed.
PageBalances ==
    \A a \in Accounts :
        LET base == LatestBaseline(a, Forever)
            view == FoldFrom(base, FillsBetween(a, base.at, Forever))
            page == Totals(base, view)
        IN  /\ base.source # "none" /\ \A c \in Codes : base.held[c] >= 0
            /\ page.complete /\ view.oversold = {}
            => Same(Whole(page.equity - base.cash), Plus(view.realized, page.unreal))

\* A baseline taken from the fold of any moment since the latest one changes
\* nothing: no fill is counted twice or lost where `since` meets `until`, though
\* rowid order is not the order of the clock.
RebaseAgrees ==
    \A a \in Accounts :
        LET now   == Fold(a, Forever)
            since == LatestBaseline(a, Forever).at
        IN  \A t \in {since} \cup {fill[i].at : i \in DOMAIN fill} : t >= since =>
                LET then    == Fold(a, t)
                    rebased == FoldFrom([cash |-> then.cash, held |-> then.qty],
                                        FillsBetween(a, t, Forever))
                IN  rebased.cash = now.cash /\ rebased.qty = now.qty

=============================================================================
