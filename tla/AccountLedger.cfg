SPECIFICATION LedgerSpec
CONSTANTS
    o1 = o1
    o2 = o2
    c1 = c1
    c2 = c2
    Ops = {o1, o2}
    Slots = {c1, c2}
    Accounts = {"A"}
    Trades <- MCTrades
    Dangling <- MCDangling
    HandSources = {"manual"}
    HandTimes = {0}
    MaxClock = 4
    MaxRepeats = 1
    BaseCash <- MCBaseCash
    BaseHeld <- MCBaseHeld
    LastClose <- MCLastClose
    NoPrice = NoPrice
SYMMETRY MCSymmetry
CHECK_DEADLOCK FALSE
INVARIANTS LedgerTypeOK OneOpening FormFillsCount PageBalances RebaseAgrees
PROPERTIES KeepsPromise
