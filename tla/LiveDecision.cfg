SPECIFICATION DecisionSpec
CONSTANTS
    r1 = r1
    r2 = r2
    i1 = i1
    o1 = o1
    c1 = c1
    x1 = x1
    Runs = {r1, r2}
    Ids = {i1}
    Ops = {o1}
    Slots = {c1}
    Accounts = {"A"}
    Days = {1}
    Trades = {x1}
    Dangling <- MCNone
    HandSources <- MCNone
    HandTimes <- MCNone
    MaxClock = 4
    MaxRepeats = 4
    Actions = {"buy"}
    Contexts <- MCNone
    Packages <- MCPackages
CHECK_DEADLOCK FALSE
INVARIANTS DecisionTypeOK FrozenIsComplete OutcomeIsRecorded
PROPERTIES EveryRunSettles
