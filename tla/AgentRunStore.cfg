SPECIFICATION Spec
CONSTANTS
    r1 = r1
    r2 = r2
    i1 = i1
    i2 = i2
    c1 = c1
    c2 = c2
    Runs = {r1, r2}
    Ids = {i1, i2}
    Slots = {c1, c2}
    Accounts = {"A"}
    Days = {1, 2}
    Actions = {"buy", "skip"}
    Contexts <- MCContexts
    Packages <- MCPackages
SYMMETRY MCSymmetry
INVARIANTS TypeOK FinishHasOneWinner SheetAndStampTogether SheetIsWholeProposal ConfirmedOnce
PROPERTIES HistoryOnlyGrows
