SPECIFICATION WalkSpec
CONSTANTS
    Codes <- MCCodes
    MinSamples = 1
    BoardOf <- MCBoardOf
    World <- MCWorld
    AtFirst = {"lively", "plain"}
    RevisedTo <- MCRevisedTo
    LastDay = 5
    Windows <- MCWindows
    Refused <- MCRefused
    Unlisted <- MCUnlisted
    CodeSeq <- MCCodeSeq
    Patterns <- MCPatterns
    Answers <- MCAnswers
    RandomK = 1
    Gated <- MCGated
    Arms = {"no_trade", "highest_board", "pool_average", "random", "rule", "llm_off", "llm_read_write", "llm_read_only"}
    Rulers <- MCRulers
    MaxJobs = 4
    MaxWalks = 2
    Skills <- MCSkills
    Strip <- MCStrip
    Norm <- MCNorm
CHECK_DEADLOCK FALSE
INVARIANTS
    WalkTypeOK
    CaptureIsWhole
    WalkIsLoudOrWhole
    HistoryIsThePast
    RecordingIsRetold
    OutcomesMatchTheMarket
    PoolAverageHasNoExcess
    AccountsAgree
