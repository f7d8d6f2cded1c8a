SPECIFICATION LoopSpec
CONSTANTS
    Configs <- MCConfigs
    LastDay = 7
    Advantages <- MCAdvantages
    MaxEdits = 1
    OldVersions = 1
CHECK_DEADLOCK FALSE
INVARIANTS EvidenceIsNewAfterRollback
