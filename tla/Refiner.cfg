SPECIFICATION RefinerSpec
CONSTANTS
    SkillIds = {"k1", "k2"}
    SeedSkills = {"k1"}
    LessonIds = {"m1", "m2"}
    SeedLessons = {"m1"}
    Sections = {"d1", "red"}
    RedLines = {"red"}
    NewTexts = {"t1"}
    SeedText = "t0"
    Fields <- MCFields
    Writings <- MCWritings
    Patches <- MCPatches
    MinRetire = 1
    MinPromote = 2
    MaxPerPass = 2
    MaxPerRefine = 2
    MaxTrades = 2
    MaxLog = 3
    MaxVersions = 2
CHECK_DEADLOCK FALSE
INVARIANTS RefinerTypeOK LogExplainsHarness EvidenceBehindTheLog RefineIsBounded SnapshotsAreWhole
PROPERTIES VersionsAreFinal
