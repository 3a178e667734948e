SPECIFICATION Spec
CONSTANTS
    Entry <- AllPlaces
    Fstab <- AllPlacesFstab
    Mtab0 <- NoLines
    IsRoot = FALSE
    MaxForks = 2
    MaxExternal = 1
    ForkMayFail = TRUE
    ChildMayDie = TRUE
    MtabMayVanish = TRUE
    FstabTrouble = {"unopened", "malformed"}
    SpuriousReturns = TRUE
INVARIANTS
    TypeOK
    RebuildExcludesMount
    ListsOutliveReaders
    WindowBuiltBeforeFill
    ButtonsFollowMount
    OutputHeard
    SignalMeansLeaving
    CrashNeedsChange
    NoRowTwice
    ForksOnlyUserTargets
PROPERTIES
    TurnsTaken
CHECK_DEADLOCK FALSE
