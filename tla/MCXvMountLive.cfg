SPECIFICATION FairSpec
CONSTANTS
    Entry <- JustDos
    Fstab <- JustDosFstab
    Mtab0 <- NoLines
    IsRoot = FALSE
    MaxForks = 2
    MaxExternal = 1
    ForkMayFail = FALSE
    ChildMayDie = FALSE
    MtabMayVanish = FALSE
    FstabTrouble = {}
    SpuriousReturns = TRUE
PROPERTIES
    ClickAnswered
    ExitEnds
    CoreGetsLocks
CHECK_DEADLOCK FALSE
