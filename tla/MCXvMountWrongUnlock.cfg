SPECIFICATION Spec
CONSTANTS
    Entry <- AutoCd
    Fstab <- AutoCdFstab
    Mtab0 <- NoLines
    IsRoot = FALSE
    MaxForks = 2
    MaxExternal = 0
    ForkMayFail = FALSE
    ChildMayDie = FALSE
    MtabMayVanish = FALSE
    FstabTrouble = {}
    SpuriousReturns = FALSE
INVARIANTS
    ButtonsMeanFree
CHECK_DEADLOCK FALSE
