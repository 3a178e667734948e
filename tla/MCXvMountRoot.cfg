SPECIFICATION Spec
CONSTANTS
    Entry <- JustCdrom
    Fstab <- JustCdromFstab
    Mtab0 <- CdromMounted
    IsRoot = TRUE
    MaxForks = 2
    MaxExternal = 0
    ForkMayFail = FALSE
    ChildMayDie = TRUE
    MtabMayVanish = FALSE
    FstabTrouble = {"unopened"}
    SpuriousReturns = FALSE
INVARIANTS
    ReadersOnlySwapped
CHECK_DEADLOCK FALSE
