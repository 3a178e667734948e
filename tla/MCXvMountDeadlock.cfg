SPECIFICATION FairSpec
CONSTANTS
    Entry <- DosAndCdrom
    Fstab <- DosAndCdromFstab
    Mtab0 <- NoLines
    IsRoot = FALSE
    MaxForks = 1
    MaxExternal = 1
    ForkMayFail = FALSE
    ChildMayDie = FALSE
    MtabMayVanish = FALSE
    FstabTrouble = {}
    SpuriousReturns = FALSE
PROPERTIES
    ClickAnswered
CHECK_DEADLOCK FALSE
