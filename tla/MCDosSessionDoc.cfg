SPECIFICATION Spec
CONSTANTS
    Dirs <- MCDirs
    Root = "root"
    NoDir = "nodir"
    Names <- MCNames
    Room = 26
    NL = "n"
    NUL = "z"
    EOFCHAR = "e"
    sline_ssize = 4
    MaxInt = 2
    Disks <- AllDisks
    Commands <- OneXrep
INVARIANTS OnlyReplacementsChange
CHECK_DEADLOCK FALSE
