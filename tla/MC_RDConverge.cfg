SPECIFICATION RDFairSpec
CONSTANTS
    i1 = i1
    i2 = i2
    i3 = i3
    a1 = a1
    a2 = a2
    a3 = a3
    none = none
    Insts <- MCInsts
    IP <- MCIP
    NoIP = none
    Rank <- MCRank
    UpAtStart <- MCUpFirst
    CanStop = FALSE
    MaxExpire = 2
    MaxStartFail = 0
PROPERTIES
    EventuallyOneMaster
