SPECIFICATION RDSpec
CONSTANTS
    i1 = i1
    i2 = i2
    i3 = i3
    a1 = a1
    a2 = a2
    a3 = a3
    none = none
    Insts <- MCInsts
    IP <- MCIP
    NoIP = none
    Rank <- MCRank
    UpAtStart <- MCUpNone
    CanStop = TRUE
    MaxExpire = 1
    MaxStartFail = 1
INVARIANTS
    TypeOK
    OnlyRegisteredMaster
PROPERTIES
    ElectionRefined
