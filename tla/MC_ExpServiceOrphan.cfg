SPECIFICATION FairSpec
CONSTANTS
    n1 = n1
    n2 = n2
    w1 = w1
    w2 = w2
    Kinds <- MCExpKinds
    Names <- MCNames1
    Workers <- MCWorkers
    AppDoCheckDirty = TRUE
    StaleAge = 2
    ResyncAge = 1
    MaxDelay = 1
    MaxVal = 2
    MaxFail = 0
PROPERTIES
    EventuallyMirrored
