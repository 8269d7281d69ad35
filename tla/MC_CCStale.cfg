SPECIFICATION CCSpec
CONSTANTS
    NoToken = none
    NoCred = nocred
    RegToken = t1
    Tokens <- MCTokens
    Forms <- MCAllForms
    InitCred <- MCInitCred
    PollTries = 6
    r1 = r1
    r2 = r2
    a1 = a1
    a2 = a2
    s1 = s1
    s2 = s2
    t1 = t1
    t2 = t2
    none = none
    nocred = nocred
    Reqs <- MCReqs
    Addrs <- MCAddrs
    Secrets <- MCSecrets
INVARIANTS
    CacheCoherent
