SPECIFICATION TKSpec
CONSTANTS
    NoSubnet = nil
    nil = nil
    c1 = c1
    c2 = c2
    g1 = g1
    g2 = g2
    n1 = n1
    n2 = n2
    Regions <- MCRegions
    Subnets <- MCSubnets
    MaxRows = 3
    Callers <- MCCallers
INVARIANTS
    LastSaveVisible
