CONSTANTS
    d1 = d1
    d2 = d2
    c1 = c1
    r1 = r1
    r2 = r2
    Devices <- MCDevices
    Clks <- MCClks
    Regus <- MCRegus
    MaxRemovals = 1
    MaxLeaked = 1
    MatchOrder <- MCOrder
    Requests <- MCRequests
SPECIFICATION SrmSpec
INVARIANTS
    ReleasedWhenOff
    FlagsMatchUse
    RunsWithResources
    EarlyBootSyncs
    FreedIsUnused
CHECK_DEADLOCK FALSE
