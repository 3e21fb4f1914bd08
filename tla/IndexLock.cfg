SPECIFICATION FairSpec
CONSTANTS
    initial = initial
    switch = switch
    other = other
    p1 = p1
    p2 = p2
    None = None
    Callers = {initial, switch, other}
    Processes = {p1, p2}
    Process <- ProcessOf
    StaleAfter = 2
    MaxLate = 1
    MaxFaults = 2
INVARIANT TypeOK
INVARIANT LatestWins
INVARIANT RowsOwned
INVARIANT StaleMeansNobody
PROPERTY NoLockOut
