SPECIFICATION Spec
CONSTANTS
    p1 = p1
    p2 = p2
    c1 = c1
    c2 = c2
    d1 = d1
    big = big
    NoFile = NoFile
    NoStat = NoStat
    Paths = {p1, p2}
    Contents = {c1, c2, d1, big, empty}
    Branches = {b1, b2}
    Empty = empty
    Oversized = {big}
    Writable <- SharedContents
    BatchSize = 1
    EditsInFlight = FALSE
    MaxClock = 2
    MaxFaults = 0
CHECK_DEADLOCK FALSE
PROPERTY WipesOwnFileOnly
