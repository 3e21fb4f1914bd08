SPECIFICATION Spec
CONSTANTS
    empty = empty
    small = small
    large = large
    huge = huge
    Ids = {s1, s2, s3, s4}
    Paths = {p1, p2}
    Codes = {empty, small, large, huge}
    Size <- Sizes
    MaxBytes = 3
INVARIANT TypeOK
INVARIANT IndexExact
INVARIANT BytesExact
PROPERTY ImplementsStore
