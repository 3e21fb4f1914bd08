SPECIFICATION FairSpec
CONSTANTS
    Paths <- TwoPaths
    MaxChanges = 3
    MaxFailures = 1
INVARIANT TypeOK
INVARIANT NoOverlap
INVARIANT Accounted
PROPERTY PendingSettles
PROPERTY EditsReachIndex
PROPERTY WatchComesBack
\* With the changes used up the server is idle.
CHECK_DEADLOCK FALSE
