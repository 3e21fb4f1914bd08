SPECIFICATION Spec
CONSTANTS
    Paths = {1, 2}
    Branches = {main, topic}
    Startup = main
    Differ = {{1}}
    Requests = {r1}
    MaxChanges = 3
    MaxWarm = 1
    MaxCached = 1
INVARIANT TypeOK
INVARIANT SettledIsExact
INVARIANT CachedIsIndexed
INVARIANT ClosedMeansQuiet
PROPERTY AnswersTraceable
PROPERTY ShutdownEnds
CHECK_DEADLOCK FALSE
