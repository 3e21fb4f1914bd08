SPECIFICATION Spec
CONSTANTS
    Paths <- OnePath
    MaxChanges = 2
    MaxFailures = 1
INVARIANT WatchSurvives
\* With the changes used up the server is idle.
CHECK_DEADLOCK FALSE
