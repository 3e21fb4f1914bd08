SPECIFICATION Spec
CONSTANTS
    Paths <- OnePath
    MaxChanges = 1
    MaxFailures = 0
INVARIANT GateClosed
\* With the changes used up the server is idle.
CHECK_DEADLOCK FALSE
