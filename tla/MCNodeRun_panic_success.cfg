CONSTANTS
    h1 = h1
    h2 = h2
    Host <- MCHosts
    MaxHosts = 2
    MaxRetries = 0
    MayPanic <- Panicky
    ReliableRollback = TRUE
SPECIFICATION Spec
\* runNode returns once.
CHECK_DEADLOCK FALSE
INVARIANT PanicIsFailure
