CONSTANTS
    h1 = h1
    h2 = h2
    Host <- MCHosts
    MaxHosts = 2
    MaxRetries = 1
    MayPanic <- Panicky
    ReliableRollback = FALSE
SPECIFICATION FairSpec
\* runNode returns once.
CHECK_DEADLOCK FALSE
INVARIANTS
    TypeOK
    SuccessMeansApplied
    NodeStatusFaithful
PROPERTIES
    AppliedIsFinal
    NodeReturns
