CONSTANTS
    Cases <- OrderCases
    Faults = {}
    MaxRounds = 2
    MaxFaults = 0
SPECIFICATION Spec
\* A task ends.
CHECK_DEADLOCK FALSE
INVARIANTS
    TypeOK
    NeedsMet
    RaceFree
    Cleaned
    Delivers
    NeverDelivers
