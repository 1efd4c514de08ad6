CONSTANTS
    Cases <- RecoveryCases
    Faults = {"error", "late", "crash"}
    MaxRounds = 2
    MaxFaults = 1
SPECIFICATION Spec
\* A task ends.
CHECK_DEADLOCK FALSE
INVARIANTS
    NeedsMet
    Deployed
    Current
    Idempotent
