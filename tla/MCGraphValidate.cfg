CONSTANT NodeId = {n1, n2, n3}
SPECIFICATION Spec
\* Validate returns.
CHECK_DEADLOCK FALSE
INVARIANTS
    TypeOK
    VerdictCorrect
    QueuedOnce
