CONSTANTS
    a = a
    b = b
    c = c
    d = d
    w1 = w1
    w2 = w2
    Node <- MCNodes
    Worker <- MCWorkers
    Graphs <- Branch
    MaxStarts = 3
SPECIFICATION Spec
\* A resumed run may wait for ever (run executor_resume_hang).
CHECK_DEADLOCK FALSE
INVARIANTS
    AllProcessedAtClose
    CheckpointClosed
    CompletedNotRerun
