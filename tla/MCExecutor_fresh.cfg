CONSTANTS
    a = a
    b = b
    c = c
    d = d
    w1 = w1
    w2 = w2
    Node <- MCNodes
    Worker <- MCWorkers
    Graphs <- FreshGraphs
    MaxStarts = 1
SPECIFICATION FairSpec
\* The process ends when Execute returns; Terminates rules out a hang before.
CHECK_DEADLOCK FALSE
INVARIANTS
    TypeOK
    DepsSucceeded
    SentOnce
    OutputsVisible
    AllProcessedAtClose
    SuccessIsEarned
PROPERTIES
    OutcomeStable
    Terminates
    ImplementsDagRun
