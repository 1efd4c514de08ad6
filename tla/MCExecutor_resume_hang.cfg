CONSTANTS
    a = a
    b = b
    c = c
    d = d
    w1 = w1
    w2 = w2
    Node <- MCNodes3
    Worker <- MCWorkers
    Graphs <- Fork
    MaxStarts = 2
SPECIFICATION FairSpec
CHECK_DEADLOCK FALSE
PROPERTY ResumeTerminates
