CONSTANTS
    c1 = c1
    c2 = c2
    c3 = c3
    c4 = c4
    x1 = x1
    x2 = x2
    x3 = x3
    x4 = x4
    x5 = x5
    NoConn = NoConn
    Connector <- MCConnectors
    Conn <- MCConns
    MaxPerKey = 3
    MaxIdlePerKey = 2
SPECIFICATION Spec
SYMMETRY Symmetry
\* The command ends after Shutdown.
CHECK_DEADLOCK FALSE
INVARIANTS
    TypeOK
    Accounting
    Exclusive
    WithinLimits
    NoneLost
