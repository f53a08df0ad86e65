SPECIFICATION DSpec
CONSTANTS
    Conns <- MCConns
    PrivateIPs <- MCPrivateIPs
INVARIANTS Accounting OnlyRelayed
PROPERTY StopEnds
CHECK_DEADLOCK FALSE
