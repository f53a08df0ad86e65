SPECIFICATION Spec
CONSTANTS
    p1 = p1
    p2 = p2
    p3 = p3
    Peers <- MCPeers
    Ids = {"x", "y"}
    Id <- MCId
    maxPeers = 1
    NoPeer = NoPeer
INVARIANTS LimitUnlessOvertaken EntryOwned CloseFinal
PROPERTIES CloseReturns HandlersEnd
CHECK_DEADLOCK FALSE
