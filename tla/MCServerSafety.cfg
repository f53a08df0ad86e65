SPECIFICATION Safety
CONSTANTS
    Conns <- ThreeNodes
    PrivateIPs <- NoPrivateIPs
    MaxPeers = 2
    Refs = {r1, r2, r3}
    Callers = {c1, c2}
    Stoppers = {s1}
    NoRef = NoRef
    NoNode = NoNode
SYMMETRY Symmetric
INVARIANTS Capacity Ownership HomeKnown OpPairing
PROPERTY StopWaits
CHECK_DEADLOCK FALSE
