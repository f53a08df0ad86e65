SPECIFICATION Spec
CONSTANTS
    Conns <- OneNode
    PrivateIPs <- NoPrivateIPs
    MaxPeers = 1
    Refs = {r1}
    Callers = {}
    Stoppers = {s1}
    NoRef = NoRef
    NoNode = NoNode
PROPERTIES StopTerminates
CHECK_DEADLOCK FALSE
