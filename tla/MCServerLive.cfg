SPECIFICATION Spec
CONSTANTS
    Conns <- TwoNodes
    PrivateIPs <- NoPrivateIPs
    MaxPeers = 2
    Refs = {r1, r2}
    Callers = {c1}
    Stoppers = {s1}
    NoRef = NoRef
    NoNode = NoNode
PROPERTIES StopOutcome DisconnectCompletes OpsReturn
CHECK_DEADLOCK FALSE
