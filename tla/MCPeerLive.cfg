SPECIFICATION Spec
CONSTANTS
    p = p
    t1 = t1
    t2 = t2
    Protos = {p}
    Topics = {t1, t2}
    ProtoOf <- TwoTopics
    Helpers = {h1}
    Callers = {c1}
PROPERTIES PeerEnds DisconnectReturns HelpersEnd
CHECK_DEADLOCK FALSE
