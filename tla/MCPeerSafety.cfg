SPECIFICATION Safety
CONSTANTS
    p = p
    t1 = t1
    t2 = t2
    Protos = {p}
    Topics = {t1, t2}
    ProtoOf <- TwoTopics
    Helpers = {h1}
    Callers = {c1}
INVARIANTS WriteToken OneLateWrite ErrorRoom
PROPERTY ImplementsLife
CHECK_DEADLOCK FALSE
