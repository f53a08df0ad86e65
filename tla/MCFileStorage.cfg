SPECIFICATION Spec
CONSTANTS
    Fds <- MCFds
    Files = {f1, f2, f3}
    Stores = {s1, s2}
    Handles = {h1, h2}
    Locks = {l1, l2}
    None = None
SYMMETRY Symmetric
INVARIANTS FlockHeld LockExclusive ListFaithful
PROPERTIES OnlyOwnerWrites ImplementsStorage
CHECK_DEADLOCK FALSE
