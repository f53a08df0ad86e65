SPECIFICATION Spec
CONSTANTS
    Fds <- MCFds
    Nums = 2
    Objs = {o1, o2, o3}
    Handles = {h1, h2}
    Locks = {l1, l2}
    None = None
    MaxLen = 1
    UseClosed = FALSE
SYMMETRY Symmetric
INVARIANT ReaderStable
PROPERTY ImplementsStorage
CHECK_DEADLOCK FALSE
