\* IPFSdb.Write runs past the records of its batch.
SPECIFICATION TaudbSpec
CONSTANTS
    ByteBase = 4
    NumLen = 2
    KeyLens = {0, 1, 2}
    Seqs <- MCSeqs
    Batches = {b1, b2}
    Keys <- MCKeys
    Values <- MCValues
    MaxRecs = 2
    KeyOverhead = 2
    Threads = {t1, t2}
    baseline0 = 16
    PoolCap <- MCPoolCap
    Threshold = 2
    MaxCount = 3
    Lengths = {12, 65, 130}
    Foreign <- MCForeign
    Bootstrap = 2
    MinRead = 1
    Chunks <- MCChunks
    MaxCap = 5
INVARIANT WriteStaysInIndex
CHECK_DEADLOCK FALSE
