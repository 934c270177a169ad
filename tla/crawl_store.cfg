SPECIFICATION Spec
CONSTANTS
    t1 = t1
    t2 = t2
    p1 = p1
    p2 = p2
    p3 = p3
    p4 = p4
    Threads <- MCThreads
    Pages = {p1, p2, p3, p4}
    NumRanks = 2
    RankOf <- MCRankOf
    SizeOf <- MCSizeOf
    SizeLimit <- MCSizeLimit
    Faults = {"write"}
    MaxFaults = 1
    MaxCrashes = 1
    MaxNumber = 2
    NoPage = NoPage
CHECK_DEADLOCK FALSE
INVARIANT TypeOK
INVARIANT NothingLost
INVARIANT StoredOnce
INVARIANT FullIsOwned
INVARIANT StopStoresAll
INVARIANT NoGapInNumbers
PROPERTY FilesKept
