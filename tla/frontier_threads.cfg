SPECIFICATION FairSpec
CONSTANTS
    MCUrls = {"x", "z", "http z"}
    t1 = t1
    t2 = t2
    Threads = {t1, t2}
    NoThread = NoThread
    Urls <- MCUrls
    Strings <- MCStrings
    NumQueues = 2
    UrlsPerFile = 1
    Https <- MCHttps
    RanksOf <- MCRanksOf
    Lookups <- MCLookups
    Stem <- MCStem
    Bits <- MCBits
    Seeds <- HttpSeed
    Faults = {"open", "write", "read", "remove"}
    MaxEntries = 3
    MaxCrashes = 0
    MaxFaults = 1
INVARIANT TypeOK
INVARIANT NothingLost
INVARIANT AcceptedOncePerThread
PROPERTY RefusedNeverReturned
PROPERTY LoadableServed
