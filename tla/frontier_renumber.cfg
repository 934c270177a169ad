SPECIFICATION Spec
CONSTANTS
    MCUrls = {"x", "y", "z", "http z"}
    t1 = t1
    t2 = t2
    Threads = {t1}
    NoThread = NoThread
    Urls <- MCUrls
    Strings <- MCStrings
    NumQueues = 2
    UrlsPerFile = 1
    Https <- MCHttps
    RanksOf <- MCRanksOf
    Lookups <- MCLookups
    Stem <- MCStem
    Bits <- MCBits
    Seeds <- NoSeeds
    Faults = {}
    MaxEntries = 2
    MaxCrashes = 1
    MaxFaults = 0
INVARIANT NothingLost
