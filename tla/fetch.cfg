SPECIFICATION FairSpec
CONSTANTS
    t1 = t1
    t2 = t2
    t3 = t3
    Threads = {t1, t2, t3}
    Urls <- MCUrls
    Origins <- MCOrigins
    OriginOf <- MCOriginOf
    Worlds <- MCWorlds
    NoUrl = NoUrl
    Allows <- MCAllows
    DelayOf <- MCDelayOf
    MaxAge = 2
    MaxRedirects = 2
INVARIANT GateWakes
INVARIANT FetchedOnce
INVARIANT RulesFollowed
PROPERTY DelayKept
PROPERTY CrawlReturns
CHECK_DEADLOCK FALSE
