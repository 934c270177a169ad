SPECIFICATION FairSpec
CONSTANTS
    Shards <- MCShards
    Levels <- Overlapping
    MaxResults = 2
    GoodCount = 1
    Needed = 2
    Good <- MCGood
    ShardGood <- MCGood
    GlobalTimeout = 2
    ShardTimeout = 1
    MaxFaults = 1
    NoAnswer = NoAnswer
CHECK_DEADLOCK FALSE
INVARIANT NoGap
INVARIANT NothingMissed
PROPERTY KeepsPromise
PROPERTY SearchReturns
