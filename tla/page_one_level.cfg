SPECIFICATION Spec
CONSTANTS
    Shards <- MCShards
    Corpus <- OneLevel
    HasData <- MCHasData
    HostOf <- MCHostOf
    MaxPerHost = 2
    Answers <- MCAnswers
    Offsets = {0, 1, 2}
    Limits = {1, 2, 3}
    None = None
CHECK_DEADLOCK FALSE
INVARIANT OwnSnippet
