SPECIFICATION LookupSpec
CONSTANTS
    Files <- MCFiles
    Offsets <- MCOffsets
    Claims <- MCClaims
    TornTail <- MCTornTail
    HeaderSize = 1
    NoFile = NoFile
    NumRanks = 2
    FilesOf <- MCFilesOf
    Unfit <- MCUnfit
    Selections = {{}, {0}, {1}}
    MaxFaults = 2
    Threads = {"t1", "t2"}
    StaleDocs <- MCStaleDocs
    MaxMappings = 1
    NoThread = NoThread
    NoDocument = NoDocument
CHECK_DEADLOCK FALSE
INVARIANT DocsLeadBack
INVARIANT OmissionsReported
INVARIANT OwnPage
INVARIANT NothingLeftMapped
PROPERTY AlwaysReturns
