SPECIFICATION Spec
CONSTANTS
    StopWords = {"the"}
    Terms <- MCTerms
    Hash <- MCHash
    TermLen <- MCTermLen
    Stride = 2
    DeltaLimit = 9
    FirstBuckets = 1
    MinBuckets = 2
    Texts <- MCTexts
    Corpora <- MCCorpora
    Dropped <- MCDropped
    MaxTokens = 4
    MaxDocs = 3
INVARIANT IndexAnswers
INVARIANT QueryKept
INVARIANT FindsExactly
INVARIANT MeansWhatItSays
INVARIANT SignalsTrue
