CONSTANTS
    Null = Null
    NaN = NaN
    None = None
    Bits <- MCBits
    Mantissa = 3
    Unit = 120
    F32Grain = 2
    Scales <- MCScales
    Preferred = 60
    Eps = 1
    MaxDict = 3
    LargeDict = 3
    Other <- MCOther
    RowsPerChunk = 3
    Delimiters = {3}
    TokenLens = {2, 3}
    MaxTokens = 2
    MaxRun = 1
    Sampled = 2
    MaxInflight = 1
    Jobs <- MCJobs
    Patterns <- MCPatterns
SPECIFICATION Spec
INVARIANT FileFaithful
PROPERTY EncodingEnds
CHECK_DEADLOCK FALSE
