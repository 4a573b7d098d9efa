CONSTANTS
    Null <- MCNull
    NoList = NoList
    DictLen = 4
    RowsPerChunk = 2
    ValueIsF64 = TRUE
    KeyIsDict = TRUE
    PosInf = 1000
    NegInf <- MCNegInf
    Words <- MCWords
    Numbers <- MCNumbers
    Dates <- MCDates
    Trimmed <- MCTrimmed
    Containing <- MCContaining
    KeyHash <- MCOwnHash
    Partitions = 2
    RadixBase = 3
    HotThreshold = 2
    Workers <- MCWorkers
    Inputs <- MCHistInputs
    NoQuery = NoQuery
    NoPartial = NoPartial
SPECIFICATION Spec
INVARIANTS
    HistogramGroups
CHECK_DEADLOCK FALSE
