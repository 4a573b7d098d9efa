CONSTANTS
    Null <- MCNull
    NoList = NoList
    DictLen = 4
    RowsPerChunk = 2
    ValueIsF64 = TRUE
    KeyIsDict = FALSE
    PosInf = 1000
    NegInf <- MCNegInf
    Words <- MCWords
    Numbers <- MCNumbers
    Dates <- MCDates
    Trimmed <- MCTrimmed
    Containing <- MCContaining
    KeyHash <- MCKeyHash
    Partitions = 2
    RadixBase = 3
    HotThreshold = 2
    Workers <- MCWorkers
    Inputs <- MCInputs
    NoQuery = NoQuery
    NoPartial = NoPartial
SPECIFICATION Spec
INVARIANTS
    NativeAnswerExact
    SqlPlanned
CHECK_DEADLOCK FALSE
