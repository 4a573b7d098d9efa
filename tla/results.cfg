CONSTANTS
    Null <- MCNull
    NoList = NoList
    DictLen = 3
    RowsPerChunk = 2
    ValueIsF64 = TRUE
    KeyIsDict = TRUE
    PosInf = 1000
    NegInf <- MCNegInf
    Workers = {w1, w2}
    Tables <- MCTables
    Queries <- MCQueries
    NoPartial = NoPartial
SPECIFICATION Spec
INVARIANTS PruneSound AnswerExact
CHECK_DEADLOCK FALSE
