SPECIFICATION Spec
CONSTANTS
    EthBlocks <- Eth
    BtcBlocks = {}
    Height <- HeightOf
    Data <- Contents
    TxId <- TxIds
    NoKey = "none"
    MaxValidated = 1
    Requests <- Asked
    Stores <- Indexings
    TwoUncles = {"e2"}
    Partial = "partial"
    NoBlock = "noblock"
    Cleanings <- CleanedData
    MaxWrites = 2
INVARIANTS TypeOK AnswerWhole AnswerMoment ErrorMeansMoved
CHECK_DEADLOCK FALSE
