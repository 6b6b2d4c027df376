SPECIFICATION Spec
CONSTANTS
    EthBlocks <- Eth
    BtcBlocks <- Btc
    Height <- Heights
    Data <- Contents
    TxId <- TxIds
    NoKey = "none"
    MaxValidated = 2
    UintMod = 64
    BatchSize = 2
    BatchNumber = 2
    Canonical <- Chain
    Configs <- Settings
    MaxFaults = 1
    MaxOutside = 1
PROPERTY CleanStaysInRange
CHECK_DEADLOCK FALSE
