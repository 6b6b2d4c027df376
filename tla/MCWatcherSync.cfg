SPECIFICATION Spec
CONSTANTS
    UintMod = 64
    MaxHeight = 1
    MaxValidated = 1
    a = a
    b = b
    Hashes <- TwoHashes
    Sources = {"eth", "btc"}
    WorkerPoolSize = 2
    StreamCap = 1
    QueueCap = 2
    ServeCap = 1
    DirectPostgres = FALSE
    StopAllowed = TRUE
    MaxStreamed = 4
    MaxMined = 3
    MaxFaults = 1
INVARIANTS Accounted NewestKept QuietExit
CHECK_DEADLOCK FALSE
