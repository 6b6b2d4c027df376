SPECIFICATION FairSpec
CONSTANTS
    UintMod = 64
    MaxHeight = 2
    MaxValidated = 1
    a = a
    b = b
    Hashes <- OneHash
    Sources = {"eth", "btc"}
    WorkerPoolSize = 2
    StreamCap = 1
    QueueCap = 1
    ServeCap = 1
    DirectPostgres = TRUE
    StopAllowed = TRUE
    MaxStreamed = 3
    MaxMined = 2
    MaxFaults = 1
PROPERTIES ContinuesRegardless HeadStreamed SyncQuits
CHECK_DEADLOCK FALSE
