SPECIFICATION Spec
CONSTANTS
    UintMod = 64
    MaxHeight = 1
    MaxValidated = 2
    a = a
    b = b
    Hashes <- OneHash
    BatchSize = 2
    BatchNumber = 2
    ValidationLevel = 2
    Canonical = a
    DirectPostgres = FALSE
    ForwardCap = 0
    StopAllowed = TRUE
    MaxFaults = 0
    MaxOutside = 1
    MaxRestarts = 0
INVARIANT SignalReachesWorkers
CHECK_DEADLOCK FALSE
