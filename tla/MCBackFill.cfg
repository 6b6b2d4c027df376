SPECIFICATION Spec
CONSTANTS
    UintMod = 64
    MaxHeight = 2
    MaxValidated = 2
    a = a
    b = b
    Hashes <- OneHash
    BatchSize = 2
    BatchNumber = 2
    ValidationLevel = 2
    Canonical = a
    DirectPostgres = TRUE
    ForwardCap = 1
    StopAllowed = TRUE
    MaxFaults = 1
    MaxOutside = 2
    MaxRestarts = 1
INVARIANTS PassIsOver NoSharedWork QuietExit
PROPERTY ImplementsPass
CHECK_DEADLOCK FALSE
