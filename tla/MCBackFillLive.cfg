SPECIFICATION FairSpec
CONSTANTS
    UintMod = 64
    MaxHeight = 2
    MaxValidated = 2
    a = a
    b = b
    Hashes <- OneHash
    BatchSize = 2
    BatchNumber = 2
    ValidationLevel = 2
    Canonical = a
    DirectPostgres = FALSE
    ForwardCap = 0
    StopAllowed = TRUE
    MaxFaults = 1
    MaxOutside = 2
    MaxRestarts = 1
PROPERTIES GapsFilled PassesEnd StopSettles
CHECK_DEADLOCK FALSE
