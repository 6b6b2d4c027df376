SPECIFICATION GapSpec
CONSTANTS
    UintMod = 12
    MaxHeight = 3
    MaxValidated = 2
    h1 = h1
    h2 = h2
    Hashes <- TwoHashes
    MaxLen = 6
    MaxListed = 6
SYMMETRY Symmetry
INVARIANT GapsFindAll
CHECK_DEADLOCK FALSE
