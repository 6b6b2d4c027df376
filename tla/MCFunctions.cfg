SPECIFICATION Spec
CONSTANTS
    UintMod = 12
    MaxHeight = 3
    MaxValidated = 2
    h1 = h1
    h2 = h2
    Hashes <- TwoHashes
    MaxLen = 6
    MaxListed = 6
    Slots = 2
    Numerals <- ThreeNumerals
    IntHalf = 128
    Second = 4
    ToLower <- LowerCase
    x = x
    y = y
    t = t
    u = u
    null = null
INVARIANTS GapHelpersExact GapsCover GapsDisjoint FiltersAgree GetLogsComplete FetchersAgree
           FieldsListed TrieLookup BtcBlockLinked CommandsWired
CHECK_DEADLOCK FALSE
