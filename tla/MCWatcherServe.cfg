SPECIFICATION Spec
CONSTANTS
    c1 = c1
    c2 = c2
    Clients <- TwoClients
    Tracked <- NoClient
    Settings <- MixedSettings
    MaxHeight = 2
    ChanCap = 1
    NilServed = TRUE
    MaxServed = 2
    MaxFaults = 0
SYMMETRY Symmetry
INVARIANTS MapsAgree GoneMeansUnregistered
CHECK_DEADLOCK FALSE
