SPECIFICATION Spec
CONSTANTS
    MaxCR = 2
    MaxId = 2
    Others = 2
    Spare = TRUE
    Grace = TRUE
    MaxLag = 1
    MaxFaults = 2
    MaxRaw = 2
    Mixed = FALSE
    MaxManual = 0
INVARIANTS
    PinnedIsDead
