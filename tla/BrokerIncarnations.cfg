SPECIFICATION Spec
CONSTANTS
    MaxCR = 3
    MaxId = 3
    Others = 2
    Spare = FALSE
    Grace = TRUE
    MaxLag = 0
    MaxFaults = 2
    MaxRaw = 0
    Mixed = FALSE
    MaxManual = 1
INVARIANTS
    TypeOK
PROPERTIES
    OnlyTheAskedIsDrained
    RunningPodKept
    DataKept
