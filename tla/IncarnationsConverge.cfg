SPECIFICATION FairSpec
CONSTANTS
    MaxCR = 3
    MaxId = 3
    Others = 2
    Spare = FALSE
    Grace = FALSE
    MaxLag = 0
    MaxFaults = 2
    MaxRaw = 2
    Mixed = FALSE
    MaxManual = 0
INVARIANTS
    DistinctIdentities
PROPERTIES
    RunningPodKept
    ReplacedBeforeDrained
    Converges
