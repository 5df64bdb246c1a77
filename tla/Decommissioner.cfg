SPECIFICATION FairSpec
CONSTANTS
    Pod <- TwoPools
    Sizes <- OneOrTwo
    Modes <- AllModes
    MaxId = 4
    MaxScales = 1
    MaxFaults = 1
CHECK_DEADLOCK FALSE
INVARIANTS OneDecommissionAtATime
PROPERTIES WantedBrokerKept UsedDataKept GhostsGo
