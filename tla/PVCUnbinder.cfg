SPECIFICATION FairSpec
CONSTANTS
    Broker = {1, 2}
    Kind = {"data", "shadow"}
    Node = {1, 2, 3}
    None = None
    Home <- OneEach
    Flags <- DefaultOrRebind
    PhaseLags = FALSE
    Lagging = {"claim"}
    MaxUid = 3
    MaxEvents = 3
    MaxFaults = 1
    MaxTrouble = 3
CHECK_DEADLOCK FALSE
INVARIANTS OneUnbindAtATime
PROPERTIES DataRetained NoDiskSwap StuckIsFreed
