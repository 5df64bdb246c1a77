SPECIFICATION FairSpec
CONSTANTS
    Routine = {r1, r2}
    MaxSpawned = 3
    MaxInst = 3

PROPERTIES LeaderRunsRoutines
CHECK_DEADLOCK FALSE
