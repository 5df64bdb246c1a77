SPECIFICATION FairSpec
CONSTANTS
    Routine = {r1, r2}
    MaxSpawned = 3
    MaxInst = 3
INVARIANTS NoLeaderWorkUnlessLeading AtMostOneLiveInstance
PROPERTIES FollowerQuiesces IsLeaderClears FirstLeadershipRuns
CHECK_DEADLOCK FALSE
