SPECIFICATION FairSpec
CONSTANTS
    Pools = {1, 2}
    MaxReplicas = 3
    Scripts <- AllScripts
    Bad = {2}
    Legacy = {1}
    MaxFaults = 1
PROPERTIES ImplementsRollLock DrainedBeforeDropped FailedPodServesNothing PoolsSettle
