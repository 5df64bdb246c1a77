SPECIFICATION FairSpec
CONSTANTS
    Runnable = {r1}
    Cluster = {c1}
    Preset = {}
    MaxFaults = 1
    MaxReturns = 1
INVARIANTS NoMissedNotification
PROPERTIES HealedIsEngaged RetriesStop
