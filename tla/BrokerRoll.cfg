SPECIFICATION FairSpec
CONSTANTS
    N = 3
    Versions = {1, 2, 3}
    First = 1
    Edits <- Forward
    HashOf <- Distinct
    Bad = {2}
    MinReplicas = 2
    MaxLag = 0
    MaxEdits = 2
    MaxExpire = 1
INVARIANTS TypeOK AtMostOneGrant DecommissionExcludesRoll
PROPERTIES ImplementsRollLock ReleasedOnlyWhenBack RollConverges
