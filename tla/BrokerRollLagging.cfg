SPECIFICATION FairSpec
CONSTANTS
    N = 3
    Versions = {1, 2, 3}
    First = 1
    Edits <- Forward
    HashOf <- Distinct
    Bad = {}
    MinReplicas = 2
    MaxLag = 1
    MaxEdits = 1
    MaxExpire = 1
INVARIANTS OneBrokerDown
PROPERTIES RollConverges
