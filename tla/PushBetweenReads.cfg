SPECIFICATION FairSpec
CONSTANTS
    p1 = p1
    p2 = p2
    None = None
    Watches = {1}
    Pulls = {p1}
    PullOf <- OnePull
    ActiveCap = 2
    SlotCap = 1
    MaxPushes = 1
    MaxActs = 1
    MaxFaults = 0
PROPERTIES
    EveryPushIsReviewed
CHECK_DEADLOCK FALSE
