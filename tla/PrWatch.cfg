SPECIFICATION Spec
CONSTANTS
    p1 = p1
    p2 = p2
    None = None
    Watches = {1, 2}
    Pulls = {p1}
    PullOf <- OnePull
    ActiveCap = 2
    SlotCap = 1
    MaxPushes = 1
    MaxActs = 3
    MaxFaults = 1
INVARIANTS
    TypeOK
    OneSessionPerWatch
    SessionsAreTracked
    HeadsReviewedOnce
CHECK_DEADLOCK FALSE
