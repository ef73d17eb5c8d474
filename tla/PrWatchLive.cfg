SPECIFICATION LiveSpec
CONSTANTS
    p1 = p1
    p2 = p2
    None = None
    Watches = {1, 2}
    Pulls = {p1, p2}
    PullOf <- PullEach
    ActiveCap = 2
    SlotCap = 1
    MaxPushes = 1
    MaxActs = 3
    MaxFaults = 1
PROPERTIES
    RunningEnds
    RequestsAreAnswered
    PushesAreTaken
CHECK_DEADLOCK FALSE
