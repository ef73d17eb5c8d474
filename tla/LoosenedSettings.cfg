SPECIFICATION LoosenedSpec
CONSTANTS
    Kept = {1, 2, 3, 4, 5}
    Roles = {"Plan"}
    Settings <- MCSettings
    Touching = {"t1"}
INVARIANTS
    LooseningRestores
CHECK_DEADLOCK FALSE
