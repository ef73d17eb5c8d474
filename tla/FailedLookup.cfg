SPECIFICATION Spec
CONSTANTS
    Secret = {"token=A", "token=B"}
    Opaque = {"a&&b"}
    Variables = {"$RUN"}
    Loopback = {}
    SensitiveEnv = {"PATH"}
    McpTools = {"mcp__s"}
    Themes <- AllThemes
    Unreadable = {"settings"}
    MaxItems = 1
    MaxMerges = 1
    MaxMoves = 0
INVARIANT CleanScansAreWhole
CHECK_DEADLOCK FALSE
