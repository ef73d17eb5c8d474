SPECIFICATION Spec
CONSTANTS
    Bindings = {"b1"}
    Envelopes = {"e1", "e2", "e3"}
    Records <- PostedRecords
    RunOf <- PostedRuns
    Browser = FALSE
    Slots = {1, 2}
    MaxAttempts = 3
    MaxChanges = 1
    Machines = {"i1", "i2", "i3"}
    Providers <- OwnAccounts
    Hashes = {"h1"}
    PrefixOf <- TwoCodes
    PrefixBudget = 2
    SourceIds = {"k1"}
    Identities = {1, 2}
    Calls = {1, 2}
    MaxStarted = 4
    Hour = 2
    DayStarts <- TwoZones
    FirstDate <- MonthDates
    BackDays = 1
    Now = 21
    BuiltinAgents = {"explore"}
    Databases <- SomeDatabases
    Queries <- SomeQueries
    QueryNames = {"q1", "q2"}
    LaterSections = {"requests"}
    Capacity = 2
    CacheMax = 2
    ClaudeAccounts = {"a", "b"}
    Usages <- SomeUsages
    OutboxLimit = 1
INVARIANT
    EvidenceFresh
CHECK_DEADLOCK FALSE
