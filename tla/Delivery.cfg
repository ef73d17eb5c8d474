SPECIFICATION LiveSpec
CONSTANTS
    r1 = r1
    r2 = r2
    b1 = b1
    full = full
    bare = bare
    work = work
    home = home
    None = None
    Records <- MCRecords
    Buckets <- MCBuckets
    Content <- MCContent
    Redact <- MCRedact
    Bindings <- MCBindings
    BindingOf <- MCBindingOf
    Settings <- AllSettings
    Defaults <- Open
    Poison <- RefusedBucketAndRecord
    Unwelcome <- RecordOfABadShape
    Runs = {run1, run2, run3}
    RecordCap = 2
    BucketCap = 1
    SplitBudget = 2
    MaxChanges = 3
    MaxFaults = 1
INVARIANTS
    TypeOK
    MarkedIsSettled
    PostsAreAdmitted
    RejectedIsNeverRetried
    NothingFallsOut
    CoverageIsKept
PROPERTIES
    ImplementsPublication
    RunsEnd
    EverythingIsDelivered
