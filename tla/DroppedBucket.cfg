SPECIFICATION Spec
CONSTANTS
    r1 = r1
    r2 = r2
    b1 = b1
    full = full
    bare = bare
    work = work
    home = home
    None = None
    Records <- MCRecords
    Buckets <- MCBuckets
    Content <- MCContent
    Redact <- MCRedact
    Bindings <- MCBindings
    BindingOf <- MCBindingOf
    Settings <- OpenAndReconfigured
    Defaults <- Open
    Poison <- RefusedBucketAndRecord
    Unwelcome <- Nothing
    Runs = {run1, run2, run3}
    RecordCap = 2
    BucketCap = 1
    SplitBudget = 2
    MaxChanges = 3
    MaxFaults = 1
SYMMETRY RunIds
INVARIANT MarkedBucketsAreStored
