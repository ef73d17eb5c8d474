SPECIFICATION Spec
CONSTANTS
    Kept = {1, 2, 3, 4, 5}
    Roles = {"Plan"}
    Settings <- MCSettings
    Touching = {"t1"}
INVARIANTS
    RowsAgreeWithFiles
    LineageAgrees
    MarksCoverTheirRecords
CHECK_DEADLOCK FALSE
