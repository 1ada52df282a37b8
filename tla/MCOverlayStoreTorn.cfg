SPECIFICATION Spec
CONSTANTS
    Path = {p1, p2}
    Val = {v1}
    Deleted = Deleted
    Spliced = Spliced
    BodyLen = 1
    MaxBatch = 1
    MaxRecords = 3
    MaxCrashes = 1
    MaxErrors = 0
INVARIANT CrashLosesAtMostOneBatch
