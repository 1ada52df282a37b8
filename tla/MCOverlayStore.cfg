SPECIFICATION Spec
CONSTANTS
    Path = {p1, p2}
    Val = {v1}
    Deleted = Deleted
    Spliced = Spliced
    BodyLen = 2
    MaxBatch = 2
    MaxRecords = 3
    MaxCrashes = 2
    MaxErrors = 1
SYMMETRY PathSymmetry
INVARIANTS
    PublishedSurvivesCrash
    MemoryMatchesLog
