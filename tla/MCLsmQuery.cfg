SPECIFICATION Spec
CONSTANTS
    Path = {"p", "q"}
    Life <- MCShortLife
    Absent = Absent
    Watch = TRUE
    Threshold = 2
    MaxHandles = 2
    MaxNets = 1
    MaxReloads = 0
    MaxCrashes = 0
    MaxQueries = 1
INVARIANTS
    QueryFresh
    RebuildShowsFiles
