SPECIFICATION Spec
CONSTANTS
    Path = {"p", "q"}
    Life <- MCShortLife
    Absent = Absent
    Watch = TRUE
    Threshold = 1
    MaxHandles = 1
    MaxNets = 1
    MaxReloads = 1
    MaxCrashes = 0
    MaxQueries = 0
PROPERTIES
    ReloadKeepsFilenames
