SPECIFICATION FairSpec
CONSTANTS
    Path = {"p", "q"}
    Life <- MCLife
    Absent = Absent
    Watch = TRUE
    Threshold = 1
    MaxHandles = 1
    MaxNets = 1
    MaxReloads = 1
    MaxCrashes = 1
    MaxQueries = 0
INVARIANTS
    QuietViewCurrent
    RestartLosesNothing
PROPERTIES
    SwapKeepsContent
    Converges
