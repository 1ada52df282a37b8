SPECIFICATION FairSpec
CONSTANTS
    Thread = {t1, t2, t3}
    WatchThread = {}
    Cli = {c1, c2}
    MaxCrashes = 2
    MaxPanics = 2
INVARIANTS
    OneBuild
    BuildHoldsMarker
    MarkerMeansBuild
PROPERTY MarkerClears
