SPECIFICATION FairSpec
CONSTANTS
    Entry <- MCEntry
    Root = "root"
    Parent <- MCParent
    Kind <- MCKind
    Trees <- MCTrees
    Worker = {w1, w2}
    Free = Free
    ChannelCap = 2
    FlushDocs = 2
    MaxBuilds = 3
    MaxFailures = 2
CHECK_DEADLOCK FALSE
INVARIANTS
    TypeOK
    OkIsComplete
    ManifestDescribesShards
    ShardsNeverOlder
PROPERTY Terminates
