CONSTANTS
    NoValue = NoValue
    Block = 3
    DocsPerShard = 2
    Alphabet <- MCAlphabet
    MaxLen <- MCMaxLen
    Options <- MCOptions
    Needles <- MCNeedles
    Contexts <- MCContexts
    NeedleIn <- MCNeedleIn
    Ext <- MCExt
    Category <- MCCategory
    RegexPaths <- MCRegexPaths
    Size <- MCSize
    Mtime <- MCMtime
    NewerTime <- MCNewerTime
    PathOrder <- MCPathOrder
SPECIFICATION Spec
INVARIANTS
    CodecRoundTrip
    ParsersFollowGrammar
    GlobExact
    AtomRequired
    LineHitsExact
    AnswersExact
    LimitFills
CHECK_DEADLOCK FALSE
