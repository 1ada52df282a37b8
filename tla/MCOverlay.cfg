SPECIFICATION Spec
CONSTANTS
    Byte <- MCByte
    AsciiFold <- MCAsciiFold
    Content <- MCContent
    Queries <- MCQueries
    Path = {p1, p2, p3}
    Meta = {m1, m2}
    None = None
INVARIANTS
    TypeOK
    SlotsAgree
    PostingsCurrent
    DeadDocsNeverVerify
    ContentQueryExact
    ShadowsExact
PROPERTY
    ImplementsMap
