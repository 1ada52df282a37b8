CONSTANTS
    Byte <- MCByte
    AsciiFold <- MCFold
    NoValue = NoValue
    Block = 2
    BLOCK_PATHS = 2
    MIN_DICT_CORPUS = 16
    SHARD_FLUSH_BYTES = 5
    Doc <- MCDoc
    MaxDocs = 3
    HashKey <- MCHashKey
    HashValue <- MCHashValue
    Queries <- MCQueries
    Formulas <- MCFormulas
    Limits <- MCLimits
    Thread = {t1, t2}
SYMMETRY ThreadSymmetry
SPECIFICATION Spec
INVARIANTS FilenameQueryExact BooleanQueryExact ContentQueryExact ReadersGetTheirDoc
CHECK_DEADLOCK FALSE
