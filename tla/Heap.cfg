INIT HeapInit
NEXT HeapNext
CONSTANTS
    MIN_CHUNK_SIZE = 2
    NSMALLBINS = 4
    TREEBIN_SHIFT = 2
    NTREEBINS = 4
    SIZE_T_BITSIZE = 6
    MAX_REQUEST = 50
    TOP_FOOT_SIZE = 2
    MSIZE = 2
    TRIM_THRESHOLD = 8
    PAGE_SIZE = 4
    DEFAULT_GRANULARITY = 8
    Capacities = {9, 16, 41}
    Words = {1, 3, 5}
    SmallSegment = 16
    TinySegment = 9
    TreeWords = {7, 8, 9, 10}
    TooMany = 55
    Alignments = {1, 4}
INVARIANTS
    HeapChecks
    BlocksIntact
    NothingLeaks
    BestFit
