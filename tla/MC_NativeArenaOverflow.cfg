SPECIFICATION Spec
CONSTANTS
    Addr = {a1, a2}
    NULL = NULL
    Object = {o1, o2}
    Size = {9000, 40000}
    SARIF_SCOPE_STACK_CAP = 2
    SARIF_RECORD_ARENA_CHUNK_MIN_SIZE = 16384
    SARIF_RECORD_ARENA_CHUNK_MAX_SIZE = 1048576
    SIZE_MAX = 1500000
    ChunkHeader = 24
    MaxNesting = 4
CHECK_DEADLOCK FALSE
PROPERTIES ScopesSpec
