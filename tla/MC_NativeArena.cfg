SPECIFICATION Spec
CONSTANTS
    Addr = {a1, a2, a3}
    NULL = NULL
    Object = {o1, o2, o3}
    Size = {0, 24, 9000, 40000, 2000000}
    SARIF_SCOPE_STACK_CAP = 3
    SARIF_RECORD_ARENA_CHUNK_MIN_SIZE = 16384
    SARIF_RECORD_ARENA_CHUNK_MAX_SIZE = 1048576
    SIZE_MAX = 1500000
    ChunkHeader = 24
    MaxNesting = 3
SYMMETRY Symmetry
INVARIANTS Disjoint MemorySafe
PROPERTIES ScopesProtect ScopesSpec
