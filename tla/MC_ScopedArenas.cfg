SPECIFICATION ArenasSpec
CONSTANTS
    Backend = {"jit", "wasm", "native"}
    Object = {o1, o2, o3}
    MaxNesting = 3
    JitSize = {0, 2000000, 2300000, 5000000}
    ChunkSize = 4194304
    WasmSize = {0, 5, 8, 24}
    HeapBase = 8
    StackDepth = 2
    Word = 256
    Page = 32
    MaxPages = 3
    Junk = {0, 12}
    Size = {9000, 40000}
    Addr = {a1, a2}
    NULL = NULL
    SARIF_SCOPE_STACK_CAP = 1
    SARIF_RECORD_ARENA_CHUNK_MIN_SIZE = 16384
    SARIF_RECORD_ARENA_CHUNK_MAX_SIZE = 1048576
    SIZE_MAX = 1500000
    ChunkHeader = 24
SYMMETRY Symmetry
INVARIANTS ObjectsDisjoint 
PROPERTIES JitScopes WasmScopes
