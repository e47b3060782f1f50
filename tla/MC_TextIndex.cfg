SPECIFICATION BackendSpec
CONSTANTS
    Handle = {1, 2, 3, 4, 5}
    TextOf <- MC_TextOf
    Hash <- MC_Hash
    Value = {1, 2}
    InitialCap = 4
    JitHandle = {1, 2, 3, 4, 5, 6, 7, 8}
    JitTextOf <- MC_JitTextOf
    JitHash <- MC_JitHash
    JitValue = {1}
    JitCap = 8
    Backend = {"native", "wasm", "jit"}
    Program = {}
INVARIANT TableSound
 
