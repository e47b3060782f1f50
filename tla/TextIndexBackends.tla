------------------------- MODULE TextIndexBackends --------------------------
(***************************************************************************)
(* A program that uses a TextIndex, run on one of the backends: a native   *)
(* executable (TextIndex), a Wasm module (WasmTextIndex) or in process     *)
(* (JitTextIndex).  On each of them the table has to be the interpreter's  *)
(* map, TextMap.                                                           *)
(***************************************************************************)
EXTENDS TextIndex

CONSTANTS
    Backend,        \* the backends programs are run on
    Program,        \* what programs do: "misses", "scopes" (see below)
    JitHandle, JitTextOf, JitHash, JitValue, JitCap

ASSUME BackendAssumption ==
    /\ JitTextOf \in [JitHandle -> Nat \ {NoKey}]
    /\ JitHash \in [JitHandle -> Nat]
    /\ JitCap \in {8, 16, 32, 64, 128, 256}

VARIABLE backend

Wasm == INSTANCE WasmTextIndex WITH reused <- null
Jit == INSTANCE JitTextIndex WITH
    Handle <- JitHandle, TextOf <- JitTextOf, HandleHash <- JitHash, Value <- JitValue,
    InitialCap <- JitCap

BackendInit ==
    /\ backend \in Backend
    /\ null = FALSE
    /\ IF backend = "jit" THEN Jit!Init ELSE Init

\* Programs with "scopes" close allocation scopes while they use an index.
WasmNext ==
    \/ \E h \in Handle :
         \/ \E v \in Value : Wasm!text_index_set(h, v) \/ Wasm!text_index_get_or_insert(h, v)
         \/ Wasm!text_index_get(h)
         \/ Wasm!text_index_contains(h)
    \/ "scopes" \in Program /\ Wasm!alloc_pop

\* Programs with "misses" get keys they have not stored.
JitNext ==
    /\ \/ \E h \in JitHandle :
            \/ \E v \in JitValue : Jit!text_index_set(h, v) \/ Jit!text_index_get_or_insert(h, v)
            \/ ("misses" \in Program \/ Jit!Found(entries, h)) /\ Jit!text_index_get(h)
            \/ Jit!text_index_contains(h)
       \/ Jit!text_index_keys
    /\ UNCHANGED null

BackendNext ==
    /\ \/ backend = "native" /\ Next
       \/ backend = "wasm" /\ WasmNext
       \/ backend = "jit" /\ JitNext
    /\ UNCHANGED backend

BackendSpec == BackendInit /\ [][BackendNext]_<<vars, backend>>

-----------------------------------------------------------------------------

\* The tables stay sound through collisions, overwrites, rehashes and growth that fails:
\* a lookup of a stored key stops at its entry, so that no text is stored twice; len,
\* on which growing depends, is the number of entries; and there is an empty slot,
\* without which a probe would not end (the load limits leave one: below three
\* quarters before an insertion in the native and the Wasm runtime, at most three
\* quarters of at least eight under the JIT).
TableSound ==
    /\ backend = "native" => \A i \in Used(entries) : find_entry(entries, entries[i].key) = {i}
    /\ backend = "wasm" => \A i \in Used(entries) : Wasm!find_entry(entries, entries[i].key) = {i}
    /\ backend = "jit" => \A i \in Used(entries) : Jit!Probe(entries, entries[i].key) = {i}
    /\ len = Cardinality(Used(entries))
    /\ Used(entries) # DOMAIN entries

\* The text at each address the program uses.
KeyText == IF backend = "jit" THEN JitTextOf ELSE TextOf

\* A get that misses returns -1.
MissIsMinusOne ==
    [][answer'.op = "text_index_get" /\ (\A i \in Used(entries) : KeyText[entries[i].key] # answer'.key)
          => answer'.result = Miss]_vars

-----------------------------------------------------------------------------
Texts == Text \cup {JitTextOf[h] : h \in JitHandle}

\* Answers as the map gives them.  The native table and the JIT list the same keys as
\* the interpreter, but in the order of the slots and, in a native executable, with a
\* newline after the last one too.  What an index that ran out of memory answers is
\* not the map's answer.
Listed(r) ==
    LET handles == IF backend = "jit" THEN r.list ELSE r.keys
        texts == {IF backend = "jit" THEN JitTextOf[handles[i]] ELSE handles[i] : i \in DOMAIN handles}
    IN  [keys |-> Ascending(texts), terminated |-> FALSE]

Refused ==
    /\ backend = "native"
    /\ \/ null
       \/ answer.op = "text_index_get_or_insert" /\ answer.result = Miss

AbsAnswer ==
    IF Refused THEN Result("refused", answer.key, 0)
    ELSE IF answer.op = "text_index_keys" THEN [answer EXCEPT !.result = Listed(@)]
    ELSE answer

Map == INSTANCE TextMap WITH
    Text <- Texts \cup {NoKey}, Value <- Value \cup JitValue,
    map <- MapOf(entries, KeyText), answer <- AbsAnswer

\* On every backend the table is the interpreter's map and gives its answers, up to
\* the order of the keys and a last newline.
MapSpec == Map!Spec

-----------------------------------------------------------------------------
(***************************************************************************)
(* The instance.  Native and Wasm: four texts at five addresses.  Texts 1  *)
(* and 2 have the same hash, text 3 another hash with the same home slot,  *)
(* the last slot of a table of four, so that they wrap round into the home *)
(* slot of text 4; the fourth text makes the table grow.                   *)
(* JIT: eight addresses, as many as make a table of eight grow, with the   *)
(* first three colliding round the end of the table.                       *)
(***************************************************************************)
MC_TextOf == <<1, 1, 2, 3, 4>>
MC_Hash == <<3, 3, 7, 0>>
MC_JitTextOf == <<1, 2, 3, 4, 5, 6, 7, 8>>
MC_JitHash == <<7, 7, 0, 2, 3, 4, 5, 6>>
=============================================================================
