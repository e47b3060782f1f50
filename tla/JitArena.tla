------------------------------ MODULE JitArena ------------------------------
(***************************************************************************)
(* The scoped arena of the JIT, crates/sarif_codegen/src/jit.rs: a vector  *)
(* of boxed chunks, a bump position and an unbounded scope stack.  A pop   *)
(* only moves the position back; the chunks behind it are dropped by the   *)
(* next allocation that needs a new chunk.  All state is thread-local and  *)
(* a program runs on one thread, so each operation is one step.            *)
(***************************************************************************)
EXTENDS Integers, Sequences

CONSTANTS
    Object,         \* names for allocated objects
    Size,           \* the sizes programs ask for
    ChunkSize,      \* chunk_size in ScopedArena::alloc
    MaxNesting      \* bound on the scope stack

VARIABLES
    chunks,         \* the length of each box of ScopedArena.chunks
    idx,            \* current_chunk_idx
    offset,         \* current_offset
    stack,          \* SCOPE_STACK
    objs            \* where the objects the program was given lie

vars == <<chunks, idx, offset, stack, objs>>

ARENA_ALIGN == 16

arena_align_up(n) == ((n + (ARENA_ALIGN - 1)) \div ARENA_ALIGN) * ARENA_ALIGN

ArenaState == [chunk_index : Nat, offset : Nat]
Placed == [id : Object, chunk : Nat, off : Nat, size : Nat]

Max(a, b) == IF a > b THEN a ELSE b

Init ==
    /\ chunks = <<>>
    /\ idx = 0
    /\ offset = 0
    /\ stack = <<>>
    /\ objs = {}

\* chunks[i] of the vector is chunks[i + 1] of the sequence.
Fits_NoBound(aligned) == idx < Len(chunks)
Fits(aligned) == idx < Len(chunks) /\ offset + aligned <= chunks[idx + 1]

AllocBump(o, aligned) ==
    /\ Fits(aligned)
    /\ objs' = objs \cup {[id |-> o, chunk |-> idx, off |-> offset, size |-> aligned]}
    /\ offset' = offset + aligned
    /\ UNCHANGED <<chunks, idx, stack>>

\* truncate drops the boxes behind the current one, with the objects in them.
AllocChunk(o, aligned) ==
    LET kept == IF chunks = <<>> THEN <<>> ELSE SubSeq(chunks, 1, idx + 1)
    IN  /\ ~Fits(aligned)
        /\ chunks' = Append(kept, Max(ChunkSize, aligned))
        /\ idx' = Len(kept)
        /\ offset' = aligned
        /\ objs' = {p \in objs : p.chunk < Len(kept)}
                     \cup {[id |-> o, chunk |-> Len(kept), off |-> 0, size |-> aligned]}
        /\ UNCHANGED stack

sarif_record_alloc(o, size) ==
    /\ \A p \in objs : p.id # o
    /\ \/ AllocBump(o, arena_align_up(Max(size, 8)))
       \/ AllocChunk(o, arena_align_up(Max(size, 8)))

sarif_alloc_push ==
    /\ Len(stack) < MaxNesting
    /\ stack' = Append(stack, [chunk_index |-> idx, offset |-> offset])
    /\ UNCHANGED <<chunks, idx, offset, objs>>

\* The objects that lie before a position; the others may be overwritten.
Before(state) ==
    {p \in objs : \/ p.chunk < state.chunk_index
                  \/ p.chunk = state.chunk_index /\ p.off + p.size <= state.offset}

pop_KeepChunk(state) ==
    /\ offset' = state.offset
    /\ objs' = Before([chunk_index |-> idx, offset |-> state.offset])
    /\ UNCHANGED idx
pop(state) ==
    /\ idx' = state.chunk_index
    /\ offset' = state.offset
    /\ objs' = Before(state)

sarif_alloc_pop ==
    \/ /\ stack = <<>>
       /\ UNCHANGED vars
    \/ /\ stack # <<>>
       /\ pop(stack[Len(stack)])
       /\ stack' = SubSeq(stack, 1, Len(stack) - 1)
       /\ UNCHANGED chunks

Next ==
    \/ \E o \in Object, size \in Size : sarif_record_alloc(o, size)
    \/ sarif_alloc_push
    \/ sarif_alloc_pop

Spec == Init /\ [][Next]_vars

-----------------------------------------------------------------------------

\* Every object lies inside its box and before the bump position, and no two
\* share a byte: the next allocation overwrites nothing.
Disjoint ==
    /\ \A p \in objs : p.chunk < Len(chunks) /\ p.off + p.size <= chunks[p.chunk + 1]
    /\ objs = Before([chunk_index |-> idx, offset |-> offset])
    /\ \A p, q \in objs :
          p = q \/ p.chunk # q.chunk \/ p.off + p.size <= q.off \/ q.off + q.size <= p.off

Ids(ps) == {p.id : p \in ps}

Scopes == INSTANCE AllocScopes WITH
    live <- Ids(objs),
    scopes <- [i \in DOMAIN stack |-> Ids(Before(stack[i]))]

\* The JIT's arena gives back what a scope allocated and nothing else, although
\* boxes outlive the scope that made them.
ScopesSpec == Scopes!Spec
=============================================================================
