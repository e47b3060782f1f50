---------------------------- MODULE NativeArena ----------------------------
(***************************************************************************)
(* The scoped arena of the native runtime, runtime/sarif_runtime.c.        *)
(*                                                                         *)
(* Memory comes from a linked list of malloc'ed chunks; an allocation      *)
(* bumps the current chunk or appends a new one.  sarif_alloc_push saves   *)
(* the bump position in a fixed array, or in a linked overflow list once   *)
(* the array is full; sarif_alloc_pop frees every chunk behind a saved     *)
(* position.  Each operation holds sarif_record_mutex from its first to    *)
(* its last access, so it is one step.                                     *)
(***************************************************************************)
EXTENDS Integers, Sequences, FiniteSets, TLC

CONSTANTS
    Addr,                                \* what malloc can return
    NULL,
    Object,                              \* names for allocated objects
    Size,                                \* the sizes programs ask for
    SARIF_SCOPE_STACK_CAP,
    SARIF_RECORD_ARENA_CHUNK_MIN_SIZE,
    SARIF_RECORD_ARENA_CHUNK_MAX_SIZE,
    SIZE_MAX,
    ChunkHeader,                         \* sizeof(SarifRecordChunk)
    MaxNesting                           \* how deep the program nests scopes

ASSUME NullAssumption == NULL \notin Addr
ASSUME SizeAssumption ==
    /\ Size \subseteq Nat
    /\ SIZE_MAX \in Nat /\ ChunkHeader \in Nat
    /\ SARIF_RECORD_ARENA_CHUNK_MIN_SIZE \in Nat
    /\ SARIF_RECORD_ARENA_CHUNK_MAX_SIZE \in Nat
ASSUME NestingAssumption ==
    SARIF_SCOPE_STACK_CAP \in Nat /\ MaxNesting \in Nat

VARIABLES
    chunks,     \* the list sarif_record_chunks, head first
    current,    \* sarif_record_current
    used,       \* chunk->used
    cap,        \* chunk->cap
    stack,      \* sarif_scope_stack[0 .. sarif_scope_depth - 1]
    overflow,   \* the list sarif_scope_overflow, head first
    objs,       \* where the objects the program was given lie
    fault       \* memory outside the listed chunks is written to

vars == <<chunks, current, used, cap, stack, overflow, objs, fault>>

SARIF_RECORD_ALIGN == 16

Align(size) ==
    ((size + (SARIF_RECORD_ALIGN - 1)) \div SARIF_RECORD_ALIGN) * SARIF_RECORD_ALIGN

Scope == [chunk : Addr \cup {NULL}, used : Nat]
Placed == [id : Object, chunk : Addr, off : Nat, size : Nat]

InList(a) == \E i \in DOMAIN chunks : chunks[i] = a

Init ==
    /\ chunks = <<>>
    /\ current = NULL
    /\ used = [a \in Addr |-> 0]
    /\ cap = [a \in Addr |-> 0]
    /\ stack = <<>>
    /\ overflow = <<>>
    /\ objs = {}
    /\ fault = FALSE

NextChunkCap(aligned) ==
    LET min == SARIF_RECORD_ARENA_CHUNK_MIN_SIZE
        max == SARIF_RECORD_ARENA_CHUNK_MAX_SIZE
        grown == IF current = NULL \/ cap[current] <= min THEN min
                 ELSE IF cap[current] < max \div 2 THEN 2 * cap[current] ELSE max
    IN  IF grown < aligned THEN aligned ELSE grown

Give(o, a, off, size) ==
    objs' = objs \cup {[id |-> o, chunk |-> a, off |-> off, size |-> size]}

\* Size 0 is the static empty text; a size that cannot be aligned gives NULL.
AllocRefused(size) ==
    /\ size = 0 \/ size > SIZE_MAX - (SARIF_RECORD_ALIGN - 1)
    /\ UNCHANGED vars

\* cap - used is computed on size_t: in an overfull chunk it wraps and anything fits.
Overfull == current # NULL /\ used[current] > cap[current]
Fits_WholeChunk(aligned) == current # NULL /\ aligned <= cap[current]
Fits(aligned) == current # NULL /\ (Overfull \/ aligned <= cap[current] - used[current])

AllocBump(o, aligned) ==
    /\ Fits(aligned) /\ ~Overfull
    /\ Give(o, current, used[current], aligned)
    /\ used' = [used EXCEPT ![current] = @ + aligned]
    /\ UNCHANGED <<chunks, current, cap, stack, overflow, fault>>

\* The object is placed behind the end of the chunk.
AllocOverrun ==
    /\ Overfull
    /\ fault' = TRUE
    /\ UNCHANGED <<chunks, current, used, cap, stack, overflow, objs>>

\* malloc returns some address that is not in use; the chunk goes behind current.
AllocChunk(o, aligned) ==
    /\ ~Fits(aligned)
    /\ NextChunkCap(aligned) <= SIZE_MAX - ChunkHeader
    /\ \E a \in Addr :
          /\ ~InList(a)
          /\ \/ current = NULL /\ chunks' = <<a>>
             \/ \E i \in DOMAIN chunks :
                   chunks[i] = current /\ chunks' = Append(SubSeq(chunks, 1, i), a)
          /\ current' = a
          /\ used' = [used EXCEPT ![a] = aligned]
          /\ cap' = [cap EXCEPT ![a] = NextChunkCap(aligned)]
          /\ Give(o, a, 0, aligned)
    /\ UNCHANGED <<stack, overflow, fault>>

\* malloc fails, or the chunk with its header would not fit a size_t.
AllocFail(aligned) ==
    /\ ~Fits(aligned)
    /\ UNCHANGED vars

sarif_record_alloc(o, size) ==
    /\ ~fault
    /\ \A p \in objs : p.id # o
    /\ \/ AllocRefused(size)
       \/ /\ size # 0 /\ size <= SIZE_MAX - (SARIF_RECORD_ALIGN - 1)
          /\ \/ AllocBump(o, Align(size))
             \/ AllocOverrun
             \/ AllocChunk(o, Align(size))
             \/ AllocFail(Align(size))

Here == [chunk |-> current, used |-> IF current = NULL THEN 0 ELSE used[current]]

sarif_alloc_push ==
    /\ ~fault
    /\ Len(stack) + Len(overflow) < MaxNesting
    /\ \/ /\ Len(stack) < SARIF_SCOPE_STACK_CAP
          /\ stack' = Append(stack, Here)
          /\ UNCHANGED overflow
       \/ /\ Len(stack) >= SARIF_SCOPE_STACK_CAP
          /\ overflow' = <<Here>> \o overflow
          /\ UNCHANGED stack
    /\ UNCHANGED <<chunks, current, used, cap, objs, fault>>

\* Everything is freed: the scope was opened on an empty arena.
PopAll_Nothing == UNCHANGED <<chunks, current, objs, used, cap, fault>>
PopAll ==
    /\ chunks' = <<>>
    /\ current' = NULL
    /\ objs' = {}
    /\ UNCHANGED <<used, cap, fault>>

\* The chunks behind position i are freed and chunk i is cut back to u.  The
\* objects left are those in a surviving chunk and, in chunk i, below u.
Surviving(i, u) ==
    {p \in objs : \/ \E j \in 1 .. i - 1 : p.chunk = chunks[j]
                  \/ p.chunk = chunks[i] /\ p.off + p.size <= u}

PopTo_KeepCurrent(i, u) ==
    /\ chunks' = SubSeq(chunks, 1, i)
    /\ used' = [used EXCEPT ![chunks[i]] = u]
    /\ objs' = Surviving(i, u)
    /\ UNCHANGED <<current, cap, fault>>
PopTo_WholeChunk(i, u) ==
    /\ chunks' = SubSeq(chunks, 1, i)
    /\ current' = chunks[i]
    /\ used' = [used EXCEPT ![chunks[i]] = 0]
    /\ objs' = Surviving(i, 0)
    /\ UNCHANGED <<cap, fault>>
PopTo(i, u) ==
    /\ chunks' = SubSeq(chunks, 1, i)
    /\ current' = chunks[i]
    /\ used' = [used EXCEPT ![chunks[i]] = u]
    /\ objs' = Surviving(i, u)
    /\ UNCHANGED <<cap, fault>>

\* The saved chunk was freed earlier: the code writes to it all the same.
PopDangling ==
    /\ fault' = TRUE
    /\ UNCHANGED <<chunks, current, used, cap, objs>>

Release(scope) ==
    \/ scope.chunk = NULL /\ PopAll
    \/ \E i \in DOMAIN chunks : scope.chunk = chunks[i] /\ PopTo(i, scope.used)
    \/ scope.chunk # NULL /\ ~InList(scope.chunk) /\ PopDangling

sarif_alloc_pop_Oldest ==
    /\ ~fault
    /\ stack # <<>>
    /\ Release(Head(stack))
    /\ stack' = Tail(stack)
    /\ UNCHANGED overflow
sarif_alloc_pop ==
    /\ ~fault
    /\ \/ /\ stack = <<>> /\ overflow = <<>>
          /\ UNCHANGED vars
       \/ /\ stack # <<>>
          /\ Release(stack[Len(stack)])
          /\ stack' = SubSeq(stack, 1, Len(stack) - 1)
          /\ UNCHANGED overflow
       \/ /\ stack = <<>> /\ overflow # <<>>
          /\ Release(Head(overflow))
          /\ overflow' = Tail(overflow)
          /\ UNCHANGED stack

Next ==
    \/ \E o \in Object, size \in Size : sarif_record_alloc(o, size)
    \/ sarif_alloc_push
    \/ sarif_alloc_pop

Spec == Init /\ [][Next]_vars

\* Addresses and object names are compared for equality only.
Symmetry == Permutations(Addr) \cup Permutations(Object)

-----------------------------------------------------------------------------

\* The arena's globals have the types of their C declarations.
TypeOK ==
    /\ chunks \in Seq(Addr)
    /\ current \in Addr \cup {NULL}
    /\ used \in [Addr -> Nat]
    /\ cap \in [Addr -> Nat]
    /\ stack \in Seq(Scope)
    /\ overflow \in Seq(Scope)
    /\ objs \subseteq Placed
    /\ fault \in BOOLEAN

\* sarif_record_current is the tail of the chunk list, so that appending behind
\* it loses no chunk, and no chunk is in the list twice: every chunk is freed once.
ListShape ==
    /\ current = IF chunks = <<>> THEN NULL ELSE chunks[Len(chunks)]
    /\ \A i, j \in DOMAIN chunks : chunks[i] = chunks[j] => i = j

\* Two objects the program holds never share a byte, each lies inside the part of
\* a listed chunk that is in use, and no chunk is overfull.
Disjoint ==
    /\ \A i \in DOMAIN chunks : used[chunks[i]] <= cap[chunks[i]]
    /\ \A p \in objs : InList(p.chunk) /\ p.off + p.size <= used[p.chunk]
    /\ \A p, q \in objs :
          p = q \/ p.chunk # q.chunk \/ p.off + p.size <= q.off \/ q.off + q.size <= p.off

\* No pop writes to a chunk that an earlier pop freed, and no allocation lies
\* behind the end of its chunk.
MemorySafe == ~fault

\* The open scopes in the order they were opened: the array, then the overflow
\* list from its oldest node.
OpenScopes == stack \o [i \in 1 .. Len(overflow) |-> overflow[Len(overflow) + 1 - i]]

\* The objects that lie before a saved bump position.
Before(scope) ==
    {p \in objs : \E i, j \in DOMAIN chunks :
        /\ p.chunk = chunks[i] /\ scope.chunk = chunks[j]
        /\ i < j \/ (i = j /\ p.off + p.size <= scope.used)}

Ids(ps) == {p.id : p \in ps}

\* Every open scope keeps what was allocated before it was opened: no step
\* frees, cuts off or moves an object that lies before an open scope.
ScopesProtect ==
    [][\A i \in DOMAIN OpenScopes : Before(OpenScopes[i]) \subseteq objs']_vars

Scopes == INSTANCE AllocScopes WITH
    live <- Ids(objs),
    scopes <- [i \in DOMAIN OpenScopes |-> Ids(Before(OpenScopes[i]))]

\* The runtime pushes and pops allocation scopes correctly.
ScopesSpec == Scopes!Spec
=============================================================================
