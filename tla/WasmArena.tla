----------------------------- MODULE WasmArena ------------------------------
(***************************************************************************)
(* The scoped arena of the Wasm backend: $alloc, $__sarif_alloc_push and   *)
(* $__sarif_alloc_pop of wasm/preamble_funcs.wat, which                    *)
(* wasm/runtime_gen.rs emits in binary form.  A bump pointer moves through *)
(* linear memory; the saved pointers of the open scopes are i32 words at   *)
(* addresses 0, 4, 8, ... of the same memory.  Where the heap starts is a  *)
(* constant of the module: HeapBase.                                       *)
(***************************************************************************)
EXTENDS Integers, Sequences

CONSTANTS
    Object,         \* names for allocated objects
    Size,           \* the sizes programs ask for
    HeapBase,       \* initial value of the global heap_ptr
    StackDepth,     \* the limit $__sarif_alloc_push compares with (256)
    Word,           \* 2^32: i32 arithmetic is modulo Word
    Page,           \* bytes in a page of linear memory (2^16)
    MaxPages,       \* how far the host lets memory grow
    Junk            \* values a program may leave in the memory of an object

VARIABLES
    heap_ptr,       \* global $heap_ptr
    depth,          \* global $alloc_stack_depth
    saved,          \* the words at 0, 4, 8, ...: the saved heap pointers
    pages,          \* memory.size
    objs,           \* where the objects the program was given lie
    lost,           \* objects whose memory something else has written to
    trapped         \* unreachable was executed

vars == <<heap_ptr, depth, saved, pages, objs, lost, trapped>>

Align(n) == (n \div 8) * 8

Init ==
    /\ heap_ptr = HeapBase
    /\ depth = 0
    /\ saved = [k \in 0 .. StackDepth - 1 |-> 0]
    /\ pages = 1
    /\ objs = {}
    /\ lost = {}
    /\ trapped = FALSE

Trap ==
    /\ trapped' = TRUE
    /\ UNCHANGED <<heap_ptr, depth, saved, pages, objs, lost>>

\* What memory.size << 16 is as an i32.
MemoryEnd == (pages * Page) % Word

PagesFor(end) == ((((end - MemoryEnd) % Word) + (Page - 1)) % Word) \div Page

Grow(end) == IF end > MemoryEnd THEN pages + PagesFor(end) ELSE pages

\* An object of no bytes is nowhere and has nothing to lose.
Placed(o, ptr, size) ==
    IF size = 0 THEN {} ELSE {[id |-> o, at |-> ptr, size |-> size]}

alloc(o, size) ==
    LET ptr == Align((heap_ptr + 7) % Word)
        new_end == (ptr + size) % Word
    IN  /\ ~trapped
        /\ \A p \in objs : p.id # o
        /\ IF Grow(new_end) > MaxPages THEN Trap
           ELSE /\ pages' = Grow(new_end)
                /\ heap_ptr' = new_end
                /\ objs' = objs \cup Placed(o, ptr, size)
                /\ lost' = lost \ {o}
                /\ UNCHANGED <<depth, saved, trapped>>

\* Object p and the word of scope k share a byte.
Shares(p, k) == p.at < 4 * k + 4 /\ 4 * k < p.at + p.size

sarif_alloc_push ==
    /\ ~trapped
    /\ IF depth >= StackDepth THEN Trap
       ELSE /\ saved' = [saved EXCEPT ![depth] = heap_ptr]
            /\ depth' = depth + 1
            /\ lost' = lost \cup {p.id : p \in {q \in objs : Shares(q, depth)}}
            /\ UNCHANGED <<heap_ptr, pages, objs, trapped>>

\* The objects that lie below a saved pointer.
Below(ptr) == {p \in objs : p.at + p.size <= ptr}

Rewind_Nowhere(ptr) == UNCHANGED <<heap_ptr, objs>>
Rewind(ptr) ==
    /\ heap_ptr' = ptr
    /\ objs' = Below(ptr)

sarif_alloc_pop ==
    /\ ~trapped
    /\ \/ /\ depth = 0
          /\ UNCHANGED vars
       \/ /\ depth # 0
          /\ depth' = depth - 1
          /\ Rewind(saved[depth - 1])
          /\ UNCHANGED <<saved, pages, lost, trapped>>

\* The program writes to an object it holds, and so to any word under it.
Store(p, v) ==
    /\ ~trapped
    /\ saved' = [k \in DOMAIN saved |-> IF Shares(p, k) THEN v ELSE saved[k]]
    /\ UNCHANGED <<heap_ptr, depth, pages, objs, lost, trapped>>

Next ==
    \/ \E o \in Object, size \in Size : alloc(o, size)
    \/ sarif_alloc_push
    \/ sarif_alloc_pop
    \/ \E p \in objs, v \in Junk : Store(p, v)
    \/ trapped /\ UNCHANGED vars

Spec == Init /\ [][Next]_vars

-----------------------------------------------------------------------------

\* Objects lie inside memory, below the bump pointer, and share no byte.
Disjoint ==
    /\ \A p \in objs : p.at + p.size <= pages * Page /\ p.at + p.size <= heap_ptr
    /\ \A p, q \in objs : p = q \/ p.at + p.size <= q.at \/ q.at + q.size <= p.at

Ids(ps) == {p.id : p \in ps}

Scopes == INSTANCE AllocScopes WITH
    live <- Ids(objs) \ lost,
    scopes <- [i \in 1 .. depth |-> Ids(Below(saved[i - 1])) \ lost]

\* The Wasm arena gives back what a scope allocated and nothing else.
ScopesSpec == Scopes!Spec
=============================================================================
