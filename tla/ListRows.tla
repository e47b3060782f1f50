------------------------------ MODULE ListRows ------------------------------
(***************************************************************************)
(* A program with list variables run on one of the backends.  It keeps the *)
(* length of each list in a variable of its own and passes it to list_push *)
(* and to the sorts, as the language reference and the examples do; the    *)
(* runtime knows only capacities.                                          *)
(***************************************************************************)
EXTENDS DataBackends

CONSTANTS Lists, Elements, MaxRows, NoRow

VARIABLES heap,        \* the runtime's lists, each the sequence of its slots
          handle,      \* the handle in each list variable, 0 before it is set
          len,         \* the program's length variable of each list
          got          \* the row read last

listVars == <<heap, handle, len, got>>

ListInit ==
  /\ heap = EmptyHeap(backend)
  /\ handle = [l \in Lists |-> 0]
  /\ len = [l \in Lists |-> 0]
  /\ got = NoRow

\* The result of a builtin becomes the list variable.
Take(l, r) ==
  /\ ~r.fault
  /\ heap' = r.value.heap
  /\ handle' = [handle EXCEPT ![l] = r.value.h]

ListNew(l, n, v) ==
  /\ handle[l] = 0
  /\ Take(l, list_new(backend, heap, n, v))
  /\ len' = [len EXCEPT ![l] = n]
  /\ UNCHANGED <<backend, got>>

\* list_from of an empty array
ListFrom(l) ==
  /\ handle[l] = 0 /\ backend \in {"interp", "native"}
  /\ Take(l, list_from(backend, heap, <<>>))
  /\ UNCHANGED <<backend, len, got>>

ListPush(l, v) ==
  /\ handle[l] # 0 /\ len[l] < MaxRows[l]
  /\ Take(l, list_push(backend, heap, handle[l], len[l], v))
  /\ len' = [len EXCEPT ![l] = @ + 1]
  /\ UNCHANGED <<backend, got>>

ListSet(l, i, v) ==
  /\ handle[l] # 0 /\ i < len[l]
  /\ Take(l, list_set(backend, heap, handle[l], i, v))
  /\ UNCHANGED <<backend, len, got>>

ListGet(l, i) ==
  /\ handle[l] # 0 /\ i < len[l]
  /\ LET r == list_get(backend, heap, handle[l], i) IN ~r.fault /\ got' = r.value
  /\ UNCHANGED <<backend, heap, handle, len>>

ListSort(l) ==
  /\ handle[l] # 0
  /\ \E r \in list_sort(backend, heap, handle[l], len[l]) : Take(l, r)
  /\ UNCHANGED <<backend, len, got>>

ListNext ==
  \E l \in Lists :
    \/ \E n \in 0..1, v \in Elements : ListNew(l, n, v)
    \/ ListFrom(l)
    \/ \E v \in Elements : ListPush(l, v)
    \/ \E i \in 0..(MaxRows[l] - 1), v \in Elements : ListSet(l, i, v)
    \/ \E i \in 0..(MaxRows[l] - 1) : ListGet(l, i)
    \/ ListSort(l)

-----------------------------------------------------------------------------
\* The rows of a list: the first len slots of what its handle names.
rowsOf == [l \in Lists |-> IF handle[l] = 0 THEN <<>> ELSE SubSeq(heap[handle[l]], 1, len[l])]

R == INSTANCE Rows WITH rows <- rowsOf
=============================================================================
