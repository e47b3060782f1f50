--------------------------- MODULE WasmTextIndex ---------------------------
(***************************************************************************)
(* The TextIndex of the Wasm runtime.  It is the C runtime's table with    *)
(* two differences that matter: the table lives in the bump-allocated      *)
(* arena, and the larger table made when it grows is not cleared.          *)
(***************************************************************************)
EXTENDS ProbeTable

CONSTANTS
    Handle,         \* addresses of texts
    TextOf,         \* the text at each address: a number, in text order
    Hash,           \* the 32-bit hash of each text
    Value,          \* values the program stores
    InitialCap      \* the capacity of a new index (8 in the code)

\* An operation's name, the text it was asked about and its result.
NoKey == 0
Result(op, key, r) == [op |-> op, key |-> key, result |-> r]

Text == {TextOf[h] : h \in Handle}

VARIABLES
    entries,    \* the table
    len,        \* the number of keys the index believes it holds
    reused,     \* the arena hands out memory that was used before
    answer      \* what the last operation returned

vars == <<entries, len, reused, answer>>

Miss == -1

\* A slot of memory that holds something else: it seems to be in use.
Leftover == [occupied |-> TRUE, key |-> -1, value |-> 0, hash |-> -1]

\* A new index is cleared slot by slot.
Init ==
    /\ entries = Blank(InitialCap)
    /\ len = 0
    /\ reused = FALSE
    /\ answer = Result("text_index_new", NoKey, 0)

-----------------------------------------------------------------------------
Home(table, h) == Hash[TextOf[h]] % Cap(table)

\* The slot of the key, or the empty slot where it would go; after a whole round
\* the home slot, whatever it holds.
find_entry(table, h) ==
    LET found == FirstSlot(table, Hash[TextOf[h]],
                           LAMBDA e : \/ ~e.occupied
                                      \/ e.hash = Hash[TextOf[h]] /\ TextOf[e.key] = TextOf[h])
    IN  IF found = {} THEN {Home(table, h)} ELSE found

\* What the arena may return for a table of this capacity.  Leftovers that would
\* keep the rehash from ending are not considered.
alloc_table(cap) ==
    {[i \in 0 .. cap - 1 |-> IF i \in left THEN Leftover ELSE Empty] :
        left \in IF reused
                 THEN {s \in SUBSET (0 .. cap - 1) : Cardinality(s) + len <= cap}
                 ELSE {{}}}

Roomy(cap) == len * 4 < cap * 3

ensure_capacity ==
    IF Roomy(Cap(entries)) THEN {entries}
    ELSE {Moved(entries, fresh) : fresh \in alloc_table(2 * Cap(entries))}

-----------------------------------------------------------------------------
\* A key that is there keeps its handle and gets the new value.
Store(table, s, h, v) ==
    \/ /\ table[s].occupied
       /\ entries' = [table EXCEPT ![s] = [@ EXCEPT !.value = v]]
       /\ UNCHANGED len
    \/ /\ ~table[s].occupied
       /\ entries' = [table EXCEPT ![s] = Entry(h, v, Hash[TextOf[h]])]
       /\ len' = len + 1

text_index_set(h, v) ==
    /\ \E table \in ensure_capacity : \E s \in find_entry(table, h) : Store(table, s, h, v)
    /\ answer' = Result("text_index_set", TextOf[h], 0)
    /\ UNCHANGED reused

text_index_get_or_insert(h, default) ==
    /\ \E table \in ensure_capacity : \E s \in find_entry(table, h) :
         \/ /\ table[s].occupied
            /\ entries' = table
            /\ answer' = Result("text_index_get_or_insert", TextOf[h], table[s].value)
            /\ UNCHANGED len
         \/ /\ ~table[s].occupied
            /\ Store(table, s, h, default)
            /\ answer' = Result("text_index_get_or_insert", TextOf[h], default)
    /\ UNCHANGED reused

text_index_get(h) ==
    /\ \E s \in find_entry(entries, h) :
         answer' = Result("text_index_get", TextOf[h],
                          IF entries[s].occupied THEN entries[s].value ELSE Miss)
    /\ UNCHANGED <<entries, len, reused>>

text_index_contains(h) ==
    /\ \E s \in find_entry(entries, h) :
         answer' = Result("text_index_contains", TextOf[h], IF entries[s].occupied THEN 1 ELSE 0)
    /\ UNCHANGED <<entries, len, reused>>

\* The program closes a scope in which it allocated: the memory above the
\* restored bump pointer is handed out again as it is.
alloc_pop ==
    /\ ~reused
    /\ reused' = TRUE
    /\ UNCHANGED <<entries, len, answer>>

Next ==
    \/ \E h \in Handle :
         \/ \E v \in Value : text_index_set(h, v) \/ text_index_get_or_insert(h, v)
         \/ text_index_get(h)
         \/ text_index_contains(h)
    \/ alloc_pop

Spec == Init /\ [][Next]_vars

-----------------------------------------------------------------------------
=============================================================================
