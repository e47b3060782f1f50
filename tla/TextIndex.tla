----------------------------- MODULE TextIndex -----------------------------
(***************************************************************************)
(* The C runtime's TextIndex.  Hashing and comparing look at the text a    *)
(* handle points to, so two handles of equal text are the same key.        *)
(***************************************************************************)
EXTENDS ProbeTable

CONSTANTS
    Handle,         \* addresses of texts
    TextOf,         \* the text at each address: a number, in text order
    Hash,           \* the 32-bit hash of each text
    Value,          \* values the program stores
    InitialCap      \* the capacity of a new index (64 in the code)

\* An operation's name, the text it was asked about and its result.
NoKey == 0
Result(op, key, r) == [op |-> op, key |-> key, result |-> r]

Text == {TextOf[h] : h \in Handle}

ASSUME IndexAssumption ==
    /\ TextOf \in [Handle -> Nat \ {NoKey}]
    /\ Hash \in [Text -> Nat]
    /\ Value \subseteq Nat
    /\ InitialCap \in Nat /\ InitialCap >= 4

VARIABLES
    entries,    \* the table
    len,        \* the number of keys the index believes it holds
    null,       \* the program's handle is NULL: a set that failed returned it
    answer      \* what the last operation returned

vars == <<entries, len, null, answer>>

Miss == -1

Init ==
    /\ entries = Blank(InitialCap)
    /\ len = 0
    /\ null = FALSE
    /\ answer = Result("text_index_new", NoKey, 0)

-----------------------------------------------------------------------------
text_handle_eq(g, h) == TextOf[g] = TextOf[h]

\* Mutant: a different text with the same hash is taken for the key.
find_entry_HashOnly(table, h) ==
    FirstSlot(table, Hash[TextOf[h]], LAMBDA e : ~e.occupied \/ e.hash = Hash[TextOf[h]])

\* The slot of the key, or the empty slot where it would go; a full table is a
\* fatal error, after which nothing happens.
find_entry(table, h) ==
    FirstSlot(table, Hash[TextOf[h]],
              LAMBDA e : \/ ~e.occupied
                         \/ e.hash = Hash[TextOf[h]] /\ text_handle_eq(e.key, h))

\* Three quarters of the capacity, rounded down, without computing cap * 3.
LoadThreshold(cap) == (cap \div 4) * 3 + ((cap % 4) * 3) \div 4

Rehashed == Moved(entries, Blank(2 * Cap(entries)))

\* The table an insertion goes on with; there is none when calloc fails.
ensure_capacity ==
    IF len < LoadThreshold(Cap(entries)) THEN {entries}
    ELSE {Rehashed}

MayFail == len >= LoadThreshold(Cap(entries))

-----------------------------------------------------------------------------
Store(table, s, h, v) ==
    /\ entries' = [table EXCEPT ![s] = Entry(h, v, Hash[TextOf[h]])]
    /\ len' = IF table[s].occupied THEN len ELSE len + 1

text_index_set(h, v) ==
    /\ ~null
    /\ \E table \in ensure_capacity : \E s \in find_entry(table, h) : Store(table, s, h, v)
    /\ answer' = Result("text_index_set", TextOf[h], 0)
    /\ UNCHANGED null

\* No memory for the larger table: NULL is the index from here on.
text_index_set_fails(h) ==
    /\ ~null /\ MayFail
    /\ null' = TRUE
    /\ answer' = Result("text_index_set", TextOf[h], "NULL")
    /\ UNCHANGED <<entries, len>>

text_index_get_or_insert(h, next) ==
    /\ ~null
    /\ \E table \in ensure_capacity : \E s \in find_entry(table, h) :
         \/ /\ table[s].occupied
            /\ entries' = table
            /\ answer' = Result("text_index_get_or_insert", TextOf[h], table[s].value)
            /\ UNCHANGED len
         \/ /\ ~table[s].occupied
            /\ Store(table, s, h, next)
            /\ answer' = Result("text_index_get_or_insert", TextOf[h], next)
    /\ UNCHANGED null

text_index_get_or_insert_fails(h) ==
    /\ ~null /\ MayFail
    /\ answer' = Result("text_index_get_or_insert", TextOf[h], Miss)
    /\ UNCHANGED <<entries, len, null>>

text_index_get(h) ==
    /\ ~null
    /\ \E s \in find_entry(entries, h) :
         answer' = Result("text_index_get", TextOf[h],
                          IF entries[s].occupied THEN entries[s].value ELSE Miss)
    /\ UNCHANGED <<entries, len, null>>

text_index_contains(h) ==
    /\ ~null
    /\ \E s \in find_entry(entries, h) :
         answer' = Result("text_index_contains", TextOf[h], IF entries[s].occupied THEN 1 ELSE 0)
    /\ UNCHANGED <<entries, len, null>>

\* The keys in the order of their slots, a newline after each one.
text_index_keys ==
    /\ ~null
    /\ answer' = Result("text_index_keys", NoKey,
                        [keys |-> [i \in DOMAIN SlotOrder(entries) |->
                                      TextOf[SlotOrder(entries)[i]]],
                         terminated |-> Used(entries) # {}])
    /\ UNCHANGED <<entries, len, null>>

\* Every operation on a NULL index reports a miss and does nothing.
NullIndex(h) ==
    /\ null
    /\ \/ answer' = Result("text_index_get", TextOf[h], Miss)
       \/ answer' = Result("text_index_contains", TextOf[h], 0)
       \/ answer' = Result("text_index_get_or_insert", TextOf[h], Miss)
       \/ answer' = Result("text_index_set", TextOf[h], "NULL")
       \/ answer' = Result("text_index_keys", NoKey, "NULL")
    /\ UNCHANGED <<entries, len, null>>

Next ==
    \/ \E h \in Handle :
         \/ \E v \in Value : text_index_set(h, v) \/ text_index_get_or_insert(h, v)
         \/ text_index_get(h)
         \/ text_index_contains(h)
         \/ text_index_set_fails(h)
         \/ text_index_get_or_insert_fails(h)
         \/ NullIndex(h)
    \/ text_index_keys

Spec == Init /\ [][Next]_vars

-----------------------------------------------------------------------------
=============================================================================
