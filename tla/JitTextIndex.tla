---------------------------- MODULE JitTextIndex ----------------------------
(***************************************************************************)
(* The TextIndex of the runtime that the in-process (JIT) execution links  *)
(* with.  It hashes and compares the handles themselves.                   *)
(***************************************************************************)
EXTENDS ProbeTable

CONSTANTS
    Handle,         \* addresses of texts
    TextOf,         \* the text at each address: a number, in text order
    HandleHash,     \* the 32-bit hash of each address
    Value,          \* values the program stores
    InitialCap      \* the capacity of a new index (8 in the code)

\* An operation's name, the text it was asked about and its result.
NoKey == 0
Result(op, key, r) == [op |-> op, key |-> key, result |-> r]

Text == {TextOf[h] : h \in Handle}

VARIABLES
    entries,    \* the table
    len,        \* the number of keys
    answer      \* what the last operation returned

vars == <<entries, len, answer>>

Init ==
    /\ entries = Blank(InitialCap)
    /\ len = 0
    /\ answer = Result("text_index_new", NoKey, 0)

-----------------------------------------------------------------------------
\* The slot of the key or the first empty one: none after a whole round.
Probe(table, h) ==
    FirstSlot(table, HandleHash[h],
              LAMBDA e : ~e.occupied \/ (e.hash = HandleHash[h] /\ e.key = h))

Found(table, h) == \E s \in Probe(table, h) : table[s].occupied

Crowded(table) == 4 * len > 3 * Cap(table)

\* Mutant: the entries keep their old slots.
index_grow_Copied(table) ==
    [i \in 0 .. 2 * Cap(table) - 1 |-> IF i \in DOMAIN table THEN table[i] ELSE Empty]
index_grow(table) == Moved(table, Blank(2 * Cap(table)))

\* The table in which the key is found or put.  A key that is there is found before
\* the load is looked at; else the table grows while it is crowded or full.
Room(h) ==
    LET grown == index_grow(entries)
        crowded == Crowded(entries) \/ Probe(entries, h) = {}
    IN  IF ~Found(entries, h) /\ crowded THEN grown ELSE entries

\* Puts or overwrites one key.
Put(table, h, v) ==
    \E s \in Probe(table, h) :
      /\ entries' = [table EXCEPT ![s] = Entry(h, v, HandleHash[h])]
      /\ len' = IF table[s].occupied THEN len ELSE len + 1

text_index_set(h, v) ==
    /\ Put(Room(h), h, v)
    /\ answer' = Result("text_index_set", TextOf[h], 0)

ValueAt(h) == entries[CHOOSE s \in Probe(entries, h) : TRUE].value

text_index_get_or_insert(h, default) ==
    /\ \/ /\ Found(entries, h)
          /\ answer' = Result("text_index_get_or_insert", TextOf[h], ValueAt(h))
          /\ UNCHANGED <<entries, len>>
       \/ /\ ~Found(entries, h)
          /\ Put(Room(h), h, default)
          /\ answer' = Result("text_index_get_or_insert", TextOf[h], default)

\* A miss returns 0.
text_index_get(h) ==
    /\ answer' = Result("text_index_get", TextOf[h], IF Found(entries, h) THEN ValueAt(h) ELSE 0)
    /\ UNCHANGED <<entries, len>>

text_index_contains(h) ==
    /\ answer' = Result("text_index_contains", TextOf[h], IF Found(entries, h) THEN 1 ELSE 0)
    /\ UNCHANGED <<entries, len>>

\* A list of the handles, in the order of their slots.
text_index_keys ==
    /\ answer' = Result("text_index_keys", NoKey, [list |-> SlotOrder(entries)])
    /\ UNCHANGED <<entries, len>>

Next ==
    \/ \E h \in Handle :
         \/ \E v \in Value : text_index_set(h, v) \/ text_index_get_or_insert(h, v)
         \/ text_index_get(h)
         \/ text_index_contains(h)
    \/ text_index_keys

Spec == Init /\ [][Next]_vars

-----------------------------------------------------------------------------
=============================================================================
