----------------------------- MODULE ProbeTable -----------------------------
(***************************************************************************)
(* Open addressing with linear probing, as the three runtimes' TextIndex   *)
(* tables share it.  A table maps slot numbers to entries; an entry in use *)
(* holds the handle (address) of its key, the value and the key's hash.    *)
(***************************************************************************)
EXTENDS Integers, FiniteSets

Empty == [occupied |-> FALSE]
Entry(handle, value, hash) ==
    [occupied |-> TRUE, key |-> handle, value |-> value, hash |-> hash]

Blank(cap) == [i \in 0 .. cap - 1 |-> Empty]
Cap(table) == Cardinality(DOMAIN table)
Used(table) == {i \in DOMAIN table : table[i].occupied}

\* The first slot, from the hash's home slot on, at which P holds: none when a
\* whole round finds no such slot.
FirstSlot(table, hash, P(_)) ==
    LET slot(n) == (hash + n) % Cap(table)
        hits == {n \in 0 .. Cap(table) - 1 : P(table[slot(n)])}
    IN  IF hits = {} THEN {} ELSE {slot(CHOOSE n \in hits : \A m \in hits : n <= m)}

\* An entry in use goes to the first empty slot of its probe.
Placed(table, e) ==
    IF ~e.occupied THEN table
    ELSE [table EXCEPT
            ![CHOOSE s \in FirstSlot(table, e.hash, LAMBDA f : ~f.occupied) : TRUE] = e]

\* The entries of a table, in slot order, put into a fresh one.
Moved(table, fresh) ==
    LET moved[i \in 0 .. Cap(table)] ==
          IF i = 0 THEN fresh ELSE Placed(moved[i - 1], table[i - 1])
    IN  moved[Cap(table)]

\* The elements of a finite set of numbers, the least one first.
Ascending(S) ==
    [i \in 1 .. Cardinality(S) |-> CHOOSE n \in S : Cardinality({m \in S : m <= n}) = i]

\* The keys, as handles, in the order of their slots.
SlotOrder(table) ==
    [i \in 1 .. Cardinality(Used(table)) |-> table[Ascending(Used(table))[i]].key]

\* The map a table stands for, when TextOf gives the text at each handle.
MapOf(table, TextOf) ==
    [t \in {TextOf[table[i].key] : i \in Used(table)} |->
        table[CHOOSE i \in Used(table) : TextOf[table[i].key] = t].value]
=============================================================================
