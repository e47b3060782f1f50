------------------------------ MODULE TextMap ------------------------------
(***************************************************************************)
(* What a TextIndex promises: the interpreter, which keeps the index as a  *)
(* map from text to integers, is the reference every backend must match.   *)
(* The result of the last operation is part of the state, so that an       *)
(* implementation must give the same answers.                              *)
(***************************************************************************)
EXTENDS Integers, FiniteSets

CONSTANTS Text, Value

VARIABLES map, answer

\* A key that is not in the map.
Miss == -1

\* An operation's name, the text it was asked about and its result.
NoKey == 0
Result(op, key, r) == [op |-> op, key |-> key, result |-> r]

Init == map = [t \in {} |-> Miss] /\ answer = Result("text_index_new", NoKey, 0)

Lookup(t) == IF t \in DOMAIN map THEN map[t] ELSE Miss

\* The map with v at t.
Put(t, v) == [u \in DOMAIN map \cup {t} |-> IF u = t THEN v ELSE map[u]]

text_index_get(t) ==
    /\ answer' = Result("text_index_get", t, Lookup(t))
    /\ UNCHANGED map

text_index_contains(t) ==
    /\ answer' = Result("text_index_contains", t, IF t \in DOMAIN map THEN 1 ELSE 0)
    /\ UNCHANGED map

text_index_get_or_insert(t, next) ==
    /\ answer' = Result("text_index_get_or_insert", t, IF t \in DOMAIN map THEN map[t] ELSE next)
    /\ map' = IF t \in DOMAIN map THEN map ELSE Put(t, next)

text_index_set(t, v) ==
    /\ answer' = Result("text_index_set", t, 0)
    /\ map' = Put(t, v)

\* A set of texts in text order.
InOrder(texts) ==
    [i \in 1 .. Cardinality(texts) |->
        CHOOSE t \in texts : Cardinality({u \in texts : u <= t}) = i]

\* The keys in the order of their text (a text is a number here), joined by
\* newlines: no newline follows the last one.
text_index_keys ==
    /\ answer' = Result("text_index_keys", NoKey,
                        [keys |-> InOrder(DOMAIN map), terminated |-> FALSE])
    /\ UNCHANGED map

\* A backend that is out of memory may leave a request undone.
Refuse(t) ==
    /\ answer' = Result("refused", t, 0)
    /\ UNCHANGED map

Next ==
    \/ \E t \in Text :
         \/ text_index_get(t)
         \/ text_index_contains(t)
         \/ \E v \in Value : text_index_get_or_insert(t, v) \/ text_index_set(t, v)
         \/ Refuse(t)
    \/ text_index_keys

Spec == Init /\ [][Next]_<<map, answer>>
=============================================================================
