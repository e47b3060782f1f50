-------------------------------- MODULE Rows --------------------------------
(***************************************************************************)
(* What the list builtins promise a program that keeps the length of each  *)
(* list itself, `rows = list_push(rows, len, x); len = len + 1`: a list is *)
(* the sequence of its rows, an operation on one list changes no other,    *)
(* and a sort gives some sorted arrangement of the same rows.              *)
(***************************************************************************)
EXTENDS TextBytes

CONSTANTS Lists,       \* the list variables of the program
          Elements,    \* the rows, records with a text as their key
          MaxRows,     \* bound on the rows of each list
          NoRow        \* the value read before the first read

VARIABLES rows,        \* the rows of each list
          got          \* the row read last

rowsVars == <<rows, got>>

Init == rows = [l \in Lists |-> <<>>] /\ got = NoRow

\* let mut l = list_new(n, v)
Make(l, n, v) ==
  /\ rows' = [rows EXCEPT ![l] = [i \in 1..n |-> v]]
  /\ UNCHANGED got

\* l = list_push(l, len, v); len = len + 1
Push(l, v) ==
  /\ Len(rows[l]) < MaxRows[l]
  /\ rows' = [rows EXCEPT ![l] = Append(@, v)]
  /\ UNCHANGED got

\* l = list_set(l, i, v)
Store(l, i, v) ==
  /\ i \in 1..Len(rows[l])
  /\ rows' = [rows EXCEPT ![l][i] = v]
  /\ UNCHANGED got

\* list_get(l, i)
Read(l, i) ==
  /\ i \in 1..Len(rows[l])
  /\ got' = rows[l][i]
  /\ UNCHANGED rows

Sorted(s) == \A i \in 1..(Len(s) - 1) : Lexicographic(s[i].key, s[i + 1].key) <= 0

Count(s, x) == Cardinality({i \in 1..Len(s) : s[i] = x})

\* l = list_sort_by_field(l, len)
Sort(l) ==
  /\ rows' = [rows EXCEPT ![l] = rows'[l]]
  /\ Sorted(rows'[l])
  /\ \A x \in Range(rows[l]) \cup Range(rows'[l]) : Count(rows'[l], x) = Count(rows[l], x)
  /\ UNCHANGED got

Next ==
  \E l \in Lists :
    \/ \E n \in 0..MaxRows[l], v \in Elements : Make(l, n, v)
    \/ \E v \in Elements : Push(l, v)
    \/ \E i \in 1..MaxRows[l], v \in Elements : Store(l, i, v)
    \/ \E i \in 1..MaxRows[l] : Read(l, i)
    \/ Sort(l)

Spec == Init /\ [][Next]_rowsVars
=============================================================================
