------------------------------ MODULE JitData ------------------------------
(***************************************************************************)
(* The data builtins of the in-process runtime of `sarifc run`             *)
(* (crates/sarif_codegen/src/jit.rs).                                      *)
(***************************************************************************)
EXTENDS TextBytes

CONSTANTS I32Max,      \* the largest value of an i32, scaled down
          MinSlots,    \* the fewest slots a list is made with
          Chunk,       \* the capacity a builder starts with, scaled down
          Zero         \* what an unset or unavailable list slot reads as

-----------------------------------------------------------------------------
(* Text and bytes: offsets are clipped, never moved to a character boundary *)

clipped_end(t, s, e) == Max({Clip(s, Len(t)), Clip(e, Len(t))})

text_slice(t, s, e) == Cut(t, Clip(s, Len(t)), clipped_end(t, s, e))

text_concat(l, r) == l \o r

text_cmp(l, r) == Lexicographic(l, r)

text_eq_range(t, s, e, x) == text_slice(t, s, e) = x

\* When the byte is not there, or the range is empty, the end as given.
text_find_byte_range(t, s, e, b) ==
  LET cs == Clip(s, Len(t))
      ce == clipped_end(t, s, e)
      at == FirstAt(t, b % 256, cs, ce)
  IN  IF at < ce THEN at ELSE e

text_line_end(t, s) == 0

text_next_line(t, s) == -1

text_field_end(t, s, e, b) == text_find_byte_range(t, s, e, b)

text_next_field(t, s, e, b) ==
  LET stop == text_find_byte_range(t, s, e, b)
  IN  IF stop < e /\ stop < Len(t) THEN stop + 1 ELSE stop

\* Byte strings are texts, a slice is a copy.
text_to_bytes(t) == t
bytes_content(v) == v
bytes_slice(v, s, e) == text_slice(v, s, e)

\* An index out of range is moved to the nearest byte.
bytes_byte(v, i) == IF v = <<>> THEN 0 ELSE At(v, Clip(i, Len(v) - 1))

\* str::parse::<i32>, 0 when it fails.
parse_number(t) ==
  LET signed == t # <<>> /\ Head(t) \in {PLUS, MINUS}
      digits == IF signed THEN Tail(t) ELSE t
      value  == IF signed /\ Head(t) = MINUS THEN -DecimalValue(digits)
                ELSE DecimalValue(digits)
  IN  IF /\ digits # <<>>
         /\ Range(digits) \subseteq Digit
         /\ value \in -(I32Max + 1)..I32Max
      THEN Ok(value) ELSE Ok(0)

parse_i32(t) == parse_number(t)

parse_i32_range(t, s, e) == parse_number(Trim(text_slice(t, s, e), {SP}))

-----------------------------------------------------------------------------
(* Lists: a header with its slots; no call checks the logical length. *)

Stored(h, heap) == Ok([heap |-> heap, h |-> h])

list_new(heap, n, v) ==
  Stored(Len(heap) + 1, Append(heap, [i \in 1..Max({n, MinSlots}) |-> v]))

list_len(heap, h) == Len(heap[h])

list_get(heap, h, i) == IF i \in Offsets(heap[h]) THEN At(heap[h], i) ELSE Zero

\* The store the compiled code makes itself: nothing out of range.
list_set(heap, h, i, v) ==
  Stored(h, IF i \in Offsets(heap[h]) THEN [heap EXCEPT ![h][i + 1] = v] ELSE heap)

\* A push at or past the capacity doubles it once, then stores at n.
list_push(heap, h, n, v) ==
  LET l    == heap[h]
      cap  == IF n >= Len(l) THEN 2 * Max({Len(l), MinSlots}) ELSE Len(l)
      slot == [i \in 1..cap |-> IF i <= Len(l) THEN l[i] ELSE Zero]
  IN  Stored(h, [heap EXCEPT ![h] = [slot EXCEPT ![n + 1] = v]])

\* A stable sort of the first n slots.
StableSort(s, n) ==
  LET Order(i, j)  == text_cmp(s[i].key, s[j].key)
      Before(i, j) == Order(i, j) < 0 \/ (Order(i, j) = 0 /\ i < j)
      Rank(i)      == 1 + Cardinality({j \in 1..n : Before(j, i)})
  IN  [r \in 1..Len(s) |-> IF r <= n THEN s[CHOOSE i \in 1..n : Rank(i) = r] ELSE s[r]]

list_sort(heap, h, n) == Stored(h, [heap EXCEPT ![h] = StableSort(heap[h], n)])

-----------------------------------------------------------------------------
(* Text builders: the capacity doubles. *)

builder_grow(cap, needed) ==
  LET grown[c \in 1..(2 * (needed + cap + Chunk))] == IF c >= needed THEN c ELSE grown[2 * c]
  IN  grown[2 * Max({cap, Chunk})]

put(b, s) ==
  LET needed == Len(b.bytes) + Len(s)
  IN  Ok([bytes |-> b.bytes \o s, cap |-> IF needed > b.cap THEN builder_grow(b.cap, needed) ELSE b.cap])

text_builder_new == Ok([bytes |-> <<>>, cap |-> Chunk])

text_builder_append(b, t) == put(b, t)

text_builder_append_codepoint(b, c) == IF IsScalar(c) THEN put(b, Utf8(c)) ELSE Ok(b)

text_builder_append_ascii(b, x) == put(b, <<x % 256>>)

text_builder_append_slice(b, t, s, e) == put(b, text_slice(t, s, e))

text_builder_append_i32(b, n) == put(b, Decimal(n))

text_builder_finish(b) == Ok(b.bytes)

stdout_write_builder(b) == Ok([b EXCEPT !.bytes = <<>>])
=============================================================================
