----------------------------- MODULE InterpData -----------------------------
(***************************************************************************)
(* The data builtins of the MIR interpreter                                *)
(* (crates/sarif_codegen/src/lib.rs).  Texts are Rust strings, lists and   *)
(* builders are vectors of the interpreter, and a builtin that refuses its *)
(* arguments ends the run with a RuntimeError.                             *)
(***************************************************************************)
EXTENDS TextBytes

CONSTANTS I64Max,      \* the largest value of an i64, scaled down
          FirstCap,    \* the capacity of a list after its first push
          Zero         \* what a list read out of range gives

-----------------------------------------------------------------------------
(* Text and bytes *)

\* The first boundary at or after the clipped offset.
clamp_text_slice_start(t, i) ==
  Min({j \in Clip(i, Len(t))..Len(t) : Boundary(t, j)})

\* The last boundary at or before the clipped offset.
clamp_text_slice_end(t, i) ==
  Max({j \in 0..Clip(i, Len(t)) : Boundary(t, j)})

clamped_end(t, s, e) ==
  Max({clamp_text_slice_start(t, s), clamp_text_slice_end(t, e)})

text_slice(t, s, e) == Cut(t, clamp_text_slice_start(t, s), clamped_end(t, s, e))

text_concat(l, r) == l \o r

text_byte(t, i) == IF i \in Offsets(t) THEN At(t, i) ELSE 0

text_cmp(l, r) == Lexicographic(l, r)

text_eq_range(t, s, e, x) == text_slice(t, s, e) = x

text_find_byte_range(t, s, e, b) ==
  FirstAt(t, b % 256, clamp_text_slice_start(t, s), clamped_end(t, s, e))

text_line_end(t, s) ==
  LET start == clamp_text_slice_start(t, s)
      stop  == FirstAt(t, LF, start, Len(t))
  IN  IF stop > start /\ At(t, stop - 1) = CR THEN stop - 1 ELSE stop

text_next_line(t, s) ==
  LET stop == FirstAt(t, LF, clamp_text_slice_start(t, s), Len(t))
  IN  IF stop < Len(t) THEN stop + 1 ELSE stop

text_field_end(t, s, e, b) == text_find_byte_range(t, s, e, b)

text_next_field(t, s, e, b) ==
  LET stop == text_find_byte_range(t, s, e, b)
  IN  IF stop < clamped_end(t, s, e) THEN stop + 1 ELSE stop

\* A byte string is owned, or a view of the shared copy of an owned one.
bytes_content(v) == Cut(v.data, v.offset, v.offset + v.len)

text_to_bytes(t) == [view |-> FALSE, data |-> t, offset |-> 0, len |-> Len(t)]

bytes_slice_OfData(v, s, e) ==
  LET cs == Clip(s, v.len)
      ce == Max({cs, Clip(e, v.len)})
  IN  [view |-> TRUE, data |-> v.data, offset |-> cs, len |-> ce - cs]

bytes_slice(v, s, e) ==
  LET cs == Clip(s, v.len)
      ce == Max({cs, Clip(e, v.len)})
  IN  [view |-> TRUE, data |-> v.data, offset |-> v.offset + cs, len |-> ce - cs]

bytes_byte(v, i) ==
  IF i >= 0 /\ i < v.len THEN At(v.data, v.offset + i) ELSE 0

bytes_find_byte_range(v, s, e, b) ==
  LET cs == Clip(s, v.len)
      ce == Max({cs, Clip(e, v.len)})
  IN  FirstAt(v.data, b % 256, v.offset + cs, v.offset + ce) - v.offset

bytes_next_field(v, s, e, b) ==
  LET stop == bytes_find_byte_range(v, s, e, b)
  IN  IF stop < Max({Clip(s, v.len), Clip(e, v.len)}) THEN stop + 1 ELSE stop

\* str::parse::<i64>: an optional sign, digits, and the range of an i64.
parse_number(t) ==
  LET signed == t # <<>> /\ Head(t) \in {PLUS, MINUS}
      digits == IF signed THEN Tail(t) ELSE t
      value  == IF signed /\ Head(t) = MINUS THEN -DecimalValue(digits)
                ELSE DecimalValue(digits)
  IN  IF /\ digits # <<>>
         /\ Range(digits) \subseteq Digit
         /\ value \in -(I64Max + 1)..I64Max
      THEN Ok(value) ELSE Fault

parse_i32(t) == parse_number(Trim(t, {SP, TAB, LF, CR}))

parse_i32_range(t, s, e) == parse_i32(text_slice(t, s, e))

-----------------------------------------------------------------------------
(* Lists: self.lists holds one vector per list, a handle is its position   *)
(* (numbered from 1 here) and never changes.  A result carries the new     *)
(* vectors and the handle.                                                 *)

Stored(h, heap) == Ok([heap |-> heap, h |-> h])

list_new(heap, n, v) ==
  IF n < 0 THEN Fault ELSE Stored(Len(heap) + 1, Append(heap, [i \in 1..n |-> v]))

list_from(heap, s) == Stored(Len(heap) + 1, Append(heap, s))

list_len(heap, h) == Len(heap[h])

list_get(heap, h, i) == IF i \in Offsets(heap[h]) THEN At(heap[h], i) ELSE Zero

list_set(heap, h, i, v) ==
  Stored(h, IF i \in Offsets(heap[h]) THEN [heap EXCEPT ![h][i + 1] = v] ELSE heap)

\* A list that is full doubles, its new slots filled with the pushed value.
list_push(heap, h, n, v) ==
  LET l   == heap[h]
      cap == IF n = 0 THEN FirstCap ELSE 2 * n
  IN  IF n < 0 \/ n > Len(l) THEN Fault
      ELSE IF n < Len(l) THEN Stored(h, [heap EXCEPT ![h][n + 1] = v])
      ELSE Stored(h, [heap EXCEPT ![h] = [i \in 1..cap |-> IF i <= n THEN l[i] ELSE v]])

\* The stable sort of the first n elements by their keys.
StableSort(s, n) ==
  LET Order(i, j)  == text_cmp(s[i].key, s[j].key)
      Before(i, j) == Order(i, j) < 0 \/ (Order(i, j) = 0 /\ i < j)
      Rank(i)      == 1 + Cardinality({j \in 1..n : Before(j, i)})
  IN  [r \in 1..Len(s) |-> IF r <= n THEN s[CHOOSE i \in 1..n : Rank(i) = r] ELSE s[r]]

list_sort(heap, h, n) ==
  IF n < 0 \/ n > Len(heap[h]) THEN Fault
  ELSE Stored(h, [heap EXCEPT ![h] = StableSort(heap[h], n)])

-----------------------------------------------------------------------------
(* Text builders: a growing vector of bytes. *)

text_builder_new == Ok(<<>>)

text_builder_append(b, t) == Ok(b \o t)

text_builder_append_codepoint(b, c) == IF IsScalar(c) THEN Ok(b \o Utf8(c)) ELSE Fault

text_builder_append_ascii(b, x) == IF x \in 0..127 THEN Ok(Append(b, x)) ELSE Fault

text_builder_append_slice(b, t, s, e) ==
  IF 0 <= s /\ s <= e /\ e <= Len(t) THEN Ok(b \o Cut(t, s, e)) ELSE Fault

text_builder_append_i32(b, n) == Ok(b \o Decimal(n))

\* The bytes go to the output, if they are a text, and the builder starts again.
stdout_write_builder(b) == IF WellFormed(b) THEN Ok(<<>>) ELSE Fault

\* The bytes must be a text by then: a slice may have split a character.
text_builder_finish(b) == IF WellFormed(b) THEN Ok(b) ELSE Fault
=============================================================================
