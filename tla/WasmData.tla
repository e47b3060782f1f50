------------------------------ MODULE WasmData ------------------------------
(***************************************************************************)
(* The data builtins of the Wasm runtime                                   *)
(* (crates/sarif_codegen/src/wasm/runtime_gen.rs, the same instructions as *)
(* runtime_text.wat, runtime_builder.wat and runtime_list.wat).  A refusal *)
(* is a trap.                                                              *)
(***************************************************************************)
EXTENDS TextBytes

CONSTANTS I64Max,      \* the largest value of an i64, scaled down
          FirstCap,    \* the capacity of a list after its first push
          Chunk,       \* the capacity of a builder's first buffer, scaled down
          Junk         \* what a slot nothing was stored in holds

-----------------------------------------------------------------------------
(* Text and bytes *)

is_ascii_space(b) == b \in {SP, LF, CR, TAB}

clamp_start(t, i) == Min({j \in Clip(i, Len(t))..Len(t) : Boundary(t, j)})

clamp_end(t, i) == Max({j \in 0..Clip(i, Len(t)) : Boundary(t, j)})

text_slice(t, s, e) ==
  LET cs == clamp_start(t, s)
      ce == clamp_end(t, e)
  IN  IF ce <= cs THEN <<>> ELSE Cut(t, cs, ce)

text_concat(l, r) == l \o r

text_byte(t, i) == IF i \in Offsets(t) THEN At(t, i) ELSE 0

text_cmp(l, r) == Lexicographic(l, r)

text_eq(l, r) == Len(l) = Len(r) /\ \A i \in Offsets(l) : At(l, i) = At(r, i)

text_eq_range(t, s, e, x) == text_eq(text_slice(t, s, e), x)

\* The end is not raised to the start, and the byte is compared as a word.
text_find_byte_range(t, s, e, b) == FirstAt(t, b, clamp_start(t, s), clamp_end(t, e))

\* A carriage return before the line feed is cut off wherever the line starts.
text_line_end(t, s) ==
  LET stop == text_find_byte_range(t, s, Len(t), LF)
  IN  IF stop > 0 /\ At(t, stop - 1) = CR THEN stop - 1 ELSE stop

\* One past the end of the line, which is the carriage return if there is one.
text_next_line(t, s) ==
  LET stop == text_line_end(t, s)
  IN  IF stop < Len(t) THEN stop + 1 ELSE stop

text_field_end(t, s, e, b) == text_find_byte_range(t, s, e, b)

text_next_field_Stays(t, s, e, b) == text_field_end(t, s, e, b)

text_next_field(t, s, e, b) ==
  LET stop == text_field_end(t, s, e, b)
  IN  IF e < 0 \/ stop < e THEN stop + 1 ELSE stop

\* Byte strings are texts; a slice of bytes is a copy.
text_to_bytes(t) == t
bytes_content(v) == v

bytes_slice(v, s, e) ==
  LET cs == Clip(s, Len(v))
      ce == Clip(e, Len(v))
  IN  IF ce <= cs THEN <<>> ELSE Cut(v, cs, ce)

bytes_find_byte_range(v, s, e, b) == FirstAt(v, b, Clip(s, Len(v)), Clip(e, Len(v)))

\* Trimmed, an optional sign, digits, and no check of the range: the value
\* wraps as a word.
parse_i32(t) ==
  LET trimmed == Trim(t, {b \in Range(t) : is_ascii_space(b)})
      signed  == trimmed # <<>> /\ Head(trimmed) \in {PLUS, MINUS}
      digits  == IF signed THEN Tail(trimmed) ELSE trimmed
      value   == IF signed /\ Head(trimmed) = MINUS THEN -DecimalValue(digits)
                 ELSE DecimalValue(digits)
      words   == 2 * (I64Max + 1)
  IN  IF digits = <<>> \/ ~(Range(digits) \subseteq Digit) THEN Fault
      ELSE Ok(((value + I64Max + 1) % words) - I64Max - 1)

parse_i32_range(t, s, e) == parse_i32(text_slice(t, s, e))

-----------------------------------------------------------------------------
(* Lists: a header of capacity and data pointer in linear memory. *)

Stored(h, heap) == Ok([heap |-> heap, h |-> h])

list_new(heap, n, v) == Stored(Len(heap) + 1, Append(heap, [i \in 1..n |-> v]))

list_len(heap, h) == Len(heap[h])

list_get(heap, h, i) == IF i \in Offsets(heap[h]) THEN Ok(At(heap[h], i)) ELSE Fault

list_set(heap, h, i, v) ==
  IF i \in Offsets(heap[h]) THEN Stored(h, [heap EXCEPT ![h][i + 1] = v]) ELSE Fault

list_push(heap, h, n, v) ==
  LET l   == heap[h]
      cap == IF l = <<>> THEN FirstCap ELSE 2 * Len(l)
  IN  IF n \in Offsets(l) THEN Stored(h, [heap EXCEPT ![h][n + 1] = v])
      ELSE IF n # Len(l) THEN Fault
      ELSE Stored(h, [heap EXCEPT ![h] =
             [i \in 1..cap |-> IF i <= n THEN l[i] ELSE IF i = n + 1 THEN v ELSE Junk]])

Swap(s, i, j) == [s EXCEPT ![i] = s[j], ![j] = s[i]]

\* Selection sort of the first n slots: each round brings the first of the
\* least remaining elements forward by a swap.
SelectionSort(s, n) ==
  LET Least(q, i) == CHOOSE m \in i..n : /\ \A k \in i..n : text_cmp(q[m].key, q[k].key) <= 0
                                         /\ \A k \in i..(m - 1) : text_cmp(q[k].key, q[m].key) > 0
      round[i \in 0..n] == IF i = 0 THEN s
                           ELSE Swap(round[i - 1], i, Least(round[i - 1], i))
  IN  round[Max({0, n - 1})]

list_sort(heap, h, n) == Stored(h, [heap EXCEPT ![h] = SelectionSort(heap[h], n)])

-----------------------------------------------------------------------------
(* Text builders: the buffer is made at the first append and doubles. *)

text_builder_reserve(b, n) ==
  LET needed == Len(b.bytes) + n
  IN  IF needed <= b.cap THEN b
      ELSE [b EXCEPT !.cap = Max({needed, IF b.cap = 0 THEN Chunk ELSE 2 * b.cap})]

put(b, s) == Ok([text_builder_reserve(b, Len(s)) EXCEPT !.bytes = b.bytes \o s])

text_builder_new == Ok([bytes |-> <<>>, cap |-> 0])

text_builder_append(b, t) == put(b, t)

text_builder_append_codepoint(b, c) == IF IsScalar(c) THEN put(b, Utf8(c)) ELSE Fault

text_builder_append_ascii(b, x) == IF x \in 0..127 THEN put(b, <<x>>) ELSE Fault

text_builder_append_slice(b, t, s, e) ==
  IF 0 <= s /\ s <= e /\ e <= Len(t) THEN put(b, Cut(t, s, e)) ELSE Fault

\* The digits are produced while the number is not 0, so 0 has none.
text_builder_append_i32(b, n) == put(b, IF n = 0 THEN <<>> ELSE Decimal(n))

text_builder_finish(b) == Ok(b.bytes)

stdout_write_builder(b) == Ok([b EXCEPT !.bytes = <<>>])
=============================================================================
