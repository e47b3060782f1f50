----------------------------- MODULE NativeData -----------------------------
(***************************************************************************)
(* The data builtins of the native runtime (runtime/sarif_runtime.c).      *)
(* A refusal is a NULL result that the compiled program goes on with.      *)
(***************************************************************************)
EXTENDS TextBytes

CONSTANTS I32Max,      \* the largest value of an i32, scaled down
          FirstCap,    \* the capacity of a list after its first push
          Chunk,       \* SARIF_TEXT_BUILDER_CHUNK, scaled down
          Zero,        \* what a list read out of range gives
          Junk         \* what a slot nothing was stored in holds

\* The null builder, and the null list handle.
Null == [null |-> TRUE]
NullHandle == -1

-----------------------------------------------------------------------------
(* Text and bytes *)

range_start(t, i) == Min({j \in Clip(i, Len(t))..Len(t) : Boundary(t, j)})

range_end_Split(t, i) == Clip(i, Len(t))

range_end(t, i) ==
  LET c == Clip(i, Len(t)) IN Max({0} \cup {j \in 0..c : Boundary(t, j)})

\* The end of sarif_clamp_text_range: never before the start.
clamp_text_range_end(t, s, e) == Max({range_start(t, s), range_end(t, e)})

\* The bounds arrive as unsigned words: a negative one is beyond the end.
unsigned_clip(i, n) == IF i < 0 \/ i > n THEN n ELSE i

text_slice(t, s, e) ==
  LET cs == range_start(t, unsigned_clip(s, Len(t)))
      ce == range_end(t, unsigned_clip(e, Len(t)))
  IN  IF ce <= cs THEN <<>> ELSE Cut(t, cs, ce)

text_concat(l, r) == l \o r

text_byte(t, i) == IF i \in Offsets(t) THEN At(t, i) ELSE 0

text_cmp(l, r) == Lexicographic(l, r)

text_eq_range(t, s, e, x) ==
  Cut(t, range_start(t, s), clamp_text_range_end(t, s, e)) = x

text_find_byte_range(t, s, e, b) ==
  FirstAt(t, b % 256, range_start(t, s), clamp_text_range_end(t, s, e))

text_line_end(t, s) ==
  LET start == range_start(t, s)
      stop  == FirstAt(t, LF, start, Len(t))
  IN  IF stop > start /\ At(t, stop - 1) = CR THEN stop - 1 ELSE stop

text_next_line_AtReturn(t, s) ==
  LET stop == text_line_end(t, s)
  IN  IF stop < Len(t) THEN stop + 1 ELSE Len(t)

text_next_line(t, s) ==
  LET stop == FirstAt(t, LF, range_start(t, s), Len(t))
  IN  IF stop < Len(t) THEN stop + 1 ELSE Len(t)

text_field_end(t, s, e, b) == text_find_byte_range(t, s, e, b)

text_next_field(t, s, e, b) ==
  LET stop == text_find_byte_range(t, s, e, b)
  IN  IF stop < e /\ stop < Len(t) THEN stop + 1 ELSE stop

\* A slice of a view is a view of the view's parent.
bytes_content(v) == Cut(v.data, v.offset, v.offset + v.len)

text_to_bytes(t) == [view |-> FALSE, data |-> t, offset |-> 0, len |-> Len(t)]

bytes_slice(v, s, e) ==
  LET cs == unsigned_clip(s, v.len)
      ce == unsigned_clip(e, v.len)
  IN  IF ce <= cs THEN text_to_bytes(<<>>)
      ELSE [view |-> TRUE, data |-> v.data, offset |-> v.offset + cs, len |-> ce - cs]

bytes_byte(v, i) == IF i >= 0 /\ i < v.len THEN At(v.data, v.offset + i) ELSE 0

\* The text search runs on byte strings too.  It knows nothing of views: of
\* one it reads the tagged length and the header as bytes, so that any offset
\* up to the given end may come out.
bytes_find_byte_range(v, s, e, b) ==
  IF v.view THEN Min({s, e})..Max({s, e})
  ELSE {text_find_byte_range(v.data, s, e, b)}

parse_number_SameLimit(t) ==
  LET minus  == t # <<>> /\ Head(t) = MINUS
      digits == IF minus THEN Tail(t) ELSE t
  IN  IF digits = <<>> \/ ~(Range(digits) \subseteq Digit) \/ DecimalValue(digits) > I32Max
      THEN Ok(0)
      ELSE Ok(IF minus THEN -DecimalValue(digits) ELSE DecimalValue(digits))

\* sarif_parse_i32_validated: digits after an optional minus sign, 0 when the
\* text is no i32.
parse_number(t) ==
  LET minus  == t # <<>> /\ Head(t) = MINUS
      digits == IF minus THEN Tail(t) ELSE t
      limit  == IF minus THEN I32Max + 1 ELSE I32Max
  IN  IF \/ digits = <<>>
         \/ ~(Range(digits) \subseteq Digit)
         \/ DecimalValue(digits) > limit
      THEN Ok(0)
      ELSE Ok(IF minus THEN -DecimalValue(digits) ELSE DecimalValue(digits))

parse_i32(t) == parse_number(t)

parse_i32_range(t, s, e) == parse_number(Trim(Cut(t, Clip(s, Len(t)), Clip(e, Len(t))), {SP}))

-----------------------------------------------------------------------------
(* Lists: a header with a capacity and its slots.  Handle 1 is the static  *)
(* sarif_empty_list, which every list made from no element shares.         *)

EmptyHeap == << <<>> >>

Stored(h, heap) == Ok([heap |-> heap, h |-> h])
Lost(heap) == Stored(NullHandle, heap)

list_new(heap, n, v) ==
  IF n < 0 THEN Lost(heap) ELSE Stored(Len(heap) + 1, Append(heap, [i \in 1..n |-> v]))

list_from(heap, s) ==
  IF s = <<>> THEN Stored(1, heap) ELSE Stored(Len(heap) + 1, Append(heap, s))

list_len(heap, h) == IF h = NullHandle THEN 0 ELSE Len(heap[h])

list_get(heap, h, i) ==
  IF h # NullHandle /\ i \in Offsets(heap[h]) THEN At(heap[h], i) ELSE Zero

\* The store the compiled code makes itself: nothing out of range.
list_set(heap, h, i, v) ==
  Stored(h, IF i \in Offsets(heap[h]) THEN [heap EXCEPT ![h][i + 1] = v] ELSE heap)

list_push_InPlace(heap, h, n, v) ==
  IF h = NullHandle \/ n < 0 \/ n > Len(heap[h]) THEN Lost(heap)
  ELSE IF n < Len(heap[h]) THEN Stored(h, [heap EXCEPT ![h][n + 1] = v])
  ELSE Stored(h, [heap EXCEPT ![h] =
         [i \in 1..Max({FirstCap, 2 * n}) |-> IF i <= n THEN heap[h][i] ELSE v]])

\* The first push of a list without slots leaves its header alone and makes a
\* list of its own; a full list doubles, the rest of its slots unset.
list_push(heap, h, n, v) ==
  IF h = NullHandle \/ n < 0 THEN Lost(heap)
  ELSE IF heap[h] = <<>>
  THEN Stored(Len(heap) + 1, Append(heap, [i \in 1..FirstCap |-> IF i = 1 THEN v ELSE Junk]))
  ELSE IF n < Len(heap[h]) THEN Stored(h, [heap EXCEPT ![h][n + 1] = v])
  ELSE IF n > Len(heap[h]) THEN Lost(heap)
  ELSE Stored(h, [heap EXCEPT ![h] =
         [i \in 1..(2 * n) |-> IF i <= n THEN heap[h][i] ELSE IF i = n + 1 THEN v ELSE Junk]])

\* qsort is free in the order of elements with equal keys.
SortResults(s, n) ==
  {r \in [1..Len(s) -> Range(s)] :
     /\ \A i \in 1..Len(s) : i > n => r[i] = s[i]
     /\ \A i \in 1..(n - 1) : text_cmp(r[i].key, r[i + 1].key) <= 0
     /\ \A x \in Range(s) : Cardinality({i \in 1..n : r[i] = x}) = Cardinality({i \in 1..n : s[i] = x})}

list_sort(heap, h, n) ==
  IF h = NullHandle \/ n < 0 \/ n > Len(heap[h]) THEN {Lost(heap)}
  ELSE {Stored(h, [heap EXCEPT ![h] = r]) : r \in SortResults(heap[h], n)}

-----------------------------------------------------------------------------
(* Text builders: bytes in a buffer of a capacity that grows by half. *)

compute_grown_capacity_Once(cap, required) == cap + cap \div 2 + 1

\* The capacity after growing: half as much again until the bytes fit.
compute_grown_capacity(cap, required) ==
  LET grown[c \in 0..required] ==
        IF c = required \/ required - c <= c \div 2 + 1 THEN required
        ELSE grown[c + c \div 2 + 1]
  IN  IF cap = 0 THEN required ELSE grown[cap]

text_builder_reserve(b, n) ==
  IF Len(b.bytes) + n <= b.cap THEN b
  ELSE [b EXCEPT !.cap = compute_grown_capacity(b.cap, Len(b.bytes) + n)]

\* Room is made and the bytes are copied after those already there.
put(b, s) ==
  Ok(IF b = Null THEN Null
     ELSE [text_builder_reserve(b, Len(s)) EXCEPT !.bytes = b.bytes \o s])

text_builder_new == Ok([bytes |-> <<>>, cap |-> Chunk])

text_builder_append(b, t) == put(b, t)

text_builder_append_codepoint(b, c) == IF IsScalar(c) THEN put(b, Utf8(c)) ELSE Ok(Null)

\* Any byte passes, also one that is no ASCII character.
text_builder_append_ascii(b, x) == IF x \in 0..255 THEN put(b, <<x>>) ELSE Ok(Null)

text_builder_append_slice(b, t, s, e) ==
  IF 0 <= s /\ s <= e /\ e <= Len(t) THEN put(b, Cut(t, s, e)) ELSE Ok(Null)

text_builder_append_i32(b, n) == put(b, Decimal(n))

text_builder_finish(b) == Ok(IF b = Null THEN <<>> ELSE b.bytes)

\* The bytes go out and the buffer is used again.
stdout_write_builder(b) == Ok(IF b = Null THEN Null ELSE [b EXCEPT !.bytes = <<>>])
=============================================================================
