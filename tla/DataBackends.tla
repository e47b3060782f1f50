---------------------------- MODULE DataBackends ----------------------------
(***************************************************************************)
(* The four runtimes side by side: each builtin by the name of the backend *)
(* that runs it.  A builtin whose result the backend leaves open gives the *)
(* set of its results; the others give one.                                *)
(***************************************************************************)
EXTENDS TextBytes

CONSTANTS I32Max, I64Max, FirstCap, MinSlots, Chunk, Zero, Junk,
          Divergent    \* programs also call what is known to differ on a backend

ASSUME CapacityAssumption ==
  FirstCap \in Nat \ {0} /\ MinSlots \in Nat \ {0} /\ Chunk \in Nat \ {0}

VARIABLE backend       \* the backend that runs the program

I == INSTANCE InterpData
N == INSTANCE NativeData
J == INSTANCE JitData
W == INSTANCE WasmData

Backends == {"interp", "native", "jit", "wasm"}

text_slice(k, t, s, e) ==
  CASE k = "interp" -> I!text_slice(t, s, e)
    [] k = "native" -> N!text_slice(t, s, e)
    [] k = "jit"    -> J!text_slice(t, s, e)
    [] k = "wasm"   -> W!text_slice(t, s, e)

text_concat(k, l, r) ==
  CASE k = "interp" -> I!text_concat(l, r)
    [] k = "native" -> N!text_concat(l, r)
    [] k = "jit"    -> J!text_concat(l, r)
    [] k = "wasm"   -> W!text_concat(l, r)

text_eq_range(k, t, s, e, x) ==
  CASE k = "interp" -> I!text_eq_range(t, s, e, x)
    [] k = "native" -> N!text_eq_range(t, s, e, x)
    [] k = "jit"    -> J!text_eq_range(t, s, e, x)
    [] k = "wasm"   -> W!text_eq_range(t, s, e, x)

text_line_end(k, t, s) ==
  CASE k = "interp" -> I!text_line_end(t, s)
    [] k = "native" -> N!text_line_end(t, s)
    [] k = "jit"    -> J!text_line_end(t, s)
    [] k = "wasm"   -> W!text_line_end(t, s)

text_next_line(k, t, s) ==
  CASE k = "interp" -> I!text_next_line(t, s)
    [] k = "native" -> N!text_next_line(t, s)
    [] k = "jit"    -> J!text_next_line(t, s)
    [] k = "wasm"   -> W!text_next_line(t, s)

text_field_end(k, t, s, e, b) ==
  CASE k = "interp" -> I!text_field_end(t, s, e, b)
    [] k = "native" -> N!text_field_end(t, s, e, b)
    [] k = "jit"    -> J!text_field_end(t, s, e, b)
    [] k = "wasm"   -> W!text_field_end(t, s, e, b)

text_next_field(k, t, s, e, b) ==
  CASE k = "interp" -> I!text_next_field(t, s, e, b)
    [] k = "native" -> N!text_next_field(t, s, e, b)
    [] k = "jit"    -> J!text_next_field(t, s, e, b)
    [] k = "wasm"   -> W!text_next_field(t, s, e, b)

parse_i32(k, t) ==
  CASE k = "interp" -> I!parse_i32(t)
    [] k = "native" -> N!parse_i32(t)
    [] k = "jit"    -> J!parse_i32(t)
    [] k = "wasm"   -> W!parse_i32(t)

parse_i32_range(k, t, s, e) ==
  CASE k = "interp" -> I!parse_i32_range(t, s, e)
    [] k = "native" -> N!parse_i32_range(t, s, e)
    [] k = "jit"    -> J!parse_i32_range(t, s, e)
    [] k = "wasm"   -> W!parse_i32_range(t, s, e)

text_to_bytes(k, t) ==
  CASE k = "interp" -> I!text_to_bytes(t)
    [] k = "native" -> N!text_to_bytes(t)
    [] k = "jit"    -> J!text_to_bytes(t)
    [] k = "wasm"   -> W!text_to_bytes(t)

bytes_slice(k, v, s, e) ==
  CASE k = "interp" -> I!bytes_slice(v, s, e)
    [] k = "native" -> N!bytes_slice(v, s, e)
    [] k = "jit"    -> J!bytes_slice(v, s, e)
    [] k = "wasm"   -> W!bytes_slice(v, s, e)

bytes_content(k, v) ==
  CASE k = "interp" -> I!bytes_content(v)
    [] k = "native" -> N!bytes_content(v)
    [] k = "jit"    -> J!bytes_content(v)
    [] k = "wasm"   -> W!bytes_content(v)

\* Byte strings are searched by the text helper on native code, on the JIT and
\* (for fields) on Wasm.
bytes_find_byte_range(k, v, s, e, b) ==
  CASE k = "interp" -> {I!bytes_find_byte_range(v, s, e, b)}
    [] k = "native" -> N!bytes_find_byte_range(v, s, e, b)
    [] k = "jit"    -> {J!text_find_byte_range(v, s, e, b)}
    [] k = "wasm"   -> {W!bytes_find_byte_range(v, s, e, b)}

bytes_next_field(k, v, s, e, b) ==
  CASE k = "interp" -> I!bytes_next_field(v, s, e, b)
    [] k = "native" -> N!text_next_field(v.data, s, e, b)
    [] k = "jit"    -> J!text_next_field(v, s, e, b)
    [] k = "wasm"   -> W!text_next_field(v, s, e, b)

bytes_byte(k, v, i) ==
  CASE k = "interp" -> I!bytes_byte(v, i)
    [] k = "native" -> N!bytes_byte(v, i)
    [] k = "jit"    -> J!bytes_byte(v, i)
    [] k = "wasm"   -> W!text_byte(v, i)

-----------------------------------------------------------------------------
(* Lists.  Each gives the set of the results it may have. *)

EmptyHeap(k) == IF k = "native" THEN N!EmptyHeap ELSE <<>>

list_new(k, heap, n, v) ==
  CASE k = "interp" -> I!list_new(heap, n, v)
    [] k = "native" -> N!list_new(heap, n, v)
    [] k = "jit"    -> J!list_new(heap, n, v)
    [] k = "wasm"   -> W!list_new(heap, n, v)

\* The JIT and Wasm have no helper for it: Wasm code stores the elements into a
\* new list, and the JIT does not link.
list_from(k, heap, s) ==
  CASE k = "interp" -> I!list_from(heap, s)
    [] k = "native" -> N!list_from(heap, s)

list_push(k, heap, h, n, v) ==
  CASE k = "interp" -> I!list_push(heap, h, n, v)
    [] k = "native" -> N!list_push(heap, h, n, v)
    [] k = "jit"    -> J!list_push(heap, h, n, v)
    [] k = "wasm"   -> W!list_push(heap, h, n, v)

list_get(k, heap, h, i) ==
  CASE k = "interp" -> Ok(I!list_get(heap, h, i))
    [] k = "native" -> Ok(N!list_get(heap, h, i))
    [] k = "jit"    -> Ok(J!list_get(heap, h, i))
    [] k = "wasm"   -> W!list_get(heap, h, i)

list_set(k, heap, h, i, v) ==
  CASE k = "interp" -> I!list_set(heap, h, i, v)
    [] k = "native" -> N!list_set(heap, h, i, v)
    [] k = "jit"    -> J!list_set(heap, h, i, v)
    [] k = "wasm"   -> W!list_set(heap, h, i, v)

list_sort(k, heap, h, n) ==
  CASE k = "interp" -> {I!list_sort(heap, h, n)}
    [] k = "native" -> N!list_sort(heap, h, n)
    [] k = "jit"    -> {J!list_sort(heap, h, n)}
    [] k = "wasm"   -> {W!list_sort(heap, h, n)}

list_len(k, heap, h) ==
  CASE k = "interp" -> I!list_len(heap, h)
    [] k = "native" -> N!list_len(heap, h)
    [] k = "jit"    -> J!list_len(heap, h)
    [] k = "wasm"   -> W!list_len(heap, h)

-----------------------------------------------------------------------------
(* Text builders *)

text_builder_new(k) ==
  CASE k = "interp" -> I!text_builder_new
    [] k = "native" -> N!text_builder_new
    [] k = "jit"    -> J!text_builder_new
    [] k = "wasm"   -> W!text_builder_new

text_builder_append(k, b, t) ==
  CASE k = "interp" -> I!text_builder_append(b, t)
    [] k = "native" -> N!text_builder_append(b, t)
    [] k = "jit"    -> J!text_builder_append(b, t)
    [] k = "wasm"   -> W!text_builder_append(b, t)

text_builder_append_codepoint(k, b, c) ==
  CASE k = "interp" -> I!text_builder_append_codepoint(b, c)
    [] k = "native" -> N!text_builder_append_codepoint(b, c)
    [] k = "jit"    -> J!text_builder_append_codepoint(b, c)
    [] k = "wasm"   -> W!text_builder_append_codepoint(b, c)

text_builder_append_ascii(k, b, x) ==
  CASE k = "interp" -> I!text_builder_append_ascii(b, x)
    [] k = "native" -> N!text_builder_append_ascii(b, x)
    [] k = "jit"    -> J!text_builder_append_ascii(b, x)
    [] k = "wasm"   -> W!text_builder_append_ascii(b, x)

text_builder_append_slice(k, b, t, s, e) ==
  CASE k = "interp" -> I!text_builder_append_slice(b, t, s, e)
    [] k = "native" -> N!text_builder_append_slice(b, t, s, e)
    [] k = "jit"    -> J!text_builder_append_slice(b, t, s, e)
    [] k = "wasm"   -> W!text_builder_append_slice(b, t, s, e)

text_builder_append_i32(k, b, n) ==
  CASE k = "interp" -> I!text_builder_append_i32(b, n)
    [] k = "native" -> N!text_builder_append_i32(b, n)
    [] k = "jit"    -> J!text_builder_append_i32(b, n)
    [] k = "wasm"   -> W!text_builder_append_i32(b, n)

text_builder_finish(k, b) ==
  CASE k = "interp" -> I!text_builder_finish(b)
    [] k = "native" -> N!text_builder_finish(b)
    [] k = "jit"    -> J!text_builder_finish(b)
    [] k = "wasm"   -> W!text_builder_finish(b)

stdout_write_builder(k, b) ==
  CASE k = "interp" -> I!stdout_write_builder(b)
    [] k = "native" -> N!stdout_write_builder(b)
    [] k = "jit"    -> J!stdout_write_builder(b)
    [] k = "wasm"   -> W!stdout_write_builder(b)

\* The bytes appended so far.
builder_bytes(k, b) == IF k = "interp" THEN b ELSE IF b = N!Null THEN <<>> ELSE b.bytes
=============================================================================
