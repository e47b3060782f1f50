------------------------- MODULE TextBufferProofs ---------------------------
(***************************************************************************)
(* The text builders of every backend, for every text, code point and      *)
(* number appended: the capacities they grow to, what they hold, and that  *)
(* each of their operations is one of the abstract buffer.                 *)
(***************************************************************************)
EXTENDS TextBuffer, TextBytesProofs

-----------------------------------------------------------------------------
(* The modules speak of the same bytes *)

\* Cut and Clip are the same operators in each,
LEMMA SameCuts ==
    /\ \A t, s, e : I!Cut(t, s, e) = Cut(t, s, e) /\ N!Cut(t, s, e) = Cut(t, s, e)
    /\ \A t, s, e : J!Cut(t, s, e) = Cut(t, s, e) /\ W!Cut(t, s, e) = Cut(t, s, e)
    /\ \A i, n : J!Clip(i, n) = Clip(i, n)
BY DEF Cut, Clip, I!Cut, N!Cut, J!Cut, J!Clip, W!Cut

\* and so are Min and Max.
LEMMA SameMaxima ==
    /\ \A S : J!Min(S) = Min(S)
    /\ \A S : J!Max(S) = Max(S) /\ W!Max(S) = Max(S)
BY DEF Min, Max, J!Min, J!Max, W!Max

-----------------------------------------------------------------------------
(* The capacities of text builders *)

\* compute_grown_capacity gives what is required.
LEMMA NativeGrows ==
    ASSUME NEW cap \in Nat, NEW required \in Nat, cap < required
    PROVE  N!compute_grown_capacity(cap, required) = required
<1>1. N!compute_grown_capacity(cap, required) = GrownByHalf(cap, required)
    BY Zenon DEF N!compute_grown_capacity, GrownByHalf
<1>2. QED
    BY <1>1, HalfGrows, Zenon

\* builder_grow doubles until the bytes fit.
LEMMA JitGrows ==
    ASSUME NEW cap \in Nat, NEW needed \in Nat
    PROVE  J!builder_grow(cap, needed) \in Nat /\ J!builder_grow(cap, needed) >= needed
<1> DEFINE n == 2 * (needed + cap + Chunk)
           low == 2 * Max({cap, Chunk})
<1>1. Chunk \in Nat /\ Chunk >= 1
    BY CapacityAssumption
<1>2. Max({cap, Chunk}) = IF cap >= Chunk THEN cap ELSE Chunk
  <2>1. cap \in Int /\ Chunk \in Int
      BY <1>1
  <2>2. QED
      BY <2>1, OfTwo, Zenon
<1>3. n \in Nat /\ n > 2 * needed /\ low \in 1 .. n
    BY <1>1, <1>2
<1>4. J!builder_grow(cap, needed) = Doubled(low, needed, n)
    BY SameMaxima, Zenon DEF J!builder_grow, Doubled
<1> HIDE DEF n, low
<1>5. QED
    BY <1>3, <1>4, DoublingGrows, Zenon

-----------------------------------------------------------------------------
(* Text builders *)

\* The builder b of backend k holds the bytes s, within its capacity.
Holds(k, b, s) ==
    /\ s \in Seq(Int)
    /\ IF k = "interp" THEN b = s
       ELSE \E c \in Nat : Len(s) <= c /\ b = [bytes |-> s, cap |-> c]

\* A builtin gives a builder that holds s.
Gives(k, r, s) == \E x : r = Ok(x) /\ Holds(k, x, s)

HeldOf(k, b) ==
    LET held == builder_bytes(k, b)
    IN  IF k = "interp" \/ held = <<>> THEN held
        ELSE SubSeq(held, 1, Min({Len(held), b.cap}))

\* A builder is not the null builder.
LEMMA NotNull ==
    ASSUME NEW s, NEW c
    PROVE  [bytes |-> s, cap |-> c] # N!Null
<1>1. DOMAIN [bytes |-> s, cap |-> c] # DOMAIN [null |-> TRUE]
    OBVIOUS
<1>2. QED
    BY <1>1, Zenon DEF N!Null

\* A builder with other bytes.
LEMMA BytesPut ==
    ASSUME NEW s, NEW c, NEW p
    PROVE  [[bytes |-> s, cap |-> c] EXCEPT !.bytes = p] = [bytes |-> p, cap |-> c]
OBVIOUS

\* A builder that holds s within its capacity has lost nothing of it.
LEMMA HeldIs ==
    ASSUME NEW k, NEW b, NEW s, Holds(k, b, s)
    PROVE  builder_bytes(k, b) = s /\ HeldOf(k, b) = s
<1>1. CASE k = "interp"
    BY <1>1, Zenon DEF Holds, builder_bytes, HeldOf
<1>2. CASE k # "interp"
  <2>1. PICK c \in Nat : Len(s) <= c /\ b = [bytes |-> s, cap |-> c]
      BY <1>2, Zenon DEF Holds
  <2>2. s \in Seq(Int)
      BY DEF Holds
  <2>3. b # N!Null /\ b.bytes = s /\ b.cap = c
      BY <2>1, NotNull
  <2>4. builder_bytes(k, b) = s
      BY <1>2, <2>3, Zenon DEF builder_bytes
  <2>5. Len(s) \in Int /\ c \in Int
      BY <2>2
  <2>6. Min({Len(s), c}) = IF Len(s) <= c THEN Len(s) ELSE c
      BY <2>5, OfTwo, Zenon
  <2>7. Min({Len(s), b.cap}) = Len(s)
      BY <2>1, <2>3, <2>6, Zenon
  <2>8. SubSeq(s, 1, Len(s)) = s
      BY <2>2
  <2>9. QED
      BY <1>2, <2>4, <2>7, <2>8, Zenon DEF HeldOf
<1>3. QED
    BY <1>1, <1>2

\* Room is made for the bytes put, and they come after those held.
LEMMA NativePut ==
    ASSUME NEW b, NEW s, Holds("native", b, s), NEW p \in Seq(Int)
    PROVE  Gives("native", N!put(b, p), s \o p)
<1>1. PICK c \in Nat : Len(s) <= c /\ b = [bytes |-> s, cap |-> c]
    BY Zenon DEF Holds
<1>2. s \in Seq(Int) /\ s \o p \in Seq(Int) /\ Len(s \o p) = Len(s) + Len(p)
    BY JoinIs DEF Holds
<1>3. b # N!Null /\ b.bytes = s /\ b.cap = c
    BY <1>1, NotNull
<1>4. Len(s) \in Nat /\ Len(p) \in Nat /\ Len(s) + Len(p) \in Nat
    BY <1>2
<1> DEFINE grown == N!compute_grown_capacity(c, Len(s) + Len(p))
           room == IF Len(s) + Len(p) <= c THEN c ELSE grown
<1>5. room \in Nat /\ Len(s) + Len(p) <= room
  <2>1. CASE Len(s) + Len(p) <= c
      BY <2>1
  <2>2. CASE ~(Len(s) + Len(p) <= c)
    <3>1. grown = Len(s) + Len(p)
        BY <1>4, <2>2, NativeGrows
    <3> HIDE DEF grown
    <3>2. QED
        BY <1>4, <2>2, <3>1
  <2>3. QED
      BY <2>1, <2>2
<1>6. N!text_builder_reserve(b, Len(p)) = [bytes |-> s, cap |-> room]
  <2> HIDE DEF grown
  <2>1. N!text_builder_reserve(b, Len(p)) = IF Len(s) + Len(p) <= c THEN b ELSE [b EXCEPT !.cap = grown]
      BY <1>3, Zenon DEF N!text_builder_reserve, grown
  <2>2. QED
      BY <1>1, <2>1
<1> HIDE DEF room
<1>7. N!put(b, p) = N!Ok([[bytes |-> s, cap |-> room] EXCEPT !.bytes = s \o p])
  <2>1. N!put(b, p) = N!Ok([N!text_builder_reserve(b, Len(p)) EXCEPT !.bytes = b.bytes \o p])
      BY <1>3, Zenon DEF N!put
  <2>2. QED
      BY <1>3, <1>6, <2>1, Zenon
<1>8. [[bytes |-> s, cap |-> room] EXCEPT !.bytes = s \o p] = [bytes |-> s \o p, cap |-> room]
    BY BytesPut, ZenonT(40)
<1>9. Holds("native", [bytes |-> s \o p, cap |-> room], s \o p)
  <2>1. "native" # "interp" /\ Len(s \o p) <= room
      BY <1>2, <1>5
  <2>2. QED
      BY <1>2, <1>5, <2>1, Zenon DEF Holds
<1>10. QED
    BY <1>7, <1>8, <1>9, Zenon DEF Gives, Ok, N!Ok

\* The same for the JIT, whose capacity doubles,
LEMMA JitPut ==
    ASSUME NEW b, NEW s, Holds("jit", b, s), NEW p \in Seq(Int)
    PROVE  Gives("jit", J!put(b, p), s \o p)
<1>1. PICK c \in Nat : Len(s) <= c /\ b = [bytes |-> s, cap |-> c]
    BY Zenon DEF Holds
<1>2. s \in Seq(Int) /\ s \o p \in Seq(Int) /\ Len(s \o p) = Len(s) + Len(p)
    BY JoinIs DEF Holds
<1>3. b.bytes = s /\ b.cap = c
    BY <1>1
<1>4. Len(s) \in Nat /\ Len(p) \in Nat /\ Len(s) + Len(p) \in Nat
    BY <1>2
<1> DEFINE grown == J!builder_grow(c, Len(s) + Len(p))
           room == IF Len(s) + Len(p) > c THEN grown ELSE c
<1>5. grown \in Nat /\ grown >= Len(s) + Len(p)
    BY <1>4, JitGrows, Zenon
<1>6. J!put(b, p) = J!Ok([bytes |-> s \o p, cap |-> room])
    BY <1>3, Zenon DEF J!put
<1> HIDE DEF grown
<1>7. room \in Nat /\ Len(s \o p) <= room
    BY <1>2, <1>4, <1>5
<1> HIDE DEF room
<1>8. Holds("jit", [bytes |-> s \o p, cap |-> room], s \o p)
  <2>1. "jit" # "interp"
      OBVIOUS
  <2>2. QED
      BY <1>2, <1>7, <2>1, Zenon DEF Holds
<1>9. QED
    BY <1>6, <1>8, Zenon DEF Gives, Ok, J!Ok

\* and for Wasm, whose first buffer is made by the first append.
LEMMA WasmPut ==
    ASSUME NEW b, NEW s, Holds("wasm", b, s), NEW p \in Seq(Int)
    PROVE  Gives("wasm", W!put(b, p), s \o p)
<1>1. PICK c \in Nat : Len(s) <= c /\ b = [bytes |-> s, cap |-> c]
    BY Zenon DEF Holds
<1>2. s \in Seq(Int) /\ s \o p \in Seq(Int) /\ Len(s \o p) = Len(s) + Len(p)
    BY JoinIs DEF Holds
<1>3. b.bytes = s /\ b.cap = c
    BY <1>1
<1>4. Len(s) \in Nat /\ Len(p) \in Nat
    BY <1>2
<1> DEFINE needed == Len(s) + Len(p)
           twice == IF c = 0 THEN Chunk ELSE 2 * c
           room == IF needed <= c THEN c ELSE Max({needed, twice})
<1>5. needed \in Int /\ twice \in Int /\ needed \in Nat /\ twice \in Nat
    BY <1>4, CapacityAssumption
<1>6. W!text_builder_reserve(b, Len(p)) = [bytes |-> s, cap |-> room]
  <2> HIDE DEF twice
  <2>1. W!text_builder_reserve(b, Len(p))
          = IF needed <= c THEN b ELSE [b EXCEPT !.cap = Max({needed, twice})]
      BY <1>3, SameMaxima, Zenon DEF W!text_builder_reserve, twice
  <2> DEFINE top == Max({needed, twice})
  <2> HIDE DEF top, needed
  <2>2. QED
      BY <1>1, <2>1 DEF top
<1> HIDE DEF needed, twice
<1>7. Max({needed, twice}) = IF needed >= twice THEN needed ELSE twice
    BY <1>5, OfTwo, Zenon
<1>8. PICK top \in Nat : top = room /\ needed <= top
    BY <1>5, <1>7
<1> HIDE DEF room
<1>9. W!put(b, p) = W!Ok([[bytes |-> s, cap |-> top] EXCEPT !.bytes = s \o p])
    BY <1>3, <1>6, <1>8, Zenon DEF W!put
<1>10. [[bytes |-> s, cap |-> top] EXCEPT !.bytes = s \o p] = [bytes |-> s \o p, cap |-> top]
    BY BytesPut, ZenonT(40)
<1>11. Holds("wasm", [bytes |-> s \o p, cap |-> top], s \o p)
  <2>1. "wasm" # "interp" /\ Len(s \o p) <= top
      BY <1>2, <1>8 DEF needed
  <2>2. QED
      BY <1>2, <1>8, <2>1, Zenon DEF Holds
<1>12. QED
    BY <1>9, <1>10, <1>11, Zenon DEF Gives, Ok, W!Ok

\* Each append of each backend adds the bytes its arguments denote.
LEMMA Puts ==
    ASSUME NEW k \in Backends, NEW b, NEW s, Holds(k, b, s), NEW p \in Seq(Int)
    PROVE  /\ k = "interp" => Gives(k, I!Ok(b \o p), s \o p)
           /\ k = "native" => Gives(k, N!put(b, p), s \o p)
           /\ k = "jit" => Gives(k, J!put(b, p), s \o p)
           /\ k = "wasm" => Gives(k, W!put(b, p), s \o p)
<1>1. ASSUME k = "interp" PROVE Gives(k, I!Ok(b \o p), s \o p)
  <2>1. b = s /\ s \in Seq(Int)
      BY <1>1, Zenon DEF Holds
  <2>2. s \o p \in Seq(Int)
      BY <2>1, JoinIs
  <2>3. QED
      BY <1>1, <2>1, <2>2, Zenon DEF Gives, Holds, Ok, I!Ok
<1>2. k = "native" => Gives(k, N!put(b, p), s \o p)
    BY NativePut, Zenon
<1>3. k = "jit" => Gives(k, J!put(b, p), s \o p)
    BY JitPut, Zenon
<1>4. k = "wasm" => Gives(k, W!put(b, p), s \o p)
    BY WasmPut, Zenon
<1>5. QED
    BY <1>1, <1>2, <1>3, <1>4, Zenon

\* text_builder_append adds the text,
LEMMA AppendGives ==
    ASSUME NEW k \in Backends, NEW b, NEW s, Holds(k, b, s), NEW t \in Seq(Int)
    PROVE  Gives(k, text_builder_append(k, b, t), s \o t)
<1>1. k = "interp" \/ k = "native" \/ k = "jit" \/ k = "wasm"
    BY DEF Backends
<1>2. QED
    BY <1>1, Puts, Zenon DEF text_builder_append, I!text_builder_append, N!text_builder_append,
       J!text_builder_append, W!text_builder_append

\* text_builder_append_codepoint the encoding of a Unicode scalar,
LEMMA CodepointGives ==
    ASSUME NEW k \in Backends, NEW b, NEW s, Holds(k, b, s), NEW c \in Int, IsScalar(c)
    PROVE  Gives(k, text_builder_append_codepoint(k, b, c), s \o Utf8(c))
<1>1. k = "interp" \/ k = "native" \/ k = "jit" \/ k = "wasm"
    BY DEF Backends
<1>2. Utf8(c) \in Seq(Int)
    BY Utf8IsBytes
<1>3. /\ I!IsScalar(c) /\ N!IsScalar(c) /\ J!IsScalar(c) /\ W!IsScalar(c)
    BY SMT DEF IsScalar, I!IsScalar, N!IsScalar, J!IsScalar, W!IsScalar
<1>4. /\ I!Utf8(c) = Utf8(c) /\ N!Utf8(c) = Utf8(c) /\ J!Utf8(c) = Utf8(c) /\ W!Utf8(c) = Utf8(c)
    BY SMT DEF Utf8, I!Utf8, N!Utf8, J!Utf8, W!Utf8
<1>5. QED
    BY <1>1, <1>2, <1>3, <1>4, Puts, Zenon DEF text_builder_append_codepoint,
       I!text_builder_append_codepoint, N!text_builder_append_codepoint,
       J!text_builder_append_codepoint, W!text_builder_append_codepoint

\* text_builder_append_ascii the byte of an ASCII character,
LEMMA AsciiGives ==
    ASSUME NEW k \in Backends, NEW b, NEW s, Holds(k, b, s), NEW x \in 0 .. 127
    PROVE  Gives(k, text_builder_append_ascii(k, b, x), s \o <<x>>)
<1>1. k = "interp" \/ k = "native" \/ k = "jit" \/ k = "wasm"
    BY DEF Backends
<1>2. <<x>> \in Seq(Int) /\ x % 256 = x /\ x \in 0 .. 255
    BY SameByte
<1>3. k = "interp" => Append(b, x) = b \o <<x>>
  <2>1. k = "interp" => b \in Seq(Int)
      BY Zenon DEF Holds
  <2>2. QED
      BY <2>1, JoinOne
<1>4. QED
    BY <1>1, <1>2, <1>3, Puts, Zenon DEF text_builder_append_ascii, I!text_builder_append_ascii,
       N!text_builder_append_ascii, J!text_builder_append_ascii, W!text_builder_append_ascii

\* text_builder_append_slice the bytes of a range inside the text,
LEMMA SliceGives ==
    ASSUME NEW k \in Backends, NEW b, NEW s, Holds(k, b, s), NEW t \in Seq(Int),
           NEW i \in 0 .. Len(t), NEW e \in i .. Len(t)
    PROVE  Gives(k, text_builder_append_slice(k, b, t, i, e), s \o Cut(t, i, e))
<1>1. k = "interp" \/ k = "native" \/ k = "jit" \/ k = "wasm"
    BY DEF Backends
<1>2. Cut(t, i, e) \in Seq(Int)
    BY CutIs
<1>3. 0 <= i /\ i <= e /\ e <= Len(t)
    OBVIOUS
<1>4. J!text_slice(t, i, e) = Cut(t, i, e)
  <2>1. Clip(i, Len(t)) = i /\ Clip(e, Len(t)) = e
      BY DEF Clip
  <2>2. Max({i, e}) = e
      BY MaxSecond
  <2>3. QED
      BY <2>1, <2>2, SameCuts, SameMaxima, Zenon DEF J!text_slice, J!clipped_end
<1>5. QED
    BY <1>1, <1>2, <1>3, <1>4, Puts, SameCuts, Zenon DEF text_builder_append_slice,
       I!text_builder_append_slice, N!text_builder_append_slice,
       J!text_builder_append_slice, W!text_builder_append_slice

\* text_builder_append_i32 the decimal notation, on Wasm of every number but 0.
LEMMA NumberGives ==
    ASSUME NEW k \in Backends, NEW b, NEW s, Holds(k, b, s), NEW n \in Int, k = "wasm" => n # 0
    PROVE  Gives(k, text_builder_append_i32(k, b, n), s \o Decimal(n))
<1>1. k = "interp" \/ k = "native" \/ k = "jit" \/ k = "wasm"
    BY DEF Backends
<1>2. Decimal(n) \in Seq(Int)
    BY DecimalIsBytes
<1>3. /\ I!Decimal(n) = Decimal(n) /\ N!Decimal(n) = Decimal(n)
      /\ J!Decimal(n) = Decimal(n) /\ W!Decimal(n) = Decimal(n)
    BY Zenon DEF Decimal, I!Decimal, N!Decimal, J!Decimal, W!Decimal, Digits, I!Digits, N!Digits,
       J!Digits, W!Digits, MINUS, I!MINUS, N!MINUS, J!MINUS, W!MINUS
<1>4. QED
    BY <1>1, <1>2, <1>3, Puts, Zenon DEF text_builder_append_i32, I!text_builder_append_i32,
       N!text_builder_append_i32, J!text_builder_append_i32, W!text_builder_append_i32

\* An empty buffer of any capacity holds nothing.
LEMMA NothingHeld ==
    ASSUME NEW k, NEW c \in Nat
    PROVE  k # "interp" => Holds(k, [bytes |-> <<>>, cap |-> c], <<>>)
<1>1. <<>> \in Seq(Int) /\ Len(<<>>) <= c
    OBVIOUS
<1>2. QED
    BY <1>1, Zenon DEF Holds

\* A new builder holds nothing.
LEMMA NewHolds ==
    ASSUME NEW k \in Backends
    PROVE  Holds(k, text_builder_new(k).value, <<>>)
<1>1. Chunk \in Nat /\ 0 \in Nat
    BY CapacityAssumption
<1>2. CASE k = "interp"
  <2>1. text_builder_new(k) = [fault |-> FALSE, value |-> <<>>]
      BY <1>2, Zenon DEF text_builder_new, I!text_builder_new, I!Ok
  <2>2. text_builder_new(k).value = <<>> /\ <<>> \in Seq(Int)
      BY <2>1
  <2>3. QED
      BY <1>2, <2>2, Zenon DEF Holds
<1>3. CASE k = "native" \/ k = "jit"
  <2>1. text_builder_new(k) = [fault |-> FALSE, value |-> [bytes |-> <<>>, cap |-> Chunk]]
      BY <1>3 DEF text_builder_new, N!text_builder_new, J!text_builder_new, N!Ok, J!Ok
  <2>2. text_builder_new(k).value = [bytes |-> <<>>, cap |-> Chunk] /\ k # "interp"
      BY <1>3, <2>1
  <2>3. QED
      BY <1>1, <2>2, NothingHeld, Zenon
<1>4. CASE k = "wasm"
  <2>1. text_builder_new(k) = [fault |-> FALSE, value |-> [bytes |-> <<>>, cap |-> 0]]
      BY <1>4 DEF text_builder_new, W!text_builder_new, W!Ok
  <2>2. text_builder_new(k).value = [bytes |-> <<>>, cap |-> 0] /\ k # "interp"
      BY <1>4, <2>1
  <2>3. QED
      BY <1>1, <2>2, NothingHeld, Zenon
<1>5. QED
    BY <1>2, <1>3, <1>4 DEF Backends

\* A write refuses, or leaves a builder that holds nothing.
LEMMA WriteGives ==
    ASSUME NEW k \in Backends, NEW b, NEW s, Holds(k, b, s)
    PROVE  stdout_write_builder(k, b) = Fault \/ Gives(k, stdout_write_builder(k, b), <<>>)
<1>1. CASE k = "interp"
  <2>1. <<>> \in Seq(Int)
      OBVIOUS
  <2>2. Holds(k, <<>>, <<>>)
      BY <1>1, <2>1, Zenon DEF Holds
  <2>3. QED
      BY <1>1, <2>2, Zenon DEF stdout_write_builder, I!stdout_write_builder, Gives, Ok, I!Ok, Fault, I!Fault
<1>2. CASE k # "interp"
  <2>1. PICK c \in Nat : Len(s) <= c /\ b = [bytes |-> s, cap |-> c]
      BY <1>2, Zenon DEF Holds
  <2>2. b # N!Null
      BY <2>1, NotNull
  <2>3. [b EXCEPT !.bytes = <<>>] = [bytes |-> <<>>, cap |-> c]
      BY <2>1, BytesPut
  <2>4. Holds(k, [b EXCEPT !.bytes = <<>>], <<>>)
      BY <1>2, <2>3, NothingHeld, Zenon
  <2>5. k = "native" \/ k = "jit" \/ k = "wasm"
      BY <1>2 DEF Backends
  <2>6. stdout_write_builder(k, b) = Ok([b EXCEPT !.bytes = <<>>])
      BY <2>2, <2>5, Zenon DEF stdout_write_builder, N!stdout_write_builder,
         J!stdout_write_builder, W!stdout_write_builder, Ok, N!Ok, J!Ok, W!Ok
  <2>7. QED
      BY <2>4, <2>6, Zenon DEF Gives
<1>3. QED
    BY <1>1, <1>2

\* A finish refuses, or gives the bytes held.
LEMMA FinishGives ==
    ASSUME NEW k \in Backends, NEW b, NEW s, Holds(k, b, s)
    PROVE  text_builder_finish(k, b) = Fault \/ text_builder_finish(k, b) = Ok(s)
<1>1. CASE k = "interp"
    BY <1>1, Zenon DEF text_builder_finish, I!text_builder_finish, Holds, Ok, I!Ok, Fault, I!Fault
<1>2. CASE k # "interp"
  <2>1. PICK c \in Nat : Len(s) <= c /\ b = [bytes |-> s, cap |-> c]
      BY <1>2, Zenon DEF Holds
  <2>2. b # N!Null /\ b.bytes = s
      BY <2>1, NotNull
  <2>3. k = "native" \/ k = "jit" \/ k = "wasm"
      BY <1>2 DEF Backends
  <2>4. QED
      BY <2>2, <2>3, Zenon DEF text_builder_finish, N!text_builder_finish, J!text_builder_finish,
         W!text_builder_finish, Ok, N!Ok, J!Ok, W!Ok
<1>3. QED
    BY <1>1, <1>2

\* The fields of a result,
LEMMA OkIs ==
    ASSUME NEW v
    PROVE  Ok(v).fault = FALSE /\ Ok(v).value = v
BY DEF Ok

\* and of a refusal.
LEMMA FaultIs == Fault.fault = TRUE
BY DEF Fault

-----------------------------------------------------------------------------
(* The steps of a builder *)

\* The builder holds some bytes, within its capacity.
BufferInv == backend \in Backends /\ \E s : Holds(backend, builder, s)

\* What the refinement mapping shows of a builder that holds s,
LEMMA HeldNow ==
    ASSUME NEW s, Holds(backend, builder, s)
    PROVE  Held = s /\ builder_bytes(backend, builder) = s
<1>1. Held = HeldOf(backend, builder)
    BY Zenon DEF Held, HeldOf
<1>2. QED
    BY <1>1, HeldIs, Zenon

\* and of the builder after a step.
LEMMA HeldNext ==
    ASSUME NEW s, Holds(backend', builder', s)
    PROVE  Held' = s
<1>1. Held' = HeldOf(backend', builder')
    BY Zenon DEF Held, HeldOf
<1>2. QED
    BY <1>1, HeldIs, Zenon

\* An append that gives what it should is a step of the abstract buffer.
LEMMA TakeSteps ==
    ASSUME backend \in Backends, NEW s, Holds(backend, builder, s), NEW piece, NEW r,
           Gives(backend, r, s \o piece), TakeBuilder(piece, r)
    PROVE  BufferInv' /\ B!AppendAsked
<1>1. PICK x : r = Ok(x) /\ Holds(backend, x, s \o piece)
    BY Zenon DEF Gives
<1>2. r.fault = FALSE /\ r.value = x
    BY <1>1, OkIs, Zenon
<1>3. /\ finished = Open /\ asked' = piece /\ builder' = x
      /\ backend' = backend /\ written' = written /\ finished' = finished
    BY <1>2 DEF TakeBuilder, Usable
<1>4. Holds(backend', builder', s \o piece)
    BY <1>1, <1>3, Zenon
<1>5. Held = s /\ Held' = s \o piece
    BY <1>4, HeldNow, HeldNext, Zenon
<1>6. BufferInv'
    BY <1>3, <1>4, Zenon DEF BufferInv
<1>7. B!AppendAsked
    BY <1>3, <1>5, Zenon DEF B!AppendAsked, B!Open, Open
<1>8. QED
    BY <1>6, <1>7

\* Every step of a builder keeps BufferInv and is one of the abstract buffer, or none
\* when the interpreter refuses bytes that are no text.
LEMMA BuilderSteps ==
    ASSUME ~Divergent, BufferInv, BuilderNext
    PROVE  BufferInv' /\ (B!Next \/ UNCHANGED B!bufferVars)
<1>1. backend \in Backends
    BY DEF BufferInv
<1>2. PICK s : Holds(backend, builder, s)
    BY DEF BufferInv
<1> DEFINE Goal == BufferInv' /\ (B!Next \/ UNCHANGED B!bufferVars)
<1> SUFFICES Goal
    OBVIOUS
<1>3. ASSUME BufferInv', B!AppendAsked PROVE Goal
    BY <1>3 DEF B!Next
<1> HIDE DEF Goal
<1>4. ASSUME NEW t \in Appended PROVE t \in Seq(Int)
  <2>1. t \in Seq(0 .. 255)
      BY BufferAssumption, SMT
  <2>2. 0 .. 255 \subseteq Int
      OBVIOUS
  <2>3. QED
      BY <2>1, <2>2, Wider, Zenon
<1>5. ASSUME NEW t \in Appended, BuilderAppend(t) PROVE Goal
  <2>1. Gives(backend, text_builder_append(backend, builder, t), s \o t)
      BY <1>1, <1>2, <1>4, AppendGives, Zenon
  <2>2. TakeBuilder(t, text_builder_append(backend, builder, t))
      BY <1>5, Zenon DEF BuilderAppend
  <2>3. QED
      BY <1>1, <1>2, <1>3, <2>1, <2>2, TakeSteps, Zenon
<1>6. ASSUME NEW c \in CodePoints, AppendCodepoint(c) PROVE Goal
  <2>1. c \in Int /\ IsScalar(c)
      BY BufferAssumption, Zenon
  <2>2. Gives(backend, text_builder_append_codepoint(backend, builder, c), s \o Utf8(c))
      BY <1>1, <1>2, <2>1, CodepointGives, Zenon
  <2>3. TakeBuilder(Utf8(c), text_builder_append_codepoint(backend, builder, c))
      BY <1>6, Zenon DEF AppendCodepoint
  <2>4. QED
      BY <1>1, <1>2, <1>3, <2>2, <2>3, TakeSteps, Zenon
<1>7. ASSUME NEW x \in AsciiBytes, AppendAscii(x) PROVE Goal
  <2>1. x \in 0 .. 127
      BY BufferAssumption, Zenon
  <2>2. Gives(backend, text_builder_append_ascii(backend, builder, x), s \o <<x>>)
      BY <1>1, <1>2, <2>1, AsciiGives, Zenon
  <2>3. TakeBuilder(<<x>>, text_builder_append_ascii(backend, builder, x))
      BY <1>7, Zenon DEF AppendAscii
  <2>4. QED
      BY <1>1, <1>2, <1>3, <2>2, <2>3, TakeSteps, Zenon
<1>8. ASSUME NEW t \in Appended, NEW i \in 0..Len(t), NEW e \in 0..Len(t), AppendSlice(t, i, e) PROVE Goal
  <2>1. t \in Seq(Int)
      BY <1>4
  <2>2. e \in i .. Len(t)
      BY <1>8, <2>1 DEF AppendSlice
  <2>3. Gives(backend, text_builder_append_slice(backend, builder, t, i, e), s \o Cut(t, i, e))
      BY <1>1, <1>2, <2>1, <2>2, SliceGives, Zenon
  <2>4. TakeBuilder(Cut(t, i, e), text_builder_append_slice(backend, builder, t, i, e))
      BY <1>8, Zenon DEF AppendSlice
  <2>5. QED
      BY <1>1, <1>2, <1>3, <2>3, <2>4, TakeSteps, Zenon
<1>9. ASSUME NEW n \in Numbers, AppendI32(n) PROVE Goal
  <2>1. n \in Int /\ (backend = "wasm" => n # 0)
      BY <1>9, BufferAssumption, Zenon DEF AppendI32
  <2>2. Gives(backend, text_builder_append_i32(backend, builder, n), s \o Decimal(n))
      BY <1>1, <1>2, <2>1, NumberGives, Zenon
  <2>3. TakeBuilder(Decimal(n), text_builder_append_i32(backend, builder, n))
      BY <1>9, Zenon DEF AppendI32
  <2>4. QED
      BY <1>1, <1>2, <1>3, <2>2, <2>3, TakeSteps, Zenon
<1>10. Held = s /\ builder_bytes(backend, builder) = s
    BY <1>2, HeldNow
<1>11. CASE WriteBuilder
  <2> DEFINE r == stdout_write_builder(backend, builder)
  <2>1. /\ finished = Open /\ UNCHANGED <<backend, asked, finished>>
        /\ builder' = IF r.fault THEN builder ELSE r.value
        /\ written' = IF r.fault THEN written ELSE written \o s
      BY <1>10, <1>11, Zenon DEF WriteBuilder, Usable
  <2>2. r = Fault \/ Gives(backend, r, <<>>)
      BY <1>1, <1>2, WriteGives, Zenon
  <2> HIDE DEF r
  <2>3. CASE r = Fault
    <3>1. builder' = builder /\ written' = written
        BY <2>1, <2>3, FaultIs, Zenon
    <3>2. Holds(backend', builder', s)
        BY <1>2, <2>1, <3>1
    <3>3. Held' = s
        BY <3>2, HeldNext, Zenon
    <3>4. BufferInv' /\ UNCHANGED B!bufferVars
        BY <1>1, <1>10, <2>1, <3>1, <3>2, <3>3, Zenon DEF BufferInv, B!bufferVars
    <3>5. QED
        BY <3>4, Zenon DEF Goal
  <2>4. CASE Gives(backend, r, <<>>)
    <3>1. PICK x : r = Ok(x) /\ Holds(backend, x, <<>>)
        BY <2>4, Zenon DEF Gives
    <3>2. r.fault = FALSE /\ r.value = x
        BY <3>1, OkIs, Zenon
    <3>3. builder' = x /\ written' = written \o s
        BY <2>1, <3>2, Zenon
    <3>4. Holds(backend', builder', <<>>)
        BY <2>1, <3>1, <3>3
    <3>5. Held' = <<>>
        BY <3>4, HeldNext, Zenon
    <3>6. BufferInv' /\ B!Write
        BY <1>1, <1>10, <2>1, <3>3, <3>4, <3>5, Zenon DEF BufferInv, B!Write, B!Open, Open
    <3>7. QED
        BY <3>6, Zenon DEF Goal, B!Next
  <2>5. QED
      BY <2>2, <2>3, <2>4
<1>12. CASE FinishBuilder
  <2> DEFINE r == text_builder_finish(backend, builder)
  <2>1. /\ finished = Open /\ UNCHANGED <<backend, asked, written>>
        /\ finished' = IF r.fault THEN finished ELSE r.value
        /\ builder' = IF r.fault THEN builder ELSE text_builder_new(backend).value
      BY <1>12, Zenon DEF FinishBuilder, Usable
  <2>2. r = Fault \/ r = Ok(s)
      BY <1>1, <1>2, FinishGives, Zenon
  <2> HIDE DEF r
  <2>3. CASE r = Fault
    <3>1. builder' = builder /\ finished' = finished
        BY <2>1, <2>3, FaultIs, Zenon
    <3>2. Holds(backend', builder', s)
        BY <1>2, <2>1, <3>1
    <3>3. Held' = s
        BY <3>2, HeldNext, Zenon
    <3>4. BufferInv' /\ UNCHANGED B!bufferVars
        BY <1>1, <1>10, <2>1, <3>1, <3>2, <3>3, Zenon DEF BufferInv, B!bufferVars
    <3>5. QED
        BY <3>4, Zenon DEF Goal
  <2>4. CASE r = Ok(s)
    <3>1. r.fault = FALSE /\ r.value = s
        BY <2>4, OkIs, Zenon
    <3>2. builder' = text_builder_new(backend).value /\ finished' = s
        BY <2>1, <3>1, Zenon
    <3>3. Holds(backend', builder', <<>>)
        BY <1>1, <2>1, <3>2, NewHolds, Zenon
    <3>4. Held' = <<>>
        BY <3>3, HeldNext, Zenon
    <3>5. BufferInv' /\ B!Finish
        BY <1>1, <1>10, <2>1, <3>2, <3>3, <3>4, Zenon DEF BufferInv, B!Finish, B!Open, Open
    <3>6. QED
        BY <3>5, Zenon DEF Goal, B!Next
  <2>5. QED
      BY <2>2, <2>3, <2>4
<1>13. QED
    BY <1>5, <1>6, <1>7, <1>8, <1>9, <1>11, <1>12, Zenon DEF BuilderNext
=============================================================================
