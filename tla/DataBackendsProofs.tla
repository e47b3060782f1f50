------------------------- MODULE DataBackendsProofs -------------------------
(***************************************************************************)
(* Facts about the data builtins of every backend, for every text: byte    *)
(* strings that stand for a window of a text, the characters a range of a  *)
(* text holds, the rounds of line and field loops.                         *)
(***************************************************************************)
EXTENDS DataBackends, TextBytesProofs

-----------------------------------------------------------------------------
(* The four modules speak of the same bytes *)

\* At, Cut and Clip are the same operators in each.
LEMMA SameBytes ==
    /\ \A t, i : I!At(t, i) = At(t, i) /\ N!At(t, i) = At(t, i)
    /\ \A t, i : J!At(t, i) = At(t, i) /\ W!At(t, i) = At(t, i)
    /\ \A t, s, e : I!Cut(t, s, e) = Cut(t, s, e) /\ N!Cut(t, s, e) = Cut(t, s, e)
    /\ \A t, s, e : J!Cut(t, s, e) = Cut(t, s, e) /\ W!Cut(t, s, e) = Cut(t, s, e)
    /\ \A i, n : I!Clip(i, n) = Clip(i, n) /\ N!Clip(i, n) = Clip(i, n)
    /\ \A i, n : J!Clip(i, n) = Clip(i, n) /\ W!Clip(i, n) = Clip(i, n)
BY DEF At, Cut, Clip, I!At, I!Cut, I!Clip, N!At, N!Cut, N!Clip, J!At, J!Cut, J!Clip,
       W!At, W!Cut, W!Clip

\* So are Min and Max,
LEMMA SameExtremes ==
    /\ \A S : I!Min(S) = Min(S) /\ N!Min(S) = Min(S) /\ J!Min(S) = Min(S) /\ W!Min(S) = Min(S)
    /\ \A S : I!Max(S) = Max(S) /\ N!Max(S) = Max(S) /\ J!Max(S) = Max(S) /\ W!Max(S) = Max(S)
BY DEF Min, Max, I!Min, N!Min, J!Min, W!Min, I!Max, N!Max, J!Max, W!Max

\* FirstAt,
LEMMA SameSearch ==
    /\ \A t, b, s, e : I!FirstAt(t, b, s, e) = FirstAt(t, b, s, e)
    /\ \A t, b, s, e : N!FirstAt(t, b, s, e) = FirstAt(t, b, s, e)
    /\ \A t, b, s, e : J!FirstAt(t, b, s, e) = FirstAt(t, b, s, e)
    /\ \A t, b, s, e : W!FirstAt(t, b, s, e) = FirstAt(t, b, s, e)
BY SameBytes, SameExtremes, Zenon DEF FirstAt, I!FirstAt, N!FirstAt, J!FirstAt, W!FirstAt

\* and Boundary.
LEMMA SameBoundaries ==
    /\ \A t, i : I!Boundary(t, i) = Boundary(t, i) /\ N!Boundary(t, i) = Boundary(t, i)
    /\ \A t, i : W!Boundary(t, i) = Boundary(t, i)
BY SameBytes, ZenonT(40) DEF Boundary, I!Boundary, N!Boundary, W!Boundary, Continuation,
                    I!Continuation, N!Continuation, W!Continuation

\* The range helpers, at offsets inside the text.
LEMMA RangeHelpers ==
    ASSUME NEW t, Len(t) \in Nat, NEW i \in 0 .. Len(t)
    PROVE  /\ I!clamp_text_slice_start(t, i) = ForwardTo(t, i)
           /\ I!clamp_text_slice_end(t, i) = BackTo(t, i)
           /\ N!range_start(t, i) = ForwardTo(t, i)
           /\ N!range_end(t, i) = Max({0} \cup {j \in 0 .. i : Boundary(t, j)})
           /\ W!clamp_start(t, i) = ForwardTo(t, i)
           /\ W!clamp_end(t, i) = BackTo(t, i)
<1>1. Clip(i, Len(t)) = i
    BY DEF Clip
<1>2. QED
    BY <1>1, SameBytes, SameExtremes, SameBoundaries, Zenon
    DEF ForwardTo, BackTo, I!clamp_text_slice_start, I!clamp_text_slice_end, N!range_start,
        N!range_end, W!clamp_start, W!clamp_end

\* And at boundaries.
LEMMA AtBoundaries ==
    ASSUME NEW t, Len(t) \in Nat, NEW i \in 0 .. Len(t), Boundary(t, i)
    PROVE  /\ I!clamp_text_slice_start(t, i) = i /\ I!clamp_text_slice_end(t, i) = i
           /\ N!range_start(t, i) = i /\ N!range_end(t, i) = i
           /\ W!clamp_start(t, i) = i /\ W!clamp_end(t, i) = i
<1>1. ForwardTo(t, i) = i
    BY ForwardIs
<1>2. BackTo(t, i) = i /\ Max({0} \cup {j \in 0 .. i : Boundary(t, j)}) = i
    BY BackIs
<1>3. QED
    BY <1>1, <1>2, RangeHelpers

-----------------------------------------------------------------------------
(* Byte strings that stand for a window of a text *)

\* v, on backend k, stands for the bytes of t in [a, b).
StandsFor(k, v, t, a, b) ==
    \/ /\ k = "interp"
       /\ \E f \in BOOLEAN : v = [view |-> f, data |-> t, offset |-> a, len |-> b - a]
    \/ /\ k = "native"
       /\ \/ v = [view |-> TRUE, data |-> t, offset |-> a, len |-> b - a]
          \/ v = [view |-> FALSE, data |-> t, offset |-> 0, len |-> Len(t)] /\ a = 0 /\ b = Len(t)
          \/ v = [view |-> FALSE, data |-> <<>>, offset |-> 0, len |-> 0] /\ a = b
    \/ k \in {"jit", "wasm"} /\ v = Cut(t, a, b)

\* What a reader of the byte string finds.
ReadsAs(k, v, content) ==
    /\ bytes_content(k, v) = content
    /\ \A i \in 0 .. (Len(content) - 1) : bytes_byte(k, v, i) = At(content, i)

SearchesAs(k, v, content) ==
    \A b \in {10, 44, 97} :
      LET at == FirstAt(content, b, 0, Len(content))
      IN  /\ bytes_find_byte_range(k, v, 0, Len(content), b) = {at}
          /\ bytes_next_field(k, v, 0, Len(content), b) =
               IF at < Len(content) THEN at + 1 ELSE Len(content)

\* The whole of a text.
LEMMA WholeStands ==
    ASSUME NEW k \in Backends, NEW t \in Seq(Int)
    PROVE  StandsFor(k, text_to_bytes(k, t), t, 0, Len(t))
<1>1. CASE k = "interp"
  <2>1. text_to_bytes(k, t) = [view |-> FALSE, data |-> t, offset |-> 0, len |-> Len(t) - 0]
      BY <1>1 DEF text_to_bytes, I!text_to_bytes
  <2>2. QED
      BY <1>1, <2>1, Zenon DEF StandsFor
<1>2. k = "native" => StandsFor(k, text_to_bytes(k, t), t, 0, Len(t))
    BY DEF StandsFor, text_to_bytes, N!text_to_bytes
<1>3. k \in {"jit", "wasm"} => StandsFor(k, text_to_bytes(k, t), t, 0, Len(t))
    BY CutWhole DEF StandsFor, text_to_bytes, J!text_to_bytes, W!text_to_bytes
<1>4. QED
    BY <1>1, <1>2, <1>3 DEF Backends

\* A slice stands for the part of the window between the offsets, clipped to it.
LEMMA SliceStands ==
    ASSUME NEW k \in Backends, NEW t \in Seq(Int), NEW a \in 0 .. Len(t), NEW b \in a .. Len(t),
           NEW v, StandsFor(k, v, t, a, b), NEW s \in Nat, NEW e \in Nat,
           NEW c, NEW d, c = Min({s, b - a}), d = Max({c, Min({e, b - a})})
    PROVE  /\ c \in 0 .. b - a /\ d \in c .. b - a
           /\ StandsFor(k, bytes_slice(k, v, s, e), t, a + c, a + d)
<1>1. /\ c = IF s <= b - a THEN s ELSE b - a
      /\ c \in 0 .. b - a
    BY OfTwo, SMTT(30)
<1>2. /\ d = IF e <= c THEN c ELSE IF e <= b - a THEN e ELSE b - a
      /\ d \in c .. b - a
  <2>1. Min({e, b - a}) = IF e <= b - a THEN e ELSE b - a
      BY OfTwo
  <2> DEFINE m == Min({e, b - a})
  <2>3. m \in Int /\ c \in Int /\ d = Max({c, m})
      BY <1>1, <2>1
  <2>4. d = IF c >= m THEN c ELSE m
      BY <2>3, OfTwo, Zenon
  <2>5. QED
      BY <1>1, <2>1, <2>4, SMTT(30)
<1> SUFFICES StandsFor(k, bytes_slice(k, v, s, e), t, a + c, a + d)
    BY <1>1, <1>2
<1>3. /\ Clip(s, b - a) = c
      /\ Max({c, Clip(e, b - a)}) = d
      /\ Clip(e, b - a) = d \/ (Clip(e, b - a) <= c /\ d = c)
      /\ Clip(e, b - a) \in Nat
  <2>1. Clip(s, b - a) = c /\ Clip(e, b - a) = (IF e <= b - a THEN e ELSE b - a)
      BY <1>1 DEF Clip
  <2> DEFINE m == Clip(e, b - a)
  <2>3. m \in Int /\ c \in Int
      BY <1>1, <2>1
  <2>4. Max({c, m}) = IF c >= m THEN c ELSE m
      BY <2>3, OfTwo, Zenon
  <2>5. m = (IF e <= b - a THEN e ELSE b - a) /\ b - a \in Nat
      BY <2>1
  <2> HIDE DEF m
  <2>6. CASE e <= c
    <3>1. d = c /\ m = e
        BY <1>1, <1>2, <2>5, <2>6
    <3>2. QED
        BY <1>1, <2>1, <2>4, <2>6, <3>1 DEF m
  <2>7. CASE ~(e <= c)
    <3>1. d = m /\ m >= c /\ m \in Nat
        BY <1>1, <1>2, <2>5, <2>7
    <3>2. QED
        BY <1>1, <2>1, <2>4, <3>1 DEF m
  <2>8. QED
      BY <2>6, <2>7
<1>4. /\ N!unsigned_clip(s, b - a) = Clip(s, b - a)
      /\ N!unsigned_clip(e, b - a) = Clip(e, b - a)
    BY DEF N!unsigned_clip, Clip
<1>5. (a + d) - (a + c) = d - c
    BY <1>1, <1>2
<1>6. CASE k = "interp"
  <2>1. v.data = t /\ v.offset = a /\ v.len = b - a
      BY <1>6 DEF StandsFor
  <2>2. bytes_slice(k, v, s, e) = [view |-> TRUE, data |-> t, offset |-> a + c, len |-> d - c]
      BY <1>3, <1>6, <2>1, SameBytes, SameExtremes, Zenon DEF bytes_slice, I!bytes_slice
  <2>3. QED
      BY <1>1, <1>2, <1>5, <1>6, <2>2, Zenon DEF StandsFor
<1>7. CASE k = "native"
  <2>1. v.len = b - a /\ (b - a # 0 => v.data = t /\ v.offset = a)
      BY <1>7 DEF StandsFor
  <2>2. CASE d = c
    <3>1. Clip(e, b - a) <= c
        BY <1>1, <1>2, <1>3, <2>2
    <3>2. bytes_slice(k, v, s, e) = N!text_to_bytes(<<>>)
        BY <1>3, <1>4, <1>7, <2>1, <3>1 DEF bytes_slice, N!bytes_slice
    <3>3. bytes_slice(k, v, s, e) = [view |-> FALSE, data |-> <<>>, offset |-> 0, len |-> 0]
        BY <3>2 DEF N!text_to_bytes
    <3>4. QED
        BY <1>1, <1>2, <1>7, <2>2, <3>3 DEF StandsFor
  <2>3. CASE d # c
    <3>1. Clip(e, b - a) = d /\ ~(d <= c) /\ b - a # 0
        BY <1>1, <1>2, <1>3, <2>3
    <3>2. bytes_slice(k, v, s, e) = [view |-> TRUE, data |-> t, offset |-> a + c, len |-> d - c]
        BY <1>3, <1>4, <1>7, <2>1, <3>1, Zenon DEF bytes_slice, N!bytes_slice
    <3>3. QED
        BY <1>1, <1>2, <1>5, <1>7, <3>2 DEF StandsFor
  <2>4. QED
      BY <2>2, <2>3
<1>8. CASE k \in {"jit", "wasm"}
  <2>1. v = Cut(t, a, b) /\ v \in Seq(Int) /\ Len(v) = b - a
    <3>1. v = Cut(t, a, b)
        BY <1>8 DEF StandsFor
    <3>2. QED
        BY <3>1, CutIs, Zenon
  <2>2. Cut(v, c, d) = Cut(t, a + c, a + d)
      BY <1>1, <1>2, <2>1, CutCut, SMTT(30)
  <2>3. CASE k = "jit"
    <3>1. J!clipped_end(v, s, e) = d
        BY <1>3, <2>1, SameBytes, SameExtremes, Zenon DEF J!clipped_end
    <3>2. bytes_slice(k, v, s, e) = Cut(v, c, d)
        BY <1>3, <2>1, <2>3, <3>1, SameBytes DEF bytes_slice, J!bytes_slice, J!text_slice
    <3>3. QED
        BY <2>2, <2>3, <3>2, Zenon DEF StandsFor
  <2>4. CASE k = "wasm"
    <3>1. bytes_slice(k, v, s, e) = IF Clip(e, b - a) <= c THEN <<>> ELSE Cut(v, c, Clip(e, b - a))
        BY <1>3, <2>1, <2>4, SameBytes DEF bytes_slice, W!bytes_slice
    <3>2. d = c => Cut(v, c, d) = <<>>
        BY <1>1, <1>2, <2>1, CutEmpty
    <3>3. bytes_slice(k, v, s, e) = Cut(v, c, d)
        BY <1>1, <1>2, <1>3, <3>1, <3>2, SMTT(30)
    <3>4. QED
        BY <2>2, <2>4, <3>3, Zenon DEF StandsFor
  <2>5. QED
      BY <1>8, <2>3, <2>4
<1>9. QED
    BY <1>6, <1>7, <1>8 DEF Backends

\* A byte string reads as the bytes it stands for.
LEMMA StandsReads ==
    ASSUME NEW k \in Backends, NEW t \in Seq(Int), NEW a \in 0 .. Len(t), NEW b \in a .. Len(t),
           NEW v, StandsFor(k, v, t, a, b)
    PROVE  ReadsAs(k, v, Cut(t, a, b))
<1> DEFINE content == Cut(t, a, b)
<1>1. /\ content \in Seq(Int) /\ Len(content) = b - a
      /\ \A i \in 0 .. b - a - 1 : At(content, i) = At(t, a + i)
    BY CutIs
<1> SUFFICES ReadsAs(k, v, content)
    OBVIOUS
<1> HIDE DEF content
<1>2. CASE k = "interp"
  <2>1. v.data = t /\ v.offset = a /\ v.len = b - a
      BY <1>2 DEF StandsFor
  <2>2. bytes_content(k, v) = content
      BY <1>2, <2>1, a + (b - a) = b, SameBytes DEF bytes_content, I!bytes_content, content
  <2>3. ASSUME NEW i \in 0 .. Len(content) - 1 PROVE bytes_byte(k, v, i) = At(content, i)
    <3>1. bytes_byte(k, v, i) = At(t, a + i)
        BY <1>1, <1>2, <2>1, SameBytes DEF bytes_byte, I!bytes_byte
    <3>2. QED
        BY <1>1, <3>1
  <2>4. QED
      BY <2>2, <2>3 DEF ReadsAs
<1>3. CASE k = "native"
  <2>1. v.len = b - a
        /\ ((v.data = t /\ v.offset = a) \/ (v.data = <<>> /\ v.offset = 0 /\ a = b))
      BY <1>3 DEF StandsFor
  <2>2. bytes_content(k, v) = Cut(v.data, v.offset, v.offset + v.len)
      BY <1>3, SameBytes DEF bytes_content, N!bytes_content
  <2>3. CASE v.data = t /\ v.offset = a
    <3>1. bytes_content(k, v) = content
        BY <2>1, <2>2, <2>3, a + (b - a) = b DEF content
    <3>2. ASSUME NEW i \in 0 .. b - a - 1 PROVE bytes_byte(k, v, i) = At(t, a + i)
        BY <1>3, <2>1, <2>3, SameBytes DEF bytes_byte, N!bytes_byte
    <3>3. QED
        BY <1>1, <3>1, <3>2 DEF ReadsAs
  <2>4. CASE v.data = <<>> /\ v.offset = 0 /\ a = b
    <3>1. content = <<>>
        BY <2>4, CutEmpty DEF content
    <3>2. bytes_content(k, v) = <<>>
      <4>1. Cut(<<>>, 0, 0) = <<>>
          BY DEF Cut
      <4>2. v.offset + v.len = 0
          BY <2>1, <2>4
      <4>3. QED
          BY <2>2, <2>4, <4>1, <4>2
    <3>3. QED
        BY <3>1, <3>2 DEF ReadsAs
  <2>5. QED
      BY <2>1, <2>3, <2>4
<1>4. CASE k \in {"jit", "wasm"}
  <2>1. v = content
      BY <1>4 DEF StandsFor, content
  <2>2. bytes_content(k, v) = content
      BY <1>4, <2>1 DEF bytes_content, J!bytes_content, W!bytes_content
  <2>3. ASSUME NEW i \in 0 .. Len(content) - 1 PROVE bytes_byte(k, v, i) = At(content, i)
    <3>1. content # <<>> /\ Clip(i, Len(content) - 1) = i /\ i \in W!Offsets(content)
        BY <1>1 DEF Clip, W!Offsets
    <3>2. CASE k = "jit"
        BY <2>1, <3>1, <3>2, SameBytes DEF bytes_byte, J!bytes_byte
    <3>3. CASE k = "wasm"
        BY <2>1, <3>1, <3>3, SameBytes DEF bytes_byte, W!text_byte
    <3>4. QED
        BY <1>4, <3>2, <3>3
  <2>4. QED
      BY <2>2, <2>3 DEF ReadsAs
<1>5. QED
    BY <1>2, <1>3, <1>4 DEF Backends

\* The searches, over all of a byte string.
InterpWindow(v, t, a, b, n, x) ==
    /\ t \in Seq(Int) /\ a \in 0 .. Len(t) /\ b \in a .. Len(t) /\ n \in Nat /\ n = b - a
    /\ StandsFor("interp", v, t, a, b) /\ x \in 0 .. 127

\* The interpreter searches the window of a byte string at offsets of its own.
LEMMA InterpSearch ==
    ASSUME NEW v, NEW t, NEW a, NEW b, NEW n, NEW x,
           InterpWindow(v, t, a, b, n, x)
    PROVE  LET at == FirstAt(Cut(t, a, b), x, 0, n)
           IN  /\ I!bytes_find_byte_range(v, 0, n, x) = at
               /\ I!bytes_next_field(v, 0, n, x) = IF at < n THEN at + 1 ELSE n
<1> DEFINE at == FirstAt(Cut(t, a, b), x, 0, n)
<1> USE DEF InterpWindow
<1>1. v.data = t /\ v.offset = a /\ v.len = n
    BY DEF StandsFor
<1>2. at = FirstAt(t, x, a, b) - a
    BY FirstAtCut
<1>3. at \in 0 .. n
  <2>1. FirstAt(t, x, a, b) \in a .. b
      BY FirstAtIs
  <2>2. QED
      BY <1>2, <2>1
<1> HIDE DEF at
<1>4. Clip(0, n) = 0 /\ Clip(n, n) = n /\ Max({0, n}) = n /\ x % 256 = x
  <2>1. Max({0, n}) = n /\ x % 256 = x
      BY MaxSecond, SameByte
  <2>2. Clip(0, n) = 0 /\ Clip(n, n) = n
      BY DEF Clip
  <2>3. QED
      BY <2>1, <2>2
<1>5. I!bytes_find_byte_range(v, 0, n, x) = at
  <2>1. I!bytes_find_byte_range(v, 0, n, x) =
          FirstAt(v.data, x % 256, v.offset + Clip(0, v.len),
                  v.offset + Max({Clip(0, v.len), Clip(n, v.len)})) - v.offset
      BY SameBytes, SameExtremes, SameSearch, Zenon DEF I!bytes_find_byte_range
  <2>2. a + 0 = a /\ a + n = b
      OBVIOUS
  <2>3. I!bytes_find_byte_range(v, 0, n, x) = FirstAt(t, x, a, b) - a
      BY <1>1, <1>4, <2>1, <2>2, ZenonT(40)
  <2>4. QED
      BY <1>2, <2>3
<1>6. I!bytes_next_field(v, 0, n, x) = IF at < n THEN at + 1 ELSE at
  <2>1. I!bytes_next_field(v, 0, n, x) =
          IF I!bytes_find_byte_range(v, 0, n, x) < Max({Clip(0, v.len), Clip(n, v.len)})
          THEN I!bytes_find_byte_range(v, 0, n, x) + 1 ELSE I!bytes_find_byte_range(v, 0, n, x)
      BY SameBytes, SameExtremes, Zenon DEF I!bytes_next_field
  <2>2. QED
      BY <1>1, <1>4, <1>5, <2>1, Zenon
<1>7. ~(at < n) => at = n
    BY <1>3
<1>8. QED
    BY <1>5, <1>6, <1>7, Zenon DEF at

\* The text searches, from an offset to the end of the text.
LEMMA InterpFind ==
    ASSUME NEW t, NEW n \in Nat, n = Len(t), NEW i \in 0 .. n, Boundary(t, i),
           NEW x \in 0 .. 127, NEW at, at = FirstAt(t, x, i, n)
    PROVE  /\ I!text_find_byte_range(t, i, n, x) = at
           /\ I!text_next_field(t, i, n, x) = IF at < n THEN at + 1 ELSE at
<1>1. I!clamp_text_slice_start(t, i) = i
    BY AtBoundaries
<1>2. Boundary(t, n) /\ n \in 0 .. Len(t)
    BY DEF Boundary
<1>3. I!clamp_text_slice_end(t, n) = n
    BY <1>2, AtBoundaries
<1>4. Max({i, n}) = n /\ x % 256 = x
    BY MaxSecond, SameByte
<1>5. I!clamped_end(t, i, n) = n
    BY <1>1, <1>3, <1>4, SameExtremes, Zenon DEF I!clamped_end
<1>6. I!text_find_byte_range(t, i, n, x) = at
    BY <1>1, <1>4, <1>5, SameSearch, Zenon DEF I!text_find_byte_range
<1>7. I!text_next_field(t, i, n, x) = IF at < n THEN at + 1 ELSE at
    BY <1>5, <1>6, Zenon DEF I!text_next_field
<1>8. QED
    BY <1>6, <1>7

\* The native runtime finds the first place of a byte, and the offset behind it.
LEMMA NativeFind ==
    ASSUME NEW t, NEW n \in Nat, n = Len(t), NEW i \in 0 .. n, Boundary(t, i),
           NEW x \in 0 .. 127, NEW at, at = FirstAt(t, x, i, n)
    PROVE  /\ N!text_find_byte_range(t, i, n, x) = at
           /\ N!text_next_field(t, i, n, x) = IF at < n THEN at + 1 ELSE at
<1>1. N!range_start(t, i) = i
    BY AtBoundaries
<1>2. Boundary(t, n) /\ n \in 0 .. Len(t)
    BY DEF Boundary
<1>3. N!range_end(t, n) = n
    BY <1>2, AtBoundaries
<1>4. Max({i, n}) = n /\ x % 256 = x
    BY MaxSecond, SameByte
<1>5. N!clamp_text_range_end(t, i, n) = n
    BY <1>1, <1>3, <1>4, SameExtremes, Zenon DEF N!clamp_text_range_end
<1>6. N!text_find_byte_range(t, i, n, x) = at
    BY <1>1, <1>4, <1>5, SameSearch, Zenon DEF N!text_find_byte_range
<1>7. N!text_next_field(t, i, n, x) = IF at < n THEN at + 1 ELSE at
    BY <1>6, Zenon DEF N!text_next_field
<1>8. QED
    BY <1>6, <1>7

\* So does the JIT.
LEMMA JitFind ==
    ASSUME NEW t, NEW n \in Nat, n = Len(t), NEW i \in 0 .. n,
           NEW x \in 0 .. 127, NEW at, at = FirstAt(t, x, i, n)
    PROVE  /\ J!text_find_byte_range(t, i, n, x) = at
           /\ J!text_next_field(t, i, n, x) = IF at < n THEN at + 1 ELSE at
<1>1. Clip(i, n) = i /\ Clip(n, n) = n
    BY DEF Clip
<1>2. Max({i, n}) = n /\ x % 256 = x
    BY MaxSecond, SameByte
<1>3. J!clipped_end(t, i, n) = n
    BY <1>1, <1>2, SameBytes, SameExtremes, Zenon DEF J!clipped_end
<1>4. J!text_find_byte_range(t, i, n, x) = IF at < n THEN at ELSE n
    BY <1>1, <1>2, <1>3, SameBytes, SameSearch, ZenonT(40) DEF J!text_find_byte_range
<1>5. at \in i .. n
    BY FirstAtIs
<1>6. ~(at < n) => at = n
    BY <1>5
<1>7. J!text_find_byte_range(t, i, n, x) = at
    BY <1>4, <1>6, Zenon
<1>8. J!text_next_field(t, i, n, x) = IF at < n THEN at + 1 ELSE at
    BY <1>7, Zenon DEF J!text_next_field
<1>9. QED
    BY <1>7, <1>8

\* Wasm starts behind the bytes that continue a character, which are none of the
\* bytes looked for.
LEMMA WasmFind ==
    ASSUME NEW t, NEW n \in Nat, n = Len(t), NEW i \in 0 .. n,
           NEW x \in 0 .. 127, NEW at, at = FirstAt(t, x, i, n)
    PROVE  /\ W!text_find_byte_range(t, i, n, x) = at
           /\ W!text_next_field(t, i, n, x) = IF at < n THEN at + 1 ELSE at
<1>1. PICK r \in i .. n : /\ r = W!clamp_start(t, i)
                          /\ \A j \in i .. r - 1 : At(t, j) \in Continuation
  <2>1. W!clamp_start(t, i) = ForwardTo(t, i)
      BY RangeHelpers, Zenon
  <2>2. /\ ForwardTo(t, i) \in i .. Len(t)
        /\ \A j \in i .. ForwardTo(t, i) - 1 : At(t, j) \in Continuation
      BY ForwardIs
  <2>3. QED
      BY <2>1, <2>2
<1>2. \A j \in i .. r - 1 : At(t, j) # x
  <2>1. x \notin Continuation
      BY DEF Continuation
  <2>2. QED
      BY <1>1, <2>1
<1>3. FirstAt(t, x, r, n) = at
    BY <1>1, <1>2, FirstAtBehind
<1>4. Boundary(t, n) /\ n \in 0 .. Len(t)
    BY DEF Boundary
<1>5. W!clamp_end(t, n) = n
    BY <1>4, AtBoundaries
<1>6. W!text_find_byte_range(t, i, n, x) = at
    BY <1>1, <1>3, <1>5, SameSearch, Zenon DEF W!text_find_byte_range
<1>7. ~(n < 0)
    OBVIOUS
<1>8. W!text_next_field(t, i, n, x) = IF at < n THEN at + 1 ELSE at
    BY <1>6, <1>7, Zenon DEF W!text_next_field, W!text_field_end
<1>9. QED
    BY <1>6, <1>8

\* What a search for a byte below 128 finds in an owned or copied byte string.
LEMMA StandsSearches ==
    ASSUME NEW k \in Backends, NEW t, IsText(t), NEW a \in 0 .. Len(t), NEW b \in a .. Len(t),
           NEW v, StandsFor(k, v, t, a, b), k # "native" \/ ~v.view
    PROVE  SearchesAs(k, v, Cut(t, a, b))
<1> DEFINE content == Cut(t, a, b)
           n == Len(content)
<1>1. /\ t \in Seq(Int) /\ Len(t) \in Nat /\ Boundary(t, 0)
    BY TextEnds
<1>2. content \in Seq(Int) /\ n = b - a /\ n \in Nat
    BY <1>1, CutIs
<1> SUFFICES ASSUME NEW x \in {10, 44, 97}
             PROVE  LET at == FirstAt(content, x, 0, n)
                    IN  /\ bytes_find_byte_range(k, v, 0, n, x) = {at}
                        /\ bytes_next_field(k, v, 0, n, x) = IF at < n THEN at + 1 ELSE n
    BY Zenon DEF SearchesAs
<1> DEFINE at == FirstAt(content, x, 0, n)
<1>3. x \in 0 .. 127 /\ 0 \in 0 .. n
    BY <1>2
<1>4. at \in 0 .. n
    BY <1>2, FirstAtIs
<1>5. ~(at < n) => at = n
    BY <1>2, <1>4
<1> HIDE DEF content, n, at
<1>6. CASE k = "interp"
  <2>1. InterpWindow(v, t, a, b, n, x) /\ at = FirstAt(Cut(t, a, b), x, 0, n)
      BY <1>1, <1>2, <1>3, <1>6 DEF content, at, InterpWindow
  <2>2. /\ I!bytes_find_byte_range(v, 0, n, x) = at
        /\ I!bytes_next_field(v, 0, n, x) = IF at < n THEN at + 1 ELSE n
    <3>1. InterpWindow(v, t, a, b, n, x)
        BY <2>1
    <3>2. LET f == FirstAt(Cut(t, a, b), x, 0, n)
          IN  /\ I!bytes_find_byte_range(v, 0, n, x) = f
              /\ I!bytes_next_field(v, 0, n, x) = IF f < n THEN f + 1 ELSE n
        BY <3>1, InterpSearch
    <3>3. QED
        BY <2>1, <3>2, Zenon
  <2>3. QED
      BY <1>6, <2>2, Zenon DEF bytes_find_byte_range, bytes_next_field, at
<1>7. CASE k = "native"
  <2>1. v.data = content /\ ~v.view
    <3>1. CASE v.data = t /\ a = 0 /\ b = Len(t)
        BY <1>1, <1>7, <3>1, CutWhole DEF content
    <3>2. CASE v.data = <<>> /\ a = b
        BY <1>1, <1>7, <3>2, CutEmpty DEF content
    <3>3. QED
        BY <1>7, <3>1, <3>2 DEF StandsFor
  <2>2. Boundary(content, 0)
    <3>1. CASE n = 0
        BY <3>1 DEF n, Boundary
    <3>2. CASE n # 0
      <4>1. content = t
        <5>1. v = [view |-> FALSE, data |-> t, offset |-> 0, len |-> Len(t)] /\ a = 0 /\ b = Len(t)
            BY <1>1, <1>2, <1>7, <3>2 DEF StandsFor
        <5>2. QED
            BY <1>1, <5>1, CutWhole DEF content
      <4>2. QED
          BY <1>1, <4>1
    <3>3. QED
        BY <3>1, <3>2
  <2>3. /\ N!text_find_byte_range(content, 0, n, x) = at
        /\ N!text_next_field(content, 0, n, x) = IF at < n THEN at + 1 ELSE at
      BY <1>2, <1>3, <2>2, NativeFind, Zenon DEF n, at
  <2>4. QED
      BY <1>5, <1>7, <2>1, <2>3, Zenon
      DEF bytes_find_byte_range, bytes_next_field, N!bytes_find_byte_range, at
<1>8. CASE k = "jit"
  <2>1. v = content
      BY <1>8 DEF StandsFor, content
  <2>2. /\ J!text_find_byte_range(content, 0, n, x) = at
        /\ J!text_next_field(content, 0, n, x) = IF at < n THEN at + 1 ELSE at
      BY <1>2, <1>3, JitFind, Zenon DEF n, at
  <2>3. QED
      BY <1>5, <1>8, <2>1, <2>2, Zenon DEF bytes_find_byte_range, bytes_next_field, at
<1>9. CASE k = "wasm"
  <2>1. v = content
      BY <1>9 DEF StandsFor, content
  <2>2. W!text_next_field(content, 0, n, x) = IF at < n THEN at + 1 ELSE at
      BY <1>2, <1>3, WasmFind, Zenon DEF n, at
  <2>3. Clip(0, n) = 0 /\ Clip(n, n) = n
      BY <1>2 DEF Clip
  <2>4. W!bytes_find_byte_range(content, 0, n, x) = at
      BY <2>3, SameBytes, SameSearch, Zenon DEF W!bytes_find_byte_range, n, at
  <2>5. QED
      BY <1>5, <1>9, <2>1, <2>2, <2>4, Zenon DEF bytes_find_byte_range, bytes_next_field, at
<1>10. QED
    BY <1>6, <1>7, <1>8, <1>9 DEF Backends

-----------------------------------------------------------------------------
(* Ranges of a text *)

\* Between boundaries every backend cuts the bytes given.
LEMMA SliceIsCut ==
    ASSUME NEW k \in Backends, NEW t \in Seq(Int), NEW s \in 0 .. Len(t), NEW e \in s .. Len(t),
           Boundary(t, s), Boundary(t, e)
    PROVE  text_slice(k, t, s, e) = Cut(t, s, e)
<1>1. /\ I!clamp_text_slice_start(t, s) = s /\ I!clamp_text_slice_end(t, e) = e
      /\ N!range_start(t, s) = s /\ N!range_end(t, e) = e
      /\ W!clamp_start(t, s) = s /\ W!clamp_end(t, e) = e
    BY AtBoundaries
<1>2. Max({s, e}) = e
    BY MaxSecond
<1>3. /\ Clip(s, Len(t)) = s /\ Clip(e, Len(t)) = e
      /\ N!unsigned_clip(s, Len(t)) = s /\ N!unsigned_clip(e, Len(t)) = e
    BY DEF Clip, N!unsigned_clip
<1>4. e <= s => Cut(t, s, e) = <<>>
    BY CutEmpty
<1>5. CASE k = "interp"
    BY <1>1, <1>2, <1>5, SameBytes, SameExtremes, Zenon DEF text_slice, I!text_slice, I!clamped_end
<1>6. CASE k = "native"
    BY <1>1, <1>3, <1>4, <1>6, SameBytes, Zenon DEF text_slice, N!text_slice
<1>7. CASE k = "jit"
    BY <1>2, <1>3, <1>7, SameBytes, SameExtremes, Zenon DEF text_slice, J!text_slice, J!clipped_end
<1>8. CASE k = "wasm"
    BY <1>1, <1>4, <1>8, SameBytes, Zenon DEF text_slice, W!text_slice
<1>9. QED
    BY <1>5, <1>6, <1>7, <1>8 DEF Backends

\* The range helpers of the backends, at any offset that is not negative.
LEMMA HelpersSpan ==
    ASSUME NEW t, IsText(t), NEW s \in Nat
    PROVE  /\ I!clamp_text_slice_start(t, s) = SpanFrom(t, s)
           /\ I!clamp_text_slice_end(t, s) = SpanTo(t, s)
           /\ N!range_start(t, s) = SpanFrom(t, s) /\ N!range_end(t, s) = SpanTo(t, s)
           /\ N!range_start(t, N!unsigned_clip(s, Len(t))) = SpanFrom(t, s)
           /\ N!range_end(t, N!unsigned_clip(s, Len(t))) = SpanTo(t, s)
           /\ W!clamp_start(t, s) = SpanFrom(t, s) /\ W!clamp_end(t, s) = SpanTo(t, s)
<1> DEFINE i == Clip(s, Len(t))
           u == N!unsigned_clip(s, Len(t))
<1>1. Len(t) \in Nat
    BY TextEnds
<1>2. i \in 0 .. Len(t) /\ u = i /\ Clip(i, Len(t)) = i
    BY <1>1 DEF Clip, N!unsigned_clip
<1>3. Max({0} \cup {j \in 0 .. i : Boundary(t, j)}) = BackTo(t, i)
  <2> HIDE DEF i
  <2>1. QED
      BY <1>2, BackFrom
<1>4. /\ I!clamp_text_slice_start(t, s) = ForwardTo(t, i)
      /\ I!clamp_text_slice_end(t, s) = BackTo(t, i)
      /\ W!clamp_start(t, s) = ForwardTo(t, i) /\ W!clamp_end(t, s) = BackTo(t, i)
    BY SameBytes, SameExtremes, SameBoundaries, Zenon
    DEF ForwardTo, BackTo, I!clamp_text_slice_start, I!clamp_text_slice_end, W!clamp_start,
        W!clamp_end
<1>5. N!range_start(t, s) = ForwardTo(t, i) /\ N!range_start(t, i) = ForwardTo(t, i)
    BY <1>2, SameBytes, SameExtremes, SameBoundaries, Zenon DEF ForwardTo, N!range_start
<1>6. N!range_end(t, s) = BackTo(t, i) /\ N!range_end(t, i) = BackTo(t, i)
    BY <1>2, <1>3, SameBytes, SameExtremes, SameBoundaries, Zenon DEF N!range_end
<1>7. SpanFrom(t, s) = ForwardTo(t, i) /\ SpanTo(t, s) = BackTo(t, i)
    BY Zenon DEF SpanFrom, SpanTo
<1> HIDE DEF i, u
<1>8. N!range_start(t, u) = ForwardTo(t, i) /\ N!range_end(t, u) = BackTo(t, i)
    BY <1>2, <1>5, <1>6, Zenon
<1>9. QED
    BY <1>4, <1>5, <1>6, <1>7, <1>8, Zenon DEF u

\* Two strings of bytes are equal when Wasm finds them so.
LEMMA WasmEqual ==
    ASSUME NEW l \in Seq(Int), NEW r \in Seq(Int)
    PROVE  W!text_eq(l, r) <=> l = r
<1>1. ASSUME W!text_eq(l, r) PROVE l = r
  <2>1. Len(l) = Len(r) /\ Len(l) \in Nat
      BY <1>1 DEF W!text_eq
  <2>2. ASSUME NEW i \in 1 .. Len(l) PROVE l[i] = r[i]
    <3>1. i - 1 \in W!Offsets(l) /\ (i - 1) + 1 = i
        BY <2>1 DEF W!Offsets
    <3>2. W!At(l, i - 1) = W!At(r, i - 1)
        BY <1>1, <3>1 DEF W!text_eq
    <3>3. QED
        BY <3>1, <3>2 DEF W!At
  <2>3. QED
      BY <2>1, <2>2, SMTT(30)
<1>2. QED
    BY <1>1 DEF W!text_eq

\* What the JIT is asked for: offsets in the text are boundaries.
WholeCharacters(k, t, s, e) == k # "jit" \/ (\A i \in {s, e} : i <= Len(t) => Boundary(t, i))

\* Every backend slices and compares the span.
LEMMA SliceIsSpan ==
    ASSUME NEW k \in Backends, NEW t, IsText(t), NEW s \in Nat, NEW e \in Nat,
           WholeCharacters(k, t, s, e)
    PROVE  /\ text_slice(k, t, s, e) = Span(t, s, e) /\ Span(t, s, e) \in Seq(Int)
           /\ \A x \in Seq(Int) : text_eq_range(k, t, s, e, x) <=> Span(t, s, e) = x
<1> DEFINE a == SpanFrom(t, s)
           z == SpanTo(t, e)
<1>1. t \in Seq(Int) /\ Len(t) \in Nat /\ a \in 0 .. Len(t) /\ z \in 0 .. Len(t)
    BY TextEnds, SpanHolds
<1>2. Cut(t, a, Max({a, z})) = Span(t, s, e)
    BY RaisedIsSpan
<1>3. (IF z <= a THEN <<>> ELSE Cut(t, a, z)) = Span(t, s, e)
  <2>1. z <= a <=> ~(a < z)
      BY <1>1
  <2>2. QED
      BY <2>1, Zenon DEF Span
<1>4. Span(t, s, e) \in Seq(Int)
  <2> HIDE DEF a, z
  <2>1. Cut(t, a, z) \in Seq(Int)
      BY <1>1 DEF Cut
  <2>2. <<>> \in Seq(Int)
      OBVIOUS
  <2>3. QED
      BY <1>3, <2>1, <2>2, Zenon
<1>5. CASE k = "interp"
  <2>1. I!text_slice(t, s, e) = Span(t, s, e)
      BY <1>2, HelpersSpan, SameBytes, SameExtremes, Zenon DEF I!text_slice, I!clamped_end
  <2>2. QED
      BY <1>4, <1>5, <2>1, Zenon DEF text_slice, text_eq_range, I!text_eq_range
<1>6. CASE k = "native"
  <2>1. N!text_slice(t, s, e) = Span(t, s, e)
      BY <1>3, HelpersSpan, SameBytes, Zenon DEF N!text_slice
  <2>2. N!Cut(t, N!range_start(t, s), N!clamp_text_range_end(t, s, e)) = Span(t, s, e)
      BY <1>2, HelpersSpan, SameBytes, SameExtremes, Zenon DEF N!clamp_text_range_end
  <2>3. QED
      BY <1>4, <1>6, <2>1, <2>2, Zenon DEF text_slice, text_eq_range, N!text_eq_range
<1>7. CASE k = "wasm"
  <2>1. W!text_slice(t, s, e) = Span(t, s, e)
      BY <1>3, HelpersSpan, SameBytes, Zenon DEF W!text_slice
  <2>2. ASSUME NEW x \in Seq(Int) PROVE W!text_eq_range(t, s, e, x) <=> Span(t, s, e) = x
      BY <1>4, <2>1, WasmEqual, Zenon DEF W!text_eq_range
  <2>3. QED
      BY <1>4, <1>7, <2>1, <2>2, Zenon DEF text_slice, text_eq_range
<1>8. CASE k = "jit"
  <2>1. /\ Clip(s, Len(t)) \in 0 .. Len(t) /\ Boundary(t, Clip(s, Len(t)))
        /\ Clip(e, Len(t)) \in 0 .. Len(t) /\ Boundary(t, Clip(e, Len(t)))
      BY <1>1, <1>8, TextEnds DEF Clip, WholeCharacters
  <2>2. a = Clip(s, Len(t)) /\ z = Clip(e, Len(t))
      BY <1>1, <2>1, ForwardIs, BackIs, Zenon DEF SpanFrom, SpanTo
  <2>3. J!text_slice(t, s, e) = Span(t, s, e)
    <3> HIDE DEF a, z
    <3>1. QED
        BY <1>2, <2>2, SameBytes, SameExtremes, Zenon DEF J!text_slice, J!clipped_end
  <2>4. QED
      BY <1>4, <1>8, <2>3, Zenon DEF text_slice, text_eq_range, J!text_eq_range
<1>9. QED
    BY <1>5, <1>6, <1>7, <1>8 DEF Backends

\* Two slices that meet at a boundary are the text.
LEMMA SlicesMeet ==
    ASSUME NEW k \in Backends, NEW t, IsText(t), NEW i \in 0 .. Len(t), Boundary(t, i)
    PROVE  t = text_concat(k, text_slice(k, t, 0, i), text_slice(k, t, i, Len(t)))
<1> DEFINE l == Cut(t, 0, i)
           r == Cut(t, i, Len(t))
<1>1. t \in Seq(Int) /\ Len(t) \in Nat /\ Boundary(t, 0) /\ Boundary(t, Len(t))
    BY TextEnds
<1>2. text_slice(k, t, 0, i) = l /\ text_slice(k, t, i, Len(t)) = r
    BY <1>1, SliceIsCut
<1>3. t = l \o r
    BY <1>1, CutsMeet
<1> HIDE DEF l, r
<1>4. text_concat(k, l, r) = l \o r
    BY Zenon DEF text_concat, Backends, I!text_concat, N!text_concat, J!text_concat, W!text_concat
<1>5. QED
    BY <1>2, <1>3, <1>4, Zenon

-----------------------------------------------------------------------------
(* The rounds of line and field loops *)

\* A round of a loop at an offset, with its separator next at e.
RoundAt(k, t, i, b, e) ==
    /\ k \in Backends /\ IsText(t) /\ i \in 0 .. Len(t) - 1 /\ Boundary(t, i)
    /\ b \in 0 .. 127 /\ e = NextOf(t, b, i)

\* One round of the field loop.
LEMMA FieldRound ==
    ASSUME NEW k, NEW t, NEW i, NEW b, NEW e, RoundAt(k, t, i, b, e)
    PROVE  /\ text_field_end(k, t, i, Len(t), b) = e
           /\ text_next_field(k, t, i, Len(t), b) = Behind(t, e)
<1>0. /\ k \in Backends /\ IsText(t) /\ i \in 0 .. Len(t) - 1 /\ Boundary(t, i)
      /\ b \in 0 .. 127 /\ e = NextOf(t, b, i)
    BY Zenon DEF RoundAt
<1> USE <1>0
<1>1. Len(t) \in Nat /\ i \in 0 .. Len(t) /\ e = FirstAt(t, b, i, Len(t))
    BY TextEnds DEF NextOf
<1>2. CASE k = "interp"
  <2>1. /\ I!text_find_byte_range(t, i, Len(t), b) = e
        /\ I!text_next_field(t, i, Len(t), b) = IF e < Len(t) THEN e + 1 ELSE e
      BY <1>1, InterpFind, Zenon
  <2>2. QED
      BY <1>2, <2>1, Zenon DEF text_field_end, text_next_field, I!text_field_end, Behind
<1>3. CASE k = "native"
  <2>1. /\ N!text_find_byte_range(t, i, Len(t), b) = e
        /\ N!text_next_field(t, i, Len(t), b) = IF e < Len(t) THEN e + 1 ELSE e
      BY <1>1, NativeFind, Zenon
  <2>2. QED
      BY <1>3, <2>1, Zenon DEF text_field_end, text_next_field, N!text_field_end, Behind
<1>4. CASE k = "jit"
  <2>1. /\ J!text_find_byte_range(t, i, Len(t), b) = e
        /\ J!text_next_field(t, i, Len(t), b) = IF e < Len(t) THEN e + 1 ELSE e
      BY <1>1, JitFind, Zenon
  <2>2. QED
      BY <1>4, <2>1, Zenon DEF text_field_end, text_next_field, J!text_field_end, Behind
<1>5. CASE k = "wasm"
  <2>1. /\ W!text_find_byte_range(t, i, Len(t), b) = e
        /\ W!text_next_field(t, i, Len(t), b) = IF e < Len(t) THEN e + 1 ELSE e
      BY <1>1, WasmFind, Zenon
  <2>2. QED
      BY <1>5, <2>1, Zenon DEF text_field_end, text_next_field, W!text_field_end, Behind
<1>6. QED
    BY <1>2, <1>3, <1>4, <1>5 DEF Backends

\* One round of the line loop, in the interpreter and in native code.
LEMMA LineRound ==
    ASSUME NEW k \in {"interp", "native"}, NEW t, IsText(t), NEW i \in 0 .. Len(t) - 1,
           Boundary(t, i), NEW e, e = NextOf(t, LF, i)
    PROVE  /\ text_line_end(k, t, i) = IF e > i /\ At(t, e - 1) = CR THEN e - 1 ELSE e
           /\ text_next_line(k, t, i) = Behind(t, e)
<1>1. Len(t) \in Nat /\ i \in 0 .. Len(t) /\ e = FirstAt(t, LF, i, Len(t))
    BY TextEnds DEF NextOf
<1>2. I!clamp_text_slice_start(t, i) = i /\ N!range_start(t, i) = i
    BY <1>1, AtBoundaries
<1>3. ~(e < Len(t)) => e = Len(t)
  <2>1. e \in i .. Len(t)
      BY <1>1, FirstAtIs
  <2>2. QED
      BY <1>1, <2>1
<1>4. I!LF = LF /\ N!LF = LF /\ I!CR = CR /\ N!CR = CR
    BY DEF I!LF, N!LF, LF, I!CR, N!CR, CR
<1>5. CASE k = "interp"
    BY <1>1, <1>2, <1>4, <1>5, SameBytes, SameSearch, Zenon
    DEF text_line_end, text_next_line, I!text_line_end, I!text_next_line, Behind
<1>6. CASE k = "native"
    BY <1>1, <1>2, <1>3, <1>4, <1>6, SameBytes, SameSearch, Zenon
    DEF text_line_end, text_next_line, N!text_line_end, N!text_next_line, Behind
<1>7. QED
    BY <1>5, <1>6

CutsPiece(k, t, strip, i, e) == text_slice(k, t, i, Stop(t, strip, i, e)) = PieceAt(t, strip, i, e)

\* A round cuts the piece up to its separator, without a carriage return before it
\* in a line loop.
LEMMA PieceCut ==
    ASSUME NEW k, NEW t, NEW i, NEW b, NEW e, RoundAt(k, t, i, b, e), NEW strip
    PROVE  CutsPiece(k, t, strip, i, e)
<1> DEFINE stop == Stop(t, strip, i, e)
<1>a. stop = IF strip /\ e > i /\ At(t, e - 1) = CR THEN e - 1 ELSE e
    BY Zenon DEF Stop
<1>0. /\ k \in Backends /\ IsText(t) /\ i \in 0 .. Len(t) - 1 /\ Boundary(t, i)
      /\ b \in 0 .. 127 /\ e = NextOf(t, b, i)
    BY Zenon DEF RoundAt
<1> USE <1>0
<1> HIDE DEF stop
<1> USE <1>a
<1>1. /\ e \in i .. Len(t) /\ Boundary(t, e)
      /\ e > i /\ At(t, e - 1) = CR => e - 1 \in i .. Len(t) /\ Boundary(t, e - 1)
    BY PieceBounds, Zenon
<1>2. t \in Seq(Int) /\ Len(t) \in Nat
    BY TextEnds
<1>3. i \in 0 .. Len(t)
    BY <1>2
<1>4. stop \in i .. Len(t) /\ Boundary(t, stop)
    BY <1>1, Zenon
<1>5. text_slice(k, t, i, stop) = Cut(t, i, stop)
    BY <1>2, <1>3, <1>4, SliceIsCut
<1>6. text_slice(k, t, i, stop) = PieceAt(t, strip, i, e)
    BY <1>5, Zenon DEF PieceAt
<1>7. QED
    BY <1>6, Zenon DEF CutsPiece, stop
=============================================================================
