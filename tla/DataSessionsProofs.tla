------------------------- MODULE DataSessionsProofs -------------------------
(***************************************************************************)
(* What the sessions of DataSessions keep, for every text, byte and number *)
(* a program passes, on every backend: a byte string narrowed by slices of *)
(* slices is the window of its text, a slice of a text is the characters   *)
(* of its range, a line or field loop cuts its text into its lines or      *)
(* fields, and a text builder is the abstract buffer.                      *)
(*                                                                         *)
(* Each has its inductive invariant: ViewInv, ScanInv, BufferInv.          *)
(***************************************************************************)
EXTENDS DataSessions, DataBackendsProofs, TextBufferProofs

-----------------------------------------------------------------------------
(* The sessions *)

\* A program runs on one backend.
LEMMA BackendStays == [Next]_vars => backend' = backend
<1> SUFFICES ASSUME [Next]_vars PROVE backend' = backend
    OBVIOUS
<1>1. CASE ScanNext
    BY <1>1, Zenon DEF ScanNext, Begin, ScanLine, ScanField, Narrow
<1>2. CASE ListNext
    BY <1>2 DEF ListNext, ListNew, ListFrom, ListPush, ListSet, ListGet, ListSort
<1>3. CASE BuilderNext
    BY <1>3 DEF BuilderNext, BuilderAppend, AppendCodepoint, AppendAscii, AppendSlice, AppendI32,
                TakeBuilder, WriteBuilder, FinishBuilder
<1>4. CASE UNCHANGED vars
    BY <1>4 DEF vars
<1>5. QED
    BY <1>1, <1>2, <1>3, <1>4 DEF Next

\* The steps of the scanning session, and the steps that leave it alone.
LEMMA ScanSteps ==
    ASSUME [Next]_vars
    PROVE  \/ \E m \in {"lines", "fields"}, t \in Texts : Begin(m, t)
           \/ \E t \in ViewTexts : Begin("views", t)
           \/ \E t \in NumberTexts : Begin("numbers", t)
           \/ ScanLine
           \/ ScanField
           \/ \E s \in 0..(Len(text) + 1), e \in 0..(Len(text) + 1) : Narrow(s, e)
           \/ UNCHANGED scanVars
BY DEF Next, vars, ScanNext

\* In the views session the byte string stands for its window of a text.
ViewInv ==
    /\ backend \in Backends
    /\ mode = "views" =>
         /\ IsText(text)
         /\ \E a \in 0 .. Len(text) : \E b \in a .. Len(text) :
              window = <<a, b>> /\ StandsFor(backend, bytes, text, a, b)

\* No step breaks ViewInv.
LEMMA ViewSteps == ViewInv /\ [Next]_vars => ViewInv'
<1> SUFFICES ASSUME ViewInv, [Next]_vars PROVE ViewInv'
    OBVIOUS
<1>1. backend' = backend /\ backend \in Backends
    BY BackendStays DEF ViewInv
<1>2. ASSUME NEW m \in {"lines", "fields", "views", "numbers"},
             NEW t \in Texts \cup ViewTexts \cup NumberTexts, Begin(m, t)
      PROVE  ViewInv'
  <2>1. /\ text' = t /\ bytes' = text_to_bytes(backend, t) /\ window' = <<0, Len(t)>>
      BY <1>2 DEF Begin
  <2>2. IsText(t)
      BY ScanAssumption
  <2>3. t \in Seq(Int) /\ Len(t) \in Nat
      BY <2>2, TextEnds
  <2>4. StandsFor(backend, text_to_bytes(backend, t), t, 0, Len(t))
      BY <1>1, <2>3, WholeStands
  <2>5. 0 \in 0 .. Len(t) /\ Len(t) \in 0 .. Len(t)
      BY <2>3
  <2>6. \E a \in 0 .. Len(t) : \E b \in a .. Len(t) :
           window' = <<a, b>> /\ StandsFor(backend, bytes', t, a, b)
      BY <2>1, <2>4, <2>5, Zenon
  <2>7. QED
      BY <1>1, <2>1, <2>2, <2>6, Zenon DEF ViewInv
<1>3. CASE ScanLine \/ ScanField
    BY <1>1, <1>3 DEF ViewInv, ScanLine, ScanField
<1>4. ASSUME NEW s \in 0 .. (Len(text) + 1), NEW e \in 0 .. (Len(text) + 1), Narrow(s, e)
      PROVE  ViewInv'
  <2>1. /\ mode = "views" /\ mode' = mode /\ text' = text /\ IsText(text)
        /\ bytes' = bytes_slice(backend, bytes, s, e)
      BY <1>4 DEF Narrow, ViewInv
  <2>0. PICK a \in 0 .. Len(text) : \E b \in a .. Len(text) :
          window = <<a, b>> /\ StandsFor(backend, bytes, text, a, b)
      BY <2>1 DEF ViewInv
  <2>2. PICK b \in a .. Len(text) : window = <<a, b>> /\ StandsFor(backend, bytes, text, a, b)
      BY <2>0
  <2>3. text \in Seq(Int) /\ Len(text) \in Nat /\ s \in Nat /\ e \in Nat
      BY <2>1, TextEnds
  <2> DEFINE c == Min({s, b - a})
             d == Max({c, Min({e, b - a})})
  <2>4. window' = <<a + c, a + d>>
      BY <1>4, <2>2 DEF Narrow
  <2>5. /\ c \in 0 .. b - a /\ d \in c .. b - a
        /\ StandsFor(backend, bytes', text, a + c, a + d)
      BY <1>1, <2>1, <2>2, <2>3, SliceStands, Zenon
  <2> HIDE DEF c, d
  <2>6. a + c \in 0 .. Len(text) /\ a + d \in a + c .. Len(text)
      BY <2>3, <2>5
  <2>7. \E i \in 0 .. Len(text) : \E j \in i .. Len(text) :
           window' = <<i, j>> /\ StandsFor(backend, bytes', text, i, j)
      BY <2>4, <2>5, <2>6, Zenon
  <2>8. QED
      BY <1>1, <2>1, <2>7, Zenon DEF ViewInv
<1>5. CASE UNCHANGED scanVars
    BY <1>1, <1>5 DEF ViewInv, scanVars
<1>6. QED
    BY <1>2, <1>3, <1>4, <1>5, ScanSteps

\* A byte string that stands for its window reads and searches as that window.
LEMMA ViewsSound == ViewInv => ViewsAreWindows
<1> SUFFICES ASSUME ViewInv, mode = "views" PROVE ViewsAreWindows
    BY DEF ViewsAreWindows
<1>1. IsText(text) /\ backend \in Backends
    BY DEF ViewInv
<1>0. PICK a \in 0 .. Len(text) : \E b \in a .. Len(text) :
        window = <<a, b>> /\ StandsFor(backend, bytes, text, a, b)
    BY DEF ViewInv
<1>2. PICK b \in a .. Len(text) : window = <<a, b>> /\ StandsFor(backend, bytes, text, a, b)
    BY <1>0
<1>3. window[1] = a /\ window[2] = b
    BY <1>2
<1>4. ReadsAs(backend, bytes, Cut(text, a, b))
    BY <1>1, <1>2, TextEnds, StandsReads
<1>5. backend # "native" \/ ~bytes.view => SearchesAs(backend, bytes, Cut(text, a, b))
    BY <1>1, <1>2, StandsSearches
<1>6. ReadsAs(backend, bytes, Cut(text, window[1], window[2]))
    BY <1>3, <1>4, Zenon
<1>7. backend # "native" \/ ~bytes.view => SearchesAs(backend, bytes, Cut(text, window[1], window[2]))
    BY <1>3, <1>5, Zenon
<1>8. QED
    BY <1>6, <1>7, Zenon DEF ViewsAreWindows, ReadsAs, SearchesAs

\* A byte string narrowed any number of times, on any backend, reads and searches as
\* the bytes of its window: bytes_slice, bytes_byte, bytes_find_byte_range and
\* bytes_next_field of the interpreter, the native runtime, the JIT and Wasm.
THEOREM NarrowedBytesAreWindows == Spec => []ViewsAreWindows
<1>1. Init => ViewInv
    BY DEF Init, ScanInit, ViewInv
<1>2. QED
    BY <1>1, ViewSteps, ViewsSound, PTL DEF Spec

\* On a text, text_slice and text_eq_range answer by the characters of the range.
LEMMA RangesSound == ViewInv => RangesAreCharacters
<1> SUFFICES ASSUME ViewInv, mode = "views" PROVE RangesAreCharacters
    BY DEF RangesAreCharacters
<1>1. IsText(text) /\ backend \in Backends /\ text \in Seq(Int) /\ Len(text) \in Nat
    BY TextEnds DEF ViewInv
<1>2. ASSUME NEW i \in {j \in 0 .. Len(text) : Boundary(text, j)}
      PROVE  text = text_concat(backend, text_slice(backend, text, 0, i),
                                         text_slice(backend, text, i, Len(text)))
    BY <1>1, SlicesMeet
<1>3. ASSUME NEW s \in 0 .. (Len(text) + 1), NEW e \in 0 .. (Len(text) + 1),
             backend # "jit" \/ (\A i \in {s, e} : i <= Len(text) => Boundary(text, i))
      PROVE  LET cut == text_slice(backend, text, s, e)
             IN  /\ cut = CharactersIn(text, s, e)
                 /\ text_eq_range(backend, text, s, e, cut)
                 /\ \A x \in {<<>>, <<97>>, text} :
                      text_eq_range(backend, text, s, e, x) => x = cut
  <2>1. s \in Nat /\ e \in Nat
      BY <1>1
  <2>2. WholeCharacters(backend, text, s, e)
      BY <1>3, Zenon DEF WholeCharacters
  <2>3. /\ text_slice(backend, text, s, e) = Span(text, s, e) /\ Span(text, s, e) \in Seq(Int)
        /\ \A x \in Seq(Int) :
             text_eq_range(backend, text, s, e, x) <=> Span(text, s, e) = x
      BY <1>1, <2>1, <2>2, SliceIsSpan
  <2>4. Span(text, s, e) = CharactersIn(text, s, e)
      BY <1>1, <2>1, SpanHolds
  <2>5. \A x \in {<<>>, <<97>>, text} : x \in Seq(Int)
    <3>1. <<>> \in Seq(Int) /\ <<97>> \in Seq(Int)
        OBVIOUS
    <3>2. QED
        BY <1>1, <3>1, Zenon
  <2>6. QED
      BY <2>3, <2>4, <2>5, Zenon
<1>4. QED
    BY <1>2, <1>3, Zenon DEF RangesAreCharacters

\* For every text and all offsets, in it or behind it, text_slice of every backend gives
\* exactly the characters that lie entirely between them and text_eq_range compares that
\* range; slices that meet at a boundary and text_concat give the text again.  Of the
\* JIT, which cuts at the bytes given, for offsets that are boundaries.
THEOREM SlicesAreCharacters == Spec => []RangesAreCharacters
<1>1. Init => ViewInv
    BY DEF Init, ScanInit, ViewInv
<1>2. QED
    BY <1>1, ViewSteps, RangesSound, PTL DEF Spec

-----------------------------------------------------------------------------
(* Lines and fields *)

\* The pieces of a text are those to come at its start.
LEMMA ReferenceIsRest ==
    ASSUME NEW t, NEW b, NEW strip
    PROVE  PiecesFrom(t, b, strip) = Rest(t, b, strip)[0]
BY Zenon DEF PiecesFrom, Rest, PieceAt, Behind

\* The separator and the line-end treatment of a mode.
SeparatorOf(m) == IF m = "lines" THEN LF ELSE Separator
Stripped(m) == m = "lines"

\* In a scan, the offset is a boundary of the text, and the pieces cut with the
\* pieces still to come are those of the reference.
ScanInv ==
    /\ backend \in Backends
    /\ mode = "off" => pos = 0 /\ pieces = <<>>
    /\ mode = "lines" => backend \in {"interp", "native"}
    /\ mode \in {"lines", "fields"} =>
         /\ IsText(text) /\ pos \in 0 .. Len(text) /\ Boundary(text, pos)
         /\ Scanned(pieces, Rest(text, SeparatorOf(mode), Stripped(mode)), pos,
                    Rest(text, SeparatorOf(mode), Stripped(mode))[0])

\* A round that cuts the next piece and moves behind its separator keeps ScanInv.
LEMMA RoundStep ==
    ASSUME ScanInv, mode \in {"lines", "fields"}, pos < Len(text),
           UNCHANGED <<backend, mode, text>>,
           NEW e, e = NextOf(text, SeparatorOf(mode), pos),
           pieces' = Keep(PieceAt(text, Stripped(mode), pos, e)), pos' = Behind(text, e)
    PROVE  ScanInv'
<1> DEFINE b == SeparatorOf(mode)
           strip == Stripped(mode)
           g == Rest(text, b, strip)
<1>1. /\ IsText(text) /\ Boundary(text, pos) /\ Scanned(pieces, g, pos, g[0])
      /\ pos \in 0 .. Len(text) /\ text \in Seq(Int) /\ Len(text) \in Nat
    BY TextEnds DEF ScanInv
<1>2. pos \in 0 .. Len(text) - 1
    BY <1>1
<1>3. b \in 0 .. 127
    BY ScanAssumption DEF SeparatorOf, LF
<1>4. Behind(text, e) \in pos + 1 .. Len(text) /\ Boundary(text, Behind(text, e))
    BY <1>1, <1>2, <1>3, PieceBounds, Zenon
<1>5. pos' \in 0 .. Len(text) /\ Boundary(text, pos')
    BY <1>1, <1>2, <1>4
<1>6. pieces' = IF Len(pieces) < Len(text) + 1
                THEN Append(pieces, PieceAt(text, strip, pos, e)) ELSE pieces
    BY Zenon DEF Keep, MaxPieces
<1> HIDE DEF b, strip, g
<1>7. Scanned(pieces', g, pos', g[0])
    BY <1>1, <1>2, <1>6, RoundKeeps, Zenon DEF g, b
<1>8. QED
    BY <1>1, <1>5, <1>7, Zenon DEF ScanInv, g, b, strip

\* No step breaks ScanInv: a round cuts the piece the reference has next.
LEMMA ScanInvSteps ==
    ASSUME ~Divergent
    PROVE  ScanInv /\ [Next]_vars => ScanInv'
<1> SUFFICES ASSUME ScanInv, [Next]_vars PROVE ScanInv'
    OBVIOUS
<1>1. backend' = backend /\ backend \in Backends
    BY BackendStays DEF ScanInv
<1>2. ASSUME NEW m \in {"lines", "fields", "views", "numbers"},
             NEW t \in Texts \cup ViewTexts \cup NumberTexts, Begin(m, t)
      PROVE  ScanInv'
  <2>1. /\ mode' = m /\ text' = t /\ pos' = 0 /\ pieces' = <<>>
        /\ m = "lines" => backend \in {"interp", "native"}
      BY <1>2 DEF Begin, ScanInv
  <2>2. IsText(t)
      BY ScanAssumption
  <2>3. Len(t) \in Nat /\ Boundary(t, 0)
      BY <2>2, TextEnds
  <2>4. 0 \in 0 .. Len(t)
      BY <2>3
  <2>5. Scanned(<<>>, Rest(t, SeparatorOf(m), Stripped(m)), 0, Rest(t, SeparatorOf(m), Stripped(m))[0])
      BY <2>2, ScanBegins
  <2>6. m # "off"
      OBVIOUS
  <2>7. QED
      BY <1>1, <2>1, <2>2, <2>3, <2>4, <2>5, <2>6, Zenon DEF ScanInv
<1>3. CASE ScanLine
  <2> DEFINE e == NextOf(text, LF, pos)
  <2>1. /\ mode = "lines" /\ pos < Len(text) /\ UNCHANGED <<backend, mode, text>>
        /\ pieces' = Keep(text_slice(backend, text, pos, text_line_end(backend, text, pos)))
        /\ pos' = text_next_line(backend, text, pos)
      BY <1>3, Zenon DEF ScanLine
  <2>2. backend \in {"interp", "native"} /\ IsText(text) /\ pos \in 0 .. Len(text) /\ Boundary(text, pos)
      BY <2>1 DEF ScanInv
  <2>3. pos \in 0 .. Len(text) - 1
      BY <2>1, <2>2, TextEnds
  <2> HIDE DEF e
  <2>4. /\ text_line_end(backend, text, pos) = IF e > pos /\ At(text, e - 1) = CR THEN e - 1 ELSE e
        /\ text_next_line(backend, text, pos) = Behind(text, e)
      BY <2>2, <2>3, LineRound DEF e
  <2>5. LF \in 0 .. 127
      BY DEF LF
  <2>6. text_slice(backend, text, pos, text_line_end(backend, text, pos))
          = PieceAt(text, Stripped(mode), pos, e)
    <3>1. RoundAt(backend, text, pos, LF, e)
        BY <1>1, <2>2, <2>3, <2>5, Zenon DEF RoundAt, e
    <3>2. CutsPiece(backend, text, Stripped(mode), pos, e)
        BY <3>1, PieceCut, Zenon
    <3>3. Stop(text, Stripped(mode), pos, e) = text_line_end(backend, text, pos)
        BY <2>1, <2>4, Zenon DEF Stop, Stripped
    <3>4. QED
        BY <3>2, <3>3, Zenon DEF CutsPiece
  <2>7. SeparatorOf(mode) = LF
      BY <2>1 DEF SeparatorOf
  <2>8. /\ e = NextOf(text, SeparatorOf(mode), pos) /\ pos' = Behind(text, e)
        /\ pieces' = Keep(PieceAt(text, Stripped(mode), pos, e))
      BY <2>1, <2>4, <2>6, <2>7, Zenon DEF e
  <2>9. QED
      BY <2>1, <2>8, RoundStep
<1>4. CASE ScanField
  <2> DEFINE e == NextOf(text, Separator, pos)
  <2>1. /\ mode = "fields" /\ pos < Len(text) /\ UNCHANGED <<backend, mode, text>>
        /\ pieces' = Keep(text_slice(backend, text, pos, text_field_end(backend, text, pos, Len(text), Separator)))
        /\ pos' = text_next_field(backend, text, pos, Len(text), Separator)
      BY <1>4, Zenon DEF ScanField
  <2>2. IsText(text) /\ pos \in 0 .. Len(text) /\ Boundary(text, pos)
      BY <2>1 DEF ScanInv
  <2>3. pos \in 0 .. Len(text) - 1
      BY <2>1, <2>2, TextEnds
  <2> HIDE DEF e
  <2>4. Separator \in 0 .. 127
      BY ScanAssumption
  <2>0. RoundAt(backend, text, pos, Separator, e)
      BY <1>1, <2>2, <2>3, <2>4, Zenon DEF RoundAt, e
  <2>5. /\ text_field_end(backend, text, pos, Len(text), Separator) = e
        /\ text_next_field(backend, text, pos, Len(text), Separator) = Behind(text, e)
      BY <2>0, FieldRound, Zenon
  <2>6. text_slice(backend, text, pos, e) = PieceAt(text, Stripped(mode), pos, e)
    <3>1. CutsPiece(backend, text, Stripped(mode), pos, e)
        BY <2>0, PieceCut, Zenon
    <3>2. ~Stripped(mode)
        BY <2>1 DEF Stripped
    <3>3. Stop(text, Stripped(mode), pos, e) = e
        BY <3>2, Zenon DEF Stop
    <3>4. QED
        BY <3>1, <3>3, Zenon DEF CutsPiece
  <2>7. SeparatorOf(mode) = Separator
      BY <2>1 DEF SeparatorOf
  <2>8. /\ e = NextOf(text, SeparatorOf(mode), pos) /\ pos' = Behind(text, e)
        /\ pieces' = Keep(PieceAt(text, Stripped(mode), pos, e))
      BY <2>1, <2>5, <2>6, <2>7, Zenon DEF e
  <2>9. QED
      BY <2>1, <2>8, RoundStep
<1>5. ASSUME NEW s, NEW e, Narrow(s, e) PROVE ScanInv'
  <2>1. mode = "views" /\ mode' = mode
      BY <1>5 DEF Narrow
  <2>2. QED
      BY <1>1, <2>1 DEF ScanInv
<1>6. CASE UNCHANGED scanVars
    BY <1>1, <1>6, Zenon DEF ScanInv, scanVars
<1>7. QED
    BY <1>2, <1>3, <1>4, <1>5, <1>6, ScanSteps

\* At the end of the text nothing is to come, so the pieces cut are the reference.
LEMMA ScanSound == ScanInv => ScanIsSplit
<1> SUFFICES ASSUME ScanInv, mode \in {"lines", "fields"}, pos >= Len(text)
             PROVE  pieces = Reference
    BY DEF ScanIsSplit
<1> DEFINE g == Rest(text, SeparatorOf(mode), Stripped(mode))
<1>1. IsText(text) /\ pos \in 0 .. Len(text) /\ Scanned(pieces, g, pos, g[0])
    BY DEF ScanInv
<1>2. Len(text) \in Nat
    BY <1>1, TextEnds
<1>3. pos = Len(text)
    BY <1>1, <1>2
<1>4. g[Len(text)] = <<>>
    BY <1>2, RestSteps, Zenon
<1>5. Reference = g[0]
  <2>1. CASE mode = "lines"
      BY <2>1, ReferenceIsRest, Zenon DEF Reference, SeparatorOf, Stripped
  <2>2. CASE mode # "lines"
      BY <2>2, ReferenceIsRest, Zenon DEF Reference, SeparatorOf, Stripped
  <2>3. QED
      BY <2>1, <2>2
<1> HIDE DEF g
<1>6. pieces \in Seq(Seq(Int)) /\ pieces \o <<>> = g[0]
    BY <1>1, <1>3, <1>4, Zenon DEF Scanned
<1>7. pieces \o <<>> = pieces
    BY <1>6, JoinNothing, Zenon
<1>8. QED
    BY <1>5, <1>6, <1>7, Zenon

\* A line or field loop that is left has cut exactly the lines or fields of its text,
\* for every text, on every backend that has the builtins it calls: text_line_end,
\* text_next_line, text_field_end, text_next_field and text_slice.
THEOREM LoopsSplitTheirText ==
    ASSUME ~Divergent
    PROVE  Spec => []ScanIsSplit
<1>1. Init => ScanInv
    BY DEF Init, ScanInit, ScanInv
<1>2. QED
    BY <1>1, ScanInvSteps, ScanSound, PTL DEF Spec

-----------------------------------------------------------------------------
(* Text builders *)

\* Every step of the sessions keeps BufferInv and is one of the abstract buffer, or none.
LEMMA BufferSteps ==
    ASSUME ~Divergent
    PROVE  BufferInv /\ [Next]_vars => BufferInv' /\ [B!Next]_(B!bufferVars)
<1> SUFFICES ASSUME BufferInv, [Next]_vars PROVE BufferInv' /\ [B!Next]_(B!bufferVars)
    OBVIOUS
<1>1. BuilderNext \/ UNCHANGED builderVars
    BY DEF Next, vars
<1>2. backend' = backend
    BY BackendStays
<1>3. CASE BuilderNext
    BY <1>3, BuilderSteps
<1>4. CASE UNCHANGED builderVars
  <2>1. UNCHANGED <<builder, asked, written, finished>>
      BY <1>4 DEF builderVars
  <2>2. BufferInv'
      BY <1>2, <2>1, Zenon DEF BufferInv
  <2>3. Held' = Held
      BY <1>2, <2>1, Zenon DEF Held
  <2>4. QED
      BY <2>1, <2>2, <2>3, Zenon DEF B!bufferVars
<1>5. QED
    BY <1>1, <1>3, <1>4

\* On every backend the text builder is the abstract buffer, for all texts, code
\* points and numbers appended: each append adds its bytes behind those already
\* there and within the capacity compute_grown_capacity, builder_grow or
\* text_builder_reserve made for them, and a write or a finish hands on all of them.
THEOREM BuildersAreBuffers ==
    ASSUME ~Divergent
    PROVE  Spec => ImplementsBuffer
<1>1. Init => BufferInv /\ B!Init
  <2> SUFFICES ASSUME Init PROVE BufferInv /\ B!Init
      OBVIOUS
  <2>1. /\ backend \in Backends /\ builder = text_builder_new(backend).value
        /\ asked = <<>> /\ written = <<>> /\ finished = Open
      BY DEF Init, BuilderInit
  <2>2. Holds(backend, builder, <<>>)
      BY <2>1, NewHolds, Zenon
  <2>3. Held = <<>>
      BY <2>2, HeldNow, Zenon
  <2>4. QED
      BY <2>1, <2>2, <2>3, Zenon DEF BufferInv, B!Init, B!Open, Open
<1>2. QED
    BY <1>1, BufferSteps, PTL DEF Spec, ImplementsBuffer, B!Spec
=============================================================================
