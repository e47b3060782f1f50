----------------------------- MODULE TextBuffer -----------------------------
(***************************************************************************)
(* A program that puts a text together with a text builder on one of the   *)
(* backends.  It passes what the builtins accept on every backend: code    *)
(* points that are Unicode scalars, ASCII bytes, ranges inside the text.   *)
(***************************************************************************)
EXTENDS DataBackends

CONSTANTS Appended,    \* the texts appended whole or in part
          CodePoints,  \* the code points appended
          AsciiBytes,  \* the ASCII bytes appended
          Numbers,     \* the integers appended
          MaxBytes     \* bound on the bytes in the builder

ASSUME BufferAssumption ==
  /\ \A t \in Appended : t \in Seq(0..255)
  /\ \A c \in CodePoints : c \in Int /\ IsScalar(c)
  /\ \A x \in AsciiBytes : x \in 0..127
  /\ \A n \in Numbers : n \in Int

VARIABLES builder,     \* the builder
          asked,       \* the bytes the arguments of the last append denote
          written,     \* the bytes written to the output
          finished,    \* the text the builder was finished to, or <<-1>>
          refused      \* an operation has ended the run

builderVars == <<builder, asked, written, finished, refused>>

Open == <<-1>>

BuilderInit ==
  /\ builder = text_builder_new(backend).value
  /\ asked = <<>>
  /\ written = <<>>
  /\ finished = Open
  /\ refused = FALSE

Usable == finished = Open /\ ~refused

\* The result of a builtin becomes the builder variable.
TakeBuilder(piece, r) ==
  /\ Usable
  /\ asked' = piece
  /\ refused' = r.fault
  /\ builder' = IF r.fault THEN builder ELSE r.value
  /\ UNCHANGED <<backend, written, finished>>

Room == Len(builder_bytes(backend, builder)) < MaxBytes

BuilderAppend(t) == Room /\ TakeBuilder(t, text_builder_append(backend, builder, t))

AppendCodepoint(c) == Room /\ TakeBuilder(Utf8(c), text_builder_append_codepoint(backend, builder, c))

AppendAscii(x) == Room /\ TakeBuilder(<<x>>, text_builder_append_ascii(backend, builder, x))

AppendSlice(t, s, e) ==
  /\ Room /\ 0 <= s /\ s <= e /\ e <= Len(t)
  /\ TakeBuilder(Cut(t, s, e), text_builder_append_slice(backend, builder, t, s, e))

AppendI32(n) ==
  /\ Room
  /\ n = 0 => backend # "wasm" \/ Divergent
  /\ TakeBuilder(Decimal(n), text_builder_append_i32(backend, builder, n))

\* builder = stdout_write_builder(builder)
WriteBuilder ==
  /\ Usable
  /\ LET r == stdout_write_builder(backend, builder)
     IN  /\ refused' = r.fault
         /\ builder' = IF r.fault THEN builder ELSE r.value
         /\ written' = IF r.fault THEN written ELSE written \o builder_bytes(backend, builder)
  /\ written = <<>>
  /\ UNCHANGED <<backend, asked, finished>>

FinishBuilder ==
  /\ Usable
  /\ LET r == text_builder_finish(backend, builder)
     IN  /\ refused' = r.fault
         /\ finished' = IF r.fault THEN finished ELSE r.value
         /\ builder' = IF r.fault THEN builder ELSE text_builder_new(backend).value
  /\ UNCHANGED <<backend, asked, written>>

BuilderNext ==
  \/ \E t \in Appended : BuilderAppend(t)
  \/ \E c \in CodePoints : AppendCodepoint(c)
  \/ \E x \in AsciiBytes : AppendAscii(x)
  \/ \E t \in Appended : \E s \in 0..Len(t), e \in 0..Len(t) : AppendSlice(t, s, e)
  \/ \E n \in Numbers : AppendI32(n)
  \/ WriteBuilder
  \/ FinishBuilder

-----------------------------------------------------------------------------
\* The bytes the buffer really holds: those within the capacity made for it.
Held ==
  LET bytes == builder_bytes(backend, builder)
  IN  IF backend = "interp" \/ bytes = <<>> THEN bytes
      ELSE SubSeq(bytes, 1, Min({Len(bytes), builder.cap}))

B == INSTANCE Buffer WITH buffer <- Held
=============================================================================
