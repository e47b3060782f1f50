---------------------------- MODULE DataSessions ----------------------------
(***************************************************************************)
(* The sessions a program may have with the data builtins, each on any of  *)
(* the backends: scanning a text, keeping rows in lists, putting a text    *)
(* together with a builder.                                                *)
(***************************************************************************)
EXTENDS TextScan, ListRows, TextBuffer

VARIABLE session

vars == <<session, backend, scanVars, listVars, builderVars>>

Init ==
  /\ session \in {"scan", "rows", "builder"}
  /\ backend \in Backends
  /\ ScanInit /\ ListInit /\ BuilderInit

Next ==
  /\ UNCHANGED session
  /\ \/ session = "scan" /\ ScanNext /\ UNCHANGED <<listVars, builderVars>>
     \/ session = "rows" /\ ListNext /\ UNCHANGED <<scanVars, builderVars>>
     \/ session = "builder" /\ BuilderNext /\ UNCHANGED <<scanVars, listVars>>

\* The program's loop runs on: the interpreter or the machine executes it.
Fairness == WF_vars(ScanLine /\ UNCHANGED <<session, listVars, builderVars>>)
            /\ WF_vars(ScanField /\ UNCHANGED <<session, listVars, builderVars>>)

Spec == Init /\ [][Next]_vars /\ Fairness

-----------------------------------------------------------------------------

\* A line or field loop that is left has cut exactly the lines or fields of
\* the text, in order.
ScanIsSplit ==
  (mode \in {"lines", "fields"} /\ pos >= Len(text)) => pieces = Reference

\* The loops end: every round moves the offset on.
ScanEnds == mode \in {"lines", "fields"} ~> (pos >= Len(text))

\* text_slice gives the characters that lie entirely between the two offsets,
\* whatever the offsets, and text_eq_range sees the same range;
\* two slices that meet at a boundary give the text again.  The JIT cuts at the
\* bytes given, so there only for boundaries.
RangesAreCharacters ==
  (mode = "views" /\ pos = 0) =>
  /\ \A i \in {j \in 0..Len(text) : Boundary(text, j)} :
       text = text_concat(backend, text_slice(backend, text, 0, i), text_slice(backend, text, i, Len(text)))
  /\ \A s \in 0..(Len(text) + 1), e \in 0..(Len(text) + 1) :
       (backend # "jit" \/ (\A i \in {s, e} : i <= Len(text) => Boundary(text, i))) =>
         LET cut == text_slice(backend, text, s, e)
         IN  /\ cut = CharactersIn(text, s, e)
             /\ text_eq_range(backend, text, s, e, cut)
             /\ \A x \in {<<>>, <<97>>, text} : text_eq_range(backend, text, s, e, x) => x = cut

\* A byte string narrowed again and again holds the bytes of its window, read
\* and searched at offsets of its own.  Native code searches a slice by its
\* header instead of its bytes, so there only owned byte strings are searched.
ViewsAreWindows ==
  mode = "views" =>
  LET content == Cut(text, window[1], window[2])
      n       == Len(content)
  IN  /\ bytes_content(backend, bytes) = content
      /\ \A i \in 0..(n - 1) : bytes_byte(backend, bytes, i) = At(content, i)
      /\ (backend # "native" \/ ~bytes.view) =>
           \A b \in {10, 44, 97} :
             LET at == FirstAt(content, b, 0, n)
             IN  /\ bytes_find_byte_range(backend, bytes, 0, n, b) = {at}
                 /\ bytes_next_field(backend, bytes, 0, n, b) = IF at < n THEN at + 1 ELSE n

\* A number between two offsets, spaces around it or not, is read as the number
\* whose decimal notation a builder appends; what is no number is refused or
\* reads as 0, never as another number.
NumbersRoundTrip ==
  mode = "numbers" =>
  \A s \in 0..Len(text) : \A e \in s..Len(text) :
    LET digits  == Trim(Cut(text, s, e), {SP})
        values  == {n \in -(I32Max + 1)..I32Max : digits = Decimal(n)}
        parsed  == parse_i32_range(backend, text, s, e)
    IN  IF values # {} THEN /\ parsed.fault = FALSE /\ parsed.value \in values
                            /\ parse_i32(backend, digits) = parsed
        ELSE digits = <<>> \/ ~(Range(digits) \subseteq Digit \cup {MINUS, PLUS}) => parsed \in {Fault, Ok(0)}

\* On each backend the list builtins implement the rows of the abstract
\* specification.
ImplementsRows == R!Spec

\* On each backend the text builder implements the abstract buffer, as far
\* as its bytes fit the capacity it grew to: no append writes past that.
ImplementsBuffer == B!Spec

-----------------------------------------------------------------------------
(***************************************************************************)
(* The instance: texts of up to MaxChars characters out of a letter, the   *)
(* two bytes of a line end, the separator and a two-byte character; rows   *)
(* with two keys and two identities; capacities scaled down so that every  *)
(* buffer grows several times.                                             *)
(***************************************************************************)
CONSTANT MaxChars

Characters == {<<97>>, <<10>>, <<13>>, <<44>>, <<195, 169>>}

TextsOver(C, max) ==
  LET over[n \in 0..max] == IF n = 0 THEN {<<>>}
                            ELSE over[n - 1] \cup {t \o c : t \in over[n - 1], c \in C}
  IN  over[max]

MC_Texts == TextsOver(Characters, MaxChars)
MC_ViewTexts == TextsOver({<<97>>, <<44>>, <<195, 169>>}, 3)

MC_NumberTexts == TextsOver({<<32>>, <<45>>, <<43>>, <<48>>, <<50>>, <<97>>}, 3)

MC_Elements == {[key |-> <<97>>, id |-> 1], [key |-> <<97>>, id |-> 2], [key |-> <<97, 97>>, id |-> 1]}
MC_MaxRows == [l \in Lists |-> IF l = "a" THEN 3 ELSE 1]
MC_NoRow == [key |-> <<>>, id |-> 0]
MC_Junk == [key |-> <<99>>, id |-> 99]

MC_Appended == {<<195, 169>>}
MC_CodePoints == {233, 8364}
MC_Numbers == {-(12), 0}
=============================================================================
