------------------------------ MODULE TextScan ------------------------------
(***************************************************************************)
(* The loop of the retained text workloads over a text, line by line or    *)
(* field by field:                                                         *)
(*                                                                         *)
(*   while pos < text_len(text) {                                          *)
(*     piece = text_slice(text, pos, text_line_end(text, pos));            *)
(*     pos = text_next_line(text, pos);                                    *)
(*   }                                                                     *)
(*                                                                         *)
(* run on one of the backends, and a byte string narrowed by slices of     *)
(* slices.                                                                 *)
(***************************************************************************)
EXTENDS DataBackends

CONSTANTS Texts,       \* the texts scanned
          ViewTexts,   \* the texts sliced
          NumberTexts, \* the texts numbers are read from
          Separator,   \* the byte between fields
          MaxSlices    \* bound on the slices of slices

ASSUME ScanAssumption ==
  /\ \A t \in Texts \cup ViewTexts \cup NumberTexts : IsText(t)
  /\ Separator \in 0..127

VARIABLES mode,        \* "lines", "fields", "views", "numbers", or "off"
          text,        \* the text the program was given
          pos,         \* its offset variable
          pieces,      \* the pieces it has cut
          bytes,       \* the byte string it has narrowed
          window       \* the [start, end) of text that bytes stands for

scanVars == <<mode, text, pos, pieces, bytes, window>>

ScanInit ==
  /\ mode = "off" /\ text = <<>> /\ pos = 0 /\ pieces = <<>>
  /\ bytes = text_to_bytes(backend, text) /\ window = <<0, 0>>

\* The program begins with a text.
Begin(m, t) ==
  /\ mode = "off"
  /\ m = "lines" => backend \in {"interp", "native"} \/ Divergent
  /\ mode' = m
  /\ text' = t
  /\ bytes' = text_to_bytes(backend, t)
  /\ window' = <<0, Len(t)>>
  /\ UNCHANGED <<backend, pos, pieces>>

\* The loop keeps its pieces; no more than the bound, which a loop that ends
\* never meets.
MaxPieces == Len(text) + 1
Keep(piece) == IF Len(pieces) < MaxPieces THEN Append(pieces, piece) ELSE pieces

\* One round of the line loop.
ScanLine ==
  /\ mode = "lines" /\ pos < Len(text)
  /\ \E stop \in {text_line_end(backend, text, pos)} :
       pieces' = Keep(text_slice(backend, text, pos, stop))
  /\ pos' = text_next_line(backend, text, pos)
  /\ UNCHANGED <<backend, mode, text, bytes, window>>

\* One round of the field loop.
ScanField ==
  /\ mode = "fields" /\ pos < Len(text)
  /\ \E stop \in {text_field_end(backend, text, pos, Len(text), Separator)} :
       pieces' = Keep(text_slice(backend, text, pos, stop))
  /\ pos' = text_next_field(backend, text, pos, Len(text), Separator)
  /\ UNCHANGED <<backend, mode, text, bytes, window>>

\* bytes = bytes_slice(bytes, s, e), with bounds inside the byte string or past
\* its end.
Narrow(s, e) ==
  /\ mode = "views" /\ pos < MaxSlices
  /\ bytes' = bytes_slice(backend, bytes, s, e)
  /\ LET n == window[2] - window[1]
         a == Min({s, n})
         b == Max({a, Min({e, n})})
     IN  window' = <<window[1] + a, window[1] + b>>
  /\ pos' = pos + 1
  /\ UNCHANGED <<backend, mode, text, pieces>>

ScanNext ==
  \/ \E m \in {"lines", "fields"}, t \in Texts : Begin(m, t)
  \/ \E t \in ViewTexts : Begin("views", t)
  \/ \E t \in NumberTexts : Begin("numbers", t)
  \/ ScanLine
  \/ ScanField
  \/ \E s \in 0..(Len(text) + 1), e \in 0..(Len(text) + 1) : Narrow(s, e)

-----------------------------------------------------------------------------
(* Reference definitions *)

\* The pieces of t from offset i on: between separators, a last empty one left
\* out, and with strip a carriage return at a piece's end left out.
PiecesFrom(t, b, strip) ==
  LET Piece(i, e) == IF strip /\ e > i /\ At(t, e - 1) = CR THEN Cut(t, i, e - 1) ELSE Cut(t, i, e)
      from[i \in 0..Len(t)] ==
        IF i = Len(t) THEN <<>>
        ELSE LET e == NextOf(t, b, i)
             IN  <<Piece(i, e)>> \o from[IF e < Len(t) THEN e + 1 ELSE e]
  IN  from[0]

Reference ==
  IF mode = "lines" THEN PiecesFrom(text, LF, TRUE) ELSE PiecesFrom(text, Separator, FALSE)

=============================================================================
