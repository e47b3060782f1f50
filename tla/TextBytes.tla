----------------------------- MODULE TextBytes -----------------------------
(***************************************************************************)
(* Vocabulary shared by the four implementations of the text, bytes, list  *)
(* and text-builder builtins.  A text is the sequence of its bytes, and an *)
(* offset counts bytes from 0 as in the source programs.                   *)
(***************************************************************************)
EXTENDS Integers, Sequences, FiniteSetsExt

At(t, i) == t[i + 1]

\* The bytes of t in [s, e).
Cut(t, s, e) == SubSeq(t, s + 1, e)

Offsets(t) == 0..(Len(t) - 1)

Clip(i, n) == IF i < 0 THEN 0 ELSE IF i > n THEN n ELSE i

\* The least offset in [s, e) that holds byte b, or e.
FirstAt(t, b, s, e) == Min({i \in s..(e - 1) : At(t, i) = b} \cup {e})

\* The least offset at or after i that holds b, or the end of the text.
NextOf(t, b, i) == FirstAt(t, b, i, Len(t))

\* The three-way result of a comparison.
Sign(n) == IF n < 0 THEN -1 ELSE IF n > 0 THEN 1 ELSE 0

\* Byte-wise lexicographic order: the first difference decides, else length.
Lexicographic(l, r) ==
  LET n == Min({Len(l), Len(r)})
      d == Min({i \in 0..(n - 1) : At(l, i) # At(r, i)} \cup {n})
  IN  IF d < n THEN Sign(At(l, d) - At(r, d)) ELSE Sign(Len(l) - Len(r))

(* Bytes with a role in the builtins. *)
LF == 10
CR == 13
SP == 32
TAB == 9
PLUS == 43
MINUS == 45
Digit == 48..57
Continuation == 128..191

\* Character boundaries of a text: its end, and every offset whose byte does
\* not continue a character.
Boundary(t, i) == i = Len(t) \/ At(t, i) \notin Continuation

\* The UTF-8 encoding of a code point.
Utf8(c) ==
  LET Low(n) == 128 + (n % 64)
  IN  IF c < 128 THEN <<c>>
      ELSE IF c < 2048 THEN <<192 + (c \div 64), Low(c)>>
      ELSE IF c < 65536 THEN <<224 + (c \div 4096), Low(c \div 64), Low(c)>>
      ELSE <<240 + (c \div 262144), Low(c \div 4096), Low(c \div 64), Low(c)>>

IsScalar(c) == c >= 0 /\ c <= 1114111 /\ ~(c >= 55296 /\ c <= 57343)

\* The length a leading byte announces.
Width(b) == IF b < 128 THEN 1 ELSE IF b < 224 THEN 2 ELSE IF b < 240 THEN 3 ELSE 4

\* Every leading byte is followed by exactly its continuation bytes.
WellFormed(t) ==
  \A i \in Offsets(t) :
    IF At(t, i) \in Continuation
    THEN \E j \in 0..(i - 1) : At(t, j) \notin Continuation /\ j + Width(At(t, j)) > i
    ELSE /\ i + Width(At(t, i)) <= Len(t)
         /\ \A k \in 1..(Width(At(t, i)) - 1) : At(t, i + k) \in Continuation

\* A text: bytes that are UTF-8.
IsText(t) == t \in Seq(0..255) /\ WellFormed(t)

\* The characters of t that lie entirely in [s, e).
CharactersIn(t, s, e) ==
  LET starts == {i \in Offsets(t) : At(t, i) \notin Continuation}
      inside == {i \in starts : s <= i /\ i + Width(At(t, i)) <= e}
  IN  IF inside = {} THEN <<>>
      ELSE Cut(t, Min(inside), Max(inside) + Width(At(t, Max(inside))))

\* t without the bytes of W at its two ends.
Trim(t, W) ==
  LET kept == {i \in Offsets(t) : At(t, i) \notin W}
  IN  IF kept = {} THEN <<>> ELSE Cut(t, Min(kept), Max(kept) + 1)

\* The number a sequence of decimal digits denotes.
DecimalValue(s) ==
  LET value[i \in 0..Len(s)] == IF i = 0 THEN 0 ELSE 10 * value[i - 1] + (s[i] - 48)
  IN  value[Len(s)]

\* The decimal notation of an integer.
Digits[n \in Nat] == IF n < 10 THEN <<48 + n>> ELSE Append(Digits[n \div 10], 48 + (n % 10))
Decimal(n) == IF n < 0 THEN <<MINUS>> \o Digits[-n] ELSE Digits[n]

(* Results of operations that may refuse: a value, or a fault that ends the *)
(* run (a RuntimeError, a trap).                                            *)
Fault == [fault |-> TRUE]
Ok(v) == [fault |-> FALSE, value |-> v]
=============================================================================
