------------------------------- MODULE Buffer -------------------------------
(***************************************************************************)
(* What a text builder promises: a buffer of bytes that appends extend at  *)
(* its end, that is written out whole, or is finished to a text once.      *)
(***************************************************************************)
EXTENDS Integers, Sequences

VARIABLES buffer,      \* the bytes appended since the last write
          asked,       \* the bytes the last append was asked to add
          written,     \* the bytes written out
          finished     \* the text made of it, or <<-1>>

bufferVars == <<buffer, asked, written, finished>>

Open == <<-1>>

Init == buffer = <<>> /\ asked = <<>> /\ written = <<>> /\ finished = Open

AppendAsked ==
  /\ finished = Open
  /\ buffer' = buffer \o asked'
  /\ UNCHANGED <<written, finished>>

Write ==
  /\ finished = Open
  /\ written' = written \o buffer
  /\ buffer' = <<>>
  /\ UNCHANGED <<asked, finished>>

Finish ==
  /\ finished = Open
  /\ finished' = buffer
  /\ buffer' = <<>>
  /\ UNCHANGED <<asked, written>>

Next == AppendAsked \/ Write \/ Finish

Spec == Init /\ [][Next]_bufferVars
=============================================================================
