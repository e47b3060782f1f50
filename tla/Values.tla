------------------------------- MODULE Values -------------------------------
(***************************************************************************)
(* RuntimeValue of sarif_codegen/src/lib.rs, shared by the compile-time    *)
(* evaluator and the interpreter: the kinds of value this model keeps, and *)
(* Rust's integer division.  A text is a sequence of symbols.              *)
(***************************************************************************)
EXTENDS Integers, Sequences, SequencesExt

(* Values as tagged tuples.  An array is the record of its fields, numbered *)
(* from 0 (array_field_name); a variant without a payload has Unit for one. *)
Unit == <<"unit">>
VInt(n) == <<"int", n>>
VBool(b) == <<"bool", b>>
VText(s) == <<"text", s>>
VEnum(v, payload) == <<"enum", v, payload>>
VArray(vs) == <<"record", [i \in 0 .. Len(vs) - 1 |-> vs[i + 1]]>>

IsInt(v) == v[1] = "int"
IsBool(v) == v[1] = "bool"
IsText(v) == v[1] = "text"
IsEnum(v) == v[1] = "enum"
IsRecord(v) == v[1] = "record"

(* Rust's integer division and remainder, which truncate towards zero.     *)
Magnitude(n) == IF n < 0 THEN -n ELSE n
Quot(a, b) == LET q == Magnitude(a) \div Magnitude(b)
              IN  IF (a < 0) # (b < 0) THEN -q ELSE q
Rem(a, b) == a - b * Quot(a, b)

(* No value, no slot: a block without a result, a loop without an index.   *)
NoId == -1
=============================================================================
