------------------------------- MODULE Escape -------------------------------
(***************************************************************************)
(* analyze_escapes of sarif_codegen/src/escape.rs: which functions that    *)
(* declare `alloc` may return memory of an arena they or their callees     *)
(* filled.  It runs over the lowered functions, once per function and      *)
(* round, until no answer changes.                                         *)
(*                                                                         *)
(* An analysis threads E: the values and the slots marked as escaping.  C  *)
(* is the set of functions found so far to return such a value.  The arms  *)
(* of a handler have no code in this model; the other instructions that    *)
(* create memory are those of the runtime services the model leaves out.   *)
(***************************************************************************)
EXTENDS Hir, Values

(* type_can_hold_arena_memory: it looks at the spelling of the type, so a  *)
(* named type holds memory only if its name says so; the model's does not. *)
type_can_hold_arena_memory(t) == t = TText \/ t[1] = "Array"

Clean == [values |-> {}, slots |-> {}]
MarkIf(E, dest, marked) == IF marked THEN [E EXCEPT !.values = @ \cup {dest}] ELSE E

(* The values whose mark an instruction hands on to the one it defines.    *)
HandsOn(i) ==
  CASE i.op = "MakeRecord" -> ToSet(i.fields)
    [] i.op = "MakeEnum" -> {i.payload}
    [] i.op = "Field" -> {i.base}
    [] i.op = "EnumPayload" -> {i.e}
    [] i.op = "Call" -> ToSet(i.args)
    [] OTHER -> {}

(* After an `if`, a slot is marked when either branch marked it.           *)
JoinLocals_Last(thenSlots, elseSlots) == elseSlots
JoinLocals(thenSlots, elseSlots) == thenSlots \cup elseSlots

RECURSIVE AnalyzeInsts(_, _, _), AnalyzeLoop(_, _, _)

(* The loop around a loop's code, until it marks nothing new.              *)
AnalyzeLoop(C, E, code) ==
  LET once == AnalyzeInsts(C, E, code)
  IN  IF once = E THEN E ELSE AnalyzeLoop(C, once, code)

(* An `if` with its first branch analyzed to T: the second starts from the *)
(* slots E had before, and from all the values.                            *)
AnalyzeElse(C, E, T, i) ==
  LET U == AnalyzeInsts(C, [T EXCEPT !.slots = E.slots], i.else)
  IN  MarkIf([U EXCEPT !.slots = JoinLocals(T.slots, @)], i.dest,
             {i.thenResult, i.elseResult} \cap U.values # {})

AnalyzeInst(C, E, i) ==
  CASE i.op \in {"TextConcat", "Perform"} -> MarkIf(E, i.dest, TRUE)
    [] i.op = "LoadLocal" -> MarkIf(E, i.dest, i.slot \in E.slots)
    [] i.op = "StoreLocal" -> IF i.src \in E.values THEN [E EXCEPT !.slots = @ \cup {i.slot}] ELSE E
    [] i.op = "Call" -> MarkIf(E, i.dest, i.f \in C \/ HandsOn(i) \cap E.values # {})
    [] i.op = "If" -> AnalyzeElse(C, E, AnalyzeInsts(C, E, i.then), i)
    [] i.op = "While" -> MarkIf(AnalyzeLoop(C, E, i.cond \o i.body), i.dest, TRUE)
    [] i.op = "Repeat" -> MarkIf(AnalyzeLoop(C, E, i.body), i.dest, TRUE)
    [] i.op = "Handle" -> LET B == AnalyzeInsts(C, E, i.body) IN MarkIf(B, i.dest, i.result \in B.values)
    [] OTHER -> IF HandsOn(i) \cap E.values # {} THEN MarkIf(E, i.dest, TRUE) ELSE E

AnalyzeInsts(C, E, code) ==
  IF code = <<>> THEN E ELSE AnalyzeInsts(C, AnalyzeInst(C, E, Head(code)), Tail(code))

value_may_escape(v, F, C) == v \in AnalyzeInsts(C, Clean, F.insts).values

MayEscape(F, C) ==
  /\ F.result # NoId
  /\ "alloc" \in F.effects
  /\ type_can_hold_arena_memory(F.returns)
  /\ value_may_escape(F.result, F, C)

(* The rounds of analyze_escapes: each asks about every function what the  *)
(* round before made of its callees.  The result is the set of functions a *)
(* diagnostic is reported for.                                             *)
RECURSIVE EscapeRounds(_, _)
EscapeRounds(fs, C) ==
  LET found == {f \in DOMAIN fs : MayEscape(fs[f], C)}
  IN  IF found = C THEN C ELSE EscapeRounds(fs, found)
analyze_escapes(fs) == EscapeRounds(fs, {})
=============================================================================
