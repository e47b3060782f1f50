----------------------------- MODULE Interpreter -----------------------------
(***************************************************************************)
(* The MIR interpreter of sarif_codegen/src/lib.rs (execute_insts), the    *)
(* reference every backend is measured against: one loop, an explicit      *)
(* stack of frames for calls, branches, loops and handlers, and one vector *)
(* of values and one of slots for the running function.                    *)
(*                                                                         *)
(* One action for each instruction and each kind of frame popped.  The     *)
(* instructions on texts, lists and builders are in module InterpData, the *)
(* TextIndex ones in TextMap; files and processes are left out.            *)
(***************************************************************************)
EXTENDS Values, TLC

VARIABLES
  mir,       \* the lowered program: its functions, by name, and the tags of its variants
  fn,        \* the running function
  insts,     \* the instructions being executed
  pc,        \* the next of them
  values,    \* the values of the running function
  slots,     \* its mutable locals
  args,      \* active_args
  stack,     \* frame_stack, innermost last
  handlers,  \* the handlers installed, innermost last
  outcome    \* Running, <<"value", v>> or <<"error", class>>

machine == <<fn, insts, pc, values, slots, args, stack, handlers, outcome>>

Running == <<"running">>

(* The vectors of a fresh activation: every value and slot is Unit.        *)
Blank(n) == [i \in 0 .. n |-> Unit]

(* run_main: `main` of the new program starts.                             *)
Enter ==
  /\ fn' = "main"
  /\ insts' = mir'.functions["main"].insts
  /\ pc' = 1
  /\ values' = Blank(mir'.functions["main"].values)
  /\ slots' = Blank(mir'.functions["main"].slots)
  /\ args' = <<>>
  /\ stack' = <<>>
  /\ handlers' = <<>>
  /\ outcome' = Running

Inst == insts[pc]
At(op) == outcome = Running /\ pc \in DOMAIN insts /\ Inst.op = op
Next1 == pc' = pc + 1
L == values[Inst.l]
R == values[Inst.r]

(* A RuntimeError leaves the loop at once.                                 *)
Raise(class) ==
  /\ outcome' = <<"error", class>>
  /\ UNCHANGED <<mir, fn, insts, pc, values, slots, args, stack, handlers>>

(* An instruction that defines a value, or fails.                          *)
Yield(ok, v, class) ==
  IF ok THEN /\ values' = [values EXCEPT ![Inst.dest] = v]
             /\ Next1
             /\ UNCHANGED <<mir, fn, insts, slots, args, stack, handlers, outcome>>
  ELSE Raise(class)

(* A step into other instructions, with frame f to come back by.           *)
Push(f) == stack' = Append(stack, f @@ [dest |-> Inst.dest, insts |-> insts, pc |-> pc + 1])
Goto(code) == insts' = code /\ pc' = 1
----------------------------------------------------------------------------
Const == At("Const") /\ Yield(TRUE, Inst.v, "")
LoadParam == At("LoadParam") /\ Yield(TRUE, args[Inst.index], "")
LoadLocal == At("LoadLocal") /\ Yield(TRUE, slots[Inst.slot], "")

StoreLocal ==
  /\ At("StoreLocal")
  /\ slots' = [slots EXCEPT ![Inst.slot] = values[Inst.src]]
  /\ Next1
  /\ UNCHANGED <<mir, fn, insts, values, args, stack, handlers, outcome>>

MakeEnum ==
  /\ At("MakeEnum")
  /\ Yield(TRUE, VEnum(Inst.v, IF Inst.payload = NoId THEN Unit ELSE values[Inst.payload]), "")
MakeRecord ==
  At("MakeRecord") /\ Yield(TRUE, VArray([i \in DOMAIN Inst.fields |-> values[Inst.fields[i]]]), "")
Field ==
  LET base == values[Inst.base]
  IN  At("Field") /\ Yield(IsRecord(base) /\ Inst.name \in DOMAIN base[2],
                           base[2][Inst.name], "type")
EnumTagEq ==
  LET e == values[Inst.e]
  IN  At("EnumTagEq") /\ Yield(IsEnum(e), VBool(mir.tags[e[2]] = Inst.tag), "type")
EnumPayload ==
  LET e == values[Inst.e]
  IN  At("EnumPayload") /\ Yield(IsEnum(e) /\ e[3] # Unit, e[3], "type")

(* run_arithmetic, run_div.  A zero divisor is an error of Div; Rem divides *)
(* unchecked, and the process panics.                                      *)
Arithmetic ==
  \E op \in {"Add", "Sub", "Mul"} :
    At(op) /\ Yield(IsInt(L) /\ IsInt(R),
                    VInt(CASE op = "Add" -> L[2] + R[2] [] op = "Sub" -> L[2] - R[2]
                           [] op = "Mul" -> L[2] * R[2]), "type")
Divide ==
  \E op \in {"Div", "Rem"} :
    At(op) /\ Yield(IsInt(L) /\ IsInt(R) /\ R[2] # 0,
                    VInt(IF op = "Div" THEN Quot(L[2], R[2]) ELSE Rem(L[2], R[2])),
                    IF ~IsInt(L) \/ ~IsInt(R) THEN "type" ELSE IF op = "Div" THEN "zero" ELSE "panic")
TextConcat ==
  At("TextConcat") /\ Yield(IsText(L) /\ IsText(R), VText(L[2] \o R[2]), "type")
Logic ==
  \E op \in {"And", "Or"} :
    At(op) /\ Yield(IsBool(L) /\ IsBool(R),
                    VBool(IF op = "And" THEN L[2] /\ R[2] ELSE L[2] \/ R[2]), "type")
Equality ==
  \E op \in {"Eq", "Ne"} : At(op) /\ Yield(TRUE, VBool((L = R) = (op = "Eq")), "")
Comparison ==
  \E op \in {"Lt", "Le", "Gt", "Ge"} :
    At(op) /\ Yield(IsInt(L) /\ IsInt(R),
                    VBool(CASE op = "Lt" -> L[2] < R[2] [] op = "Le" -> L[2] <= R[2]
                            [] op = "Gt" -> L[2] > R[2] [] op = "Ge" -> L[2] >= R[2]), "type")

(* Scoped arenas do not exist for the interpreter.                         *)
Alloc ==
  /\ At("AllocPush") \/ At("AllocPop")
  /\ Next1
  /\ UNCHANGED <<mir, fn, insts, values, slots, args, stack, handlers, outcome>>

(* A failed contract or bounds check.                                      *)
Contract ==
  LET c == values[Inst.c]
  IN  /\ At("Assert")
      /\ \/ /\ c = VBool(TRUE)
            /\ Next1
            /\ UNCHANGED <<mir, fn, insts, values, slots, args, stack, handlers, outcome>>
         \/ /\ c # VBool(TRUE)
            /\ Raise(IF IsBool(c) THEN Inst.kind ELSE "type")
----------------------------------------------------------------------------
If ==
  LET c == values[Inst.c]
  IN  /\ At("If")
      /\ IF IsBool(c)
         THEN /\ Push([k |-> "if", result |-> IF c[2] THEN Inst.thenResult ELSE Inst.elseResult])
              /\ Goto(IF c[2] THEN Inst.then ELSE Inst.else)
              /\ UNCHANGED <<mir, fn, values, slots, args, handlers, outcome>>
         ELSE Raise("type")

(* A count of zero or less does not run the body.                          *)
Repeat ==
  LET n == values[Inst.n]
  IN  /\ At("Repeat")
      /\ \/ /\ IsInt(n) /\ n[2] > 0
            /\ Push([k |-> "repeat", n |-> n[2], i |-> 0, slot |-> Inst.slot, body |-> Inst.body])
            /\ Goto(Inst.body)
            /\ slots' = IF Inst.slot = NoId THEN slots ELSE [slots EXCEPT ![Inst.slot] = VInt(0)]
            /\ UNCHANGED <<mir, fn, values, args, handlers, outcome>>
         \/ ~(IsInt(n) /\ n[2] > 0) /\ Yield(IsInt(n), Unit, "type")

While ==
  /\ At("While")
  /\ Push([k |-> "cond", cond |-> Inst.cond, c |-> Inst.c, body |-> Inst.body])
  /\ Goto(Inst.cond)
  /\ UNCHANGED <<mir, fn, values, slots, args, handlers, outcome>>

Call ==
  /\ At("Call")
  /\ Push([k |-> "call", fn |-> fn, values |-> values, slots |-> slots, args |-> args])
  /\ fn' = Inst.f
  /\ Goto(mir.functions[Inst.f].insts)
  /\ values' = Blank(mir.functions[Inst.f].values)
  /\ slots' = Blank(mir.functions[Inst.f].slots)
  /\ args' = [i \in DOMAIN Inst.args |-> values[Inst.args[i]]]
  /\ UNCHANGED <<mir, handlers, outcome>>

(* The body of a handler runs on fresh values, slots and arguments.        *)
Handle ==
  /\ At("Handle")
  /\ Push([k |-> "handle", result |-> Inst.result, values |-> values, slots |-> slots, args |-> args])
  /\ Goto(Inst.body)
  /\ values' = Blank(mir.functions[fn].values)
  /\ slots' = Blank(mir.functions[fn].slots)
  /\ args' = <<>>
  /\ handlers' = Append(handlers, Inst.arms)
  /\ UNCHANGED <<mir, fn, outcome>>

(* The innermost arm for the operation would run.  The lowering leaves the *)
(* effect of every arm empty, so none is found and the effect unwinds.     *)
Matching(h) == {a \in handlers[h] : a.effect = Inst.effect /\ a.operation = Inst.operation}
Perform ==
  /\ At("Perform")
  /\ \A h \in DOMAIN handlers : Matching(h) = {}
  /\ Raise("unwind")
----------------------------------------------------------------------------
(* The end of a block: the innermost frame says what follows.              *)
Top == Last(stack)
AtEnd(k) == outcome = Running /\ pc \notin DOMAIN insts /\ stack # <<>> /\ Top.k = k
ResultOf(id) == IF id = NoId THEN Unit ELSE values[id]
Return == insts' = Top.insts /\ pc' = Top.pc /\ stack' = Front(stack)

EndCall_Again ==
  /\ AtEnd("call")
  /\ values' = [Top.values EXCEPT ![Top.dest] = ResultOf(mir.functions[fn].result)]
  /\ slots' = Top.slots
  /\ args' = Top.args
  /\ fn' = Top.fn
  /\ insts' = Top.insts /\ pc' = Top.pc - 1 /\ stack' = Front(stack)
  /\ UNCHANGED <<mir, handlers, outcome>>
EndCall ==
  /\ AtEnd("call")
  /\ values' = [Top.values EXCEPT ![Top.dest] = ResultOf(mir.functions[fn].result)]
  /\ slots' = Top.slots
  /\ args' = Top.args
  /\ fn' = Top.fn
  /\ Return
  /\ UNCHANGED <<mir, handlers, outcome>>

EndIf ==
  /\ AtEnd("if")
  /\ values' = [values EXCEPT ![Top.dest] = ResultOf(Top.result)]
  /\ Return
  /\ UNCHANGED <<mir, fn, slots, args, handlers, outcome>>

(* The condition of a `while` has run: the body, or out.                   *)
EndCondition ==
  LET c == values[Top.c]
  IN  /\ AtEnd("cond")
      /\ \/ /\ c = VBool(TRUE)
            /\ stack' = [stack EXCEPT ![Len(stack)].k = "body"]
            /\ Goto(Top.body)
            /\ UNCHANGED <<mir, fn, values, slots, args, handlers, outcome>>
         \/ /\ c # VBool(TRUE)
            /\ IF IsBool(c) THEN /\ values' = [values EXCEPT ![Top.dest] = Unit]
                                 /\ Return
                                 /\ UNCHANGED <<mir, fn, slots, args, handlers, outcome>>
               ELSE Raise("type")

EndBody ==
  /\ AtEnd("body")
  /\ stack' = [stack EXCEPT ![Len(stack)].k = "cond"]
  /\ Goto(Top.cond)
  /\ UNCHANGED <<mir, fn, values, slots, args, handlers, outcome>>

EndRepeat ==
  /\ AtEnd("repeat")
  /\ \/ /\ Top.i + 1 < Top.n
        /\ stack' = [stack EXCEPT ![Len(stack)].i = @ + 1]
        /\ slots' = IF Top.slot = NoId THEN slots ELSE [slots EXCEPT ![Top.slot] = VInt(Top.i + 1)]
        /\ Goto(Top.body)
        /\ UNCHANGED <<mir, fn, values, args, handlers, outcome>>
     \/ /\ Top.i + 1 >= Top.n
        /\ values' = [values EXCEPT ![Top.dest] = Unit]
        /\ Return
        /\ UNCHANGED <<mir, fn, slots, args, handlers, outcome>>

EndHandle_Keeps ==
  /\ AtEnd("handle")
  /\ values' = [Top.values EXCEPT ![Top.dest] = ResultOf(Top.result)]
  /\ slots' = Top.slots
  /\ args' = Top.args
  /\ Return
  /\ UNCHANGED <<mir, fn, handlers, outcome>>
EndHandle ==
  /\ AtEnd("handle")
  /\ values' = [Top.values EXCEPT ![Top.dest] = ResultOf(Top.result)]
  /\ slots' = Top.slots
  /\ args' = Top.args
  /\ handlers' = Front(handlers)
  /\ Return
  /\ UNCHANGED <<mir, fn, outcome>>

(* The end of `main`: its result is the program's.                         *)
Halt ==
  /\ outcome = Running /\ pc \notin DOMAIN insts /\ stack = <<>>
  /\ outcome' = <<"value", ResultOf(mir.functions[fn].result)>>
  /\ UNCHANGED <<mir, fn, insts, pc, values, slots, args, stack, handlers>>

Step ==
  \/ Const \/ LoadParam \/ LoadLocal \/ StoreLocal \/ MakeEnum \/ MakeRecord \/ Field
  \/ EnumTagEq \/ EnumPayload \/ Arithmetic \/ Divide \/ TextConcat \/ Logic \/ Equality
  \/ Comparison \/ Alloc \/ Contract \/ If \/ Repeat \/ While \/ Call \/ Handle \/ Perform
  \/ EndCall \/ EndIf \/ EndCondition \/ EndBody \/ EndRepeat \/ EndHandle \/ Halt
=============================================================================
