----------------------------- MODULE CompileRun -----------------------------
(***************************************************************************)
(* A source program on its way through the compiler: the check of its      *)
(* types and effects (TypeCheck), the lowering to MIR (MirLowering), the   *)
(* escape analysis of the lowered functions (Escape), whose reports do not *)
(* keep a program from running (in profile rt they would), and the         *)
(* interpreter running `main` (Interpreter).  The compile-time             *)
(* evaluator (ConstEval), which gives the same language a meaning by       *)
(* walking the tree, is the reference the run is compared with.            *)
(***************************************************************************)
EXTENDS MirLowering, TypeCheck, Escape

CONSTANTS
  Sources,       \* names of the source programs
  Program(_)     \* the program of each name

(* What ConstEval makes of main: a value, or an error.                     *)
EvalMain(P) ==
  LET r == EvalExpr(P, [Fresh0 EXCEPT !.vals = ConstValues(P).vals], Call("main", <<>>))
  IN  IF Ok(r) THEN <<"value", r.v>> ELSE <<"error", r.err>>

VARIABLES source, phase,
          mir, fn, insts, pc, values, slots, args, stack, handlers, outcome

I == INSTANCE Interpreter

NoMir == [functions |-> NoBindings, tags |-> NoBindings, escapes |-> {}]
vars == <<source, phase, mir, fn, insts, pc, values, slots, args, stack, handlers, outcome>>
machine == <<fn, insts, pc, values, slots, args, stack, handlers, outcome>>

Init ==
  /\ source \in Sources
  /\ phase = "source"
  /\ mir = NoMir
  /\ fn = "main"
  /\ insts = <<>>
  /\ pc = 1
  /\ values = NoBindings
  /\ slots = NoBindings
  /\ args = <<>>
  /\ stack = <<>>
  /\ handlers = <<>>
  /\ outcome = I!Running

(* What a program declares, as the check sees it.                          *)
Declared(P) ==
  [functions |-> [f \in DOMAIN P.functions |->
                    [params |-> P.functions[f].types, returns |-> P.functions[f].returns,
                     effects |-> P.functions[f].effects]],
   consts |-> P.constTypes, enums |-> [E |-> P.variants], structs |-> NoBindings, effects |-> {}]

(* The diagnostics of every constant and function, G being the declarations. *)
Diagnostics(P, G) ==
  UNION {CheckConst(G, P.constTypes[x], P.consts[x]) : x \in DOMAIN P.consts} \cup
  UNION {CheckFunction(G, f, P.functions[f]) : f \in DOMAIN P.functions}

(* analyze: a program with a diagnostic is not lowered.                    *)
Analyze ==
  /\ phase = "source"
  /\ \E P \in {Program(source)} : \E G \in {Declared(P)} :
       phase' = IF Diagnostics(P, G) = {} THEN "checked" ELSE "rejected"
  /\ UNCHANGED <<source, mir, machine>>

(* mir_diagnostics: neither is one whose lowering reported a diagnostic    *)
(* run.  The functions the escape analysis reports are kept with the MIR.  *)
Compile ==
  /\ phase = "checked"
  /\ \E M \in {Lower(Program(source))} : mir' = M @@ [escapes |-> analyze_escapes(M.functions)]
  /\ \/ /\ mir'.functions = NoBindings
        /\ phase' = "rejected"
        /\ UNCHANGED machine
     \/ /\ mir'.functions # NoBindings
        /\ phase' = "running"
        /\ I!Enter
  /\ UNCHANGED source

Execute == phase = "running" /\ I!Step /\ UNCHANGED <<source, phase>>

Over == phase = "rejected" \/ outcome # I!Running
Stop == Over /\ UNCHANGED vars

Next == Analyze \/ Compile \/ Execute \/ Stop

(* The interpreter's loop runs on until it is done.                        *)
Spec == Init /\ [][Next]_vars /\ WF_vars(Execute)
----------------------------------------------------------------------------

(* The two evaluators of the language agree: a program that both support   *)
(* and that compiles ends, interpreted, in the value or in the kind of     *)
(* error that compile-time evaluation of the same source gives, whichever  *)
(* way its matches, loops, arrays and contracts were lowered.  (A remainder *)
(* by zero is an error of the one and a panic of the other.)               *)
ConstAgrees ==
  outcome # I!Running =>
    EvalMain(Program(source)) \in
      {<<"error", "unsupported">>, IF outcome = <<"error", "panic">> THEN <<"error", "zero">> ELSE outcome}

(* What the language reference says of a program, where the source comes   *)
(* with it, is what running it gives: the iterations of `for`.             *)
AsDocumented ==
  outcome # I!Running => Program(source).expect \in {outcome, Unit}

(* An index outside its array ends in the bounds error: an access lowered  *)
(* without a bounds assertion is never reached with a bad index.           *)
BoundsChecked ==
  outcome # I!Running /\ EvalMain(Program(source)) = <<"error", "bounds">> =>
    outcome = <<"error", "bounds">>

(* Types are sound: a program that passed the check, whatever the kinds of *)
(* the values it mixes, never asks the interpreter for an operation on the *)
(* wrong kind of value.                                                    *)
NoTypeFault == outcome # <<"error", "type">>

(* The values and slots an instruction reads.                              *)
Reads(i) ==
  CASE i.op = "StoreLocal" -> {i.src}
    [] i.op \in {"MakeRecord"} -> ToSet(i.fields)
    [] i.op = "MakeEnum" -> {i.payload} \ {NoId}
    [] i.op = "Field" -> {i.base}
    [] i.op \in {"EnumTagEq", "EnumPayload"} -> {i.e}
    [] i.op \in {"Call", "Perform"} -> ToSet(i.args)
    [] i.op \in {"Assert", "If"} -> {i.c}
    [] i.op = "Repeat" -> {i.n}
    [] "l" \in DOMAIN i -> {i.l, i.r}
    [] OTHER -> {}

(* Whether a block reads only values V and slots S set before on every     *)
(* path to it, or by itself; and the values and slots set after it.        *)
RECURSIVE ScopedFrom(_, _), ScopedInst(_, _)
ScopedFrom(b, code) ==
  IF code = <<>> \/ ~b.ok THEN b ELSE ScopedFrom(ScopedInst(b, Head(code)), Tail(code))
Scoped(code, V, S) == ScopedFrom([ok |-> TRUE, V |-> V, S |-> S], code)
ScopedInst(b, i) ==
  LET inner(code, S, result) ==
        LET c == Scoped(code, b.V, S) IN c.ok /\ (result = NoId \/ result \in c.V)
      cond == Scoped(i.cond, b.V, b.S)
  IN  [ok |-> /\ b.ok
              /\ Reads(i) \subseteq b.V
              /\ i.op = "LoadLocal" => i.slot \in b.S
              /\ i.op = "If" => inner(i.then, b.S, i.thenResult) /\ inner(i.else, b.S, i.elseResult)
              /\ i.op = "Repeat" => inner(i.body, b.S \cup {i.slot}, NoId)
              /\ i.op = "While" => cond.ok /\ i.c \in cond.V /\ Scoped(i.body, cond.V, cond.S).ok
              /\ i.op = "Handle" => LET c == Scoped(i.body, {}, {})
                                    IN  c.ok /\ (i.result = NoId \/ i.result \in c.V),
       V |-> IF "dest" \in DOMAIN i THEN b.V \cup {i.dest} ELSE b.V,
       S |-> IF i.op = "StoreLocal" THEN b.S \cup {i.slot} ELSE b.S]

(* Lowered code reads no value and no slot before it is set: neither one   *)
(* of another branch, of an unrolled copy or of a block already left, nor  *)
(* one of the function around a handler.  (The interpreter would read      *)
(* Unit, and the native emitters an undefined variable.)                   *)
WellScoped ==
  phase = "running" /\ pc = 1 /\ stack = <<>> =>
    \A f \in DOMAIN mir.functions :
      LET c == Scoped(mir.functions[f].insts, {}, {})
      IN  c.ok /\ (mir.functions[f].result = NoId \/ mir.functions[f].result \in c.V)

(* A handler is installed exactly as long as the frame of its body is on   *)
(* the stack, through the calls and loops inside it.                       *)
HandlersMatchFrames ==
  outcome = I!Running =>
    Len(handlers) = Cardinality({i \in DOMAIN stack : stack[i].k = "handle"})

(* The texts in a value, and the texts written in lowered code.            *)
RECURSIVE TextsIn(_), Written(_)
TextsIn(v) ==
  CASE IsText(v) -> {v[2]}
    [] IsEnum(v) -> TextsIn(v[3])
    [] IsRecord(v) -> UNION {TextsIn(v[2][i]) : i \in DOMAIN v[2]}
    [] OTHER -> {}
Written(code) ==
  UNION {CASE code[k].op = "Const" -> TextsIn(code[k].v)
           [] code[k].op = "If" -> Written(code[k].then \o code[k].else)
           [] code[k].op = "While" -> Written(code[k].cond \o code[k].body)
           [] code[k].op \in {"Repeat", "Handle"} -> Written(code[k].body)
           [] OTHER -> {} : k \in DOMAIN code}

(* A function is about to return.                                          *)
Returning == phase = "running" /\ outcome = I!Running /\ pc \notin DOMAIN insts
             /\ (stack = <<>> \/ Last(stack).k = "call")

(* No text leaves unreported the function that made it: where every        *)
(* function declares `alloc`, one that returns a text, or an array of      *)
(* texts, which it was not given as an argument and which no function has  *)
(* written in its code, is one the escape analysis reports, whatever       *)
(* branches, loops, slots, payloads and calls the text came through.       *)
EscapesReported ==
  LET F == mir.functions[fn]
  IN  Returning /\ (F.returns = TText \/ F.returns[1] = "Array")
      /\ (\A f \in DOMAIN mir.functions : "alloc" \in mir.functions[f].effects) =>
        \/ fn \in mir.escapes
        \/ F.result # NoId /\ TextsIn(values[F.result]) \subseteq
              TextsIn(VArray(args)) \cup UNION {Written(mir.functions[f].insts) : f \in DOMAIN mir.functions}

(* A program whose loops are bounded comes to an end once it runs: the     *)
(* frames the interpreter pushes are all popped, or an error stops it.     *)
Terminates == phase = "running" ~> Over
=============================================================================
