------------------------------ MODULE Analysis ------------------------------
(***************************************************************************)
(* The analysis of one module, analyze in sarif_frontend/src/semantic.rs:  *)
(* the effects of the functions that declare none (infer_effects), the     *)
(* parts of their parameters that functions consume (infer_param_modes),   *)
(* then every item checked for types, effects and ownership, and again     *)
(* against the profile.  Both inferences go round the functions until      *)
(* nothing changes; the first visits them in the order of a HashMap, which *)
(* may be any, the second in the order of the module.                      *)
(***************************************************************************)
EXTENDS Ownership, Consumption

(* What the effect inference and the profiles read off a function body:    *)
(* its direct effects and the functions it calls (visit_body), whether it  *)
(* has a loop that the total profile refuses, and which types the rt       *)
(* profile accepts (semantic/profile.rs).                                  *)

RECURSIVE Visit(_), VisitBody(_)

(* visit_expr: what e does, as <<"effect", x>> and <<"call", f>>.  An      *)
(* effect that is handled is still performed.                              *)
Visit(e) ==
  LET all(es) == UNION {Visit(es[i]) : i \in DOMAIN es}
      fields(fs) == UNION {Visit(fs[i].e) : i \in DOMAIN fs}
      arms(as) == UNION {VisitBody(as[i].b) : i \in DOMAIN as}
  IN  CASE e.k = "call" ->
             all(e.es) \cup {IF e.f = "tcp_send" THEN <<"effect", "io">>
                             ELSE IF e.f \in Allocating THEN <<"effect", "alloc">>
                             ELSE <<"call", e.f>>}
        [] e.k \in {"ctor", "array"} -> all(e.es)
        [] e.k \in {"field", "not", "len"} -> Visit(e.e)
        [] e.k = "index" -> Visit(e.e) \cup Visit(e.i)
        [] e.k = "bin" -> Visit(e.l) \cup Visit(e.r)
        [] e.k = "record" -> fields(e.fs)
        [] e.k = "update" -> Visit(e.e) \cup fields(e.fs)
        [] e.k = "if" -> Visit(e.c) \cup VisitBody(e.t) \cup VisitBody(e.f)
        [] e.k = "match" -> Visit(e.e) \cup arms(e.arms)
        [] e.k = "repeat" -> Visit(e.n) \cup VisitBody(e.b)
        [] e.k = "while" -> Visit(e.c) \cup VisitBody(e.b)
        [] e.k = "comptime" -> VisitBody(e.b)
        [] e.k = "perform" -> all(e.es) \cup {<<"effect", e.op[1]>>}
        [] e.k = "handle" -> VisitBody(e.b) \cup arms(e.arms)
        [] OTHER -> {}

(* visit_stmt, visit_body                                                  *)
VisitStmt(s) ==
  CASE s.k = "arena" -> VisitBody(s.b)
    [] s.k = "assignAt" -> Visit(s.i) \cup Visit(s.e)
    [] OTHER -> Visit(s.e)
VisitBody(b) == Visit(b.tail) \cup UNION {VisitStmt(b.ss[i]) : i \in DOMAIN b.ss}

Direct(F) == {x[2] : x \in {y \in VisitBody(F.body) : y[1] = "effect"}}
Callees(F) == {x[2] : x \in {y \in VisitBody(F.body) : y[1] = "call"}}
----------------------------------------------------------------------------
(* expr_contains_loop: a repeat of a literal count is no loop, whatever    *)
(* its body; neither arms of handlers nor targets of assignments count.    *)
RECURSIVE ContainsLoop(_), BodyContainsLoop(_)
ContainsLoop(e) ==
  LET some(es) == \E i \in DOMAIN es : ContainsLoop(es[i])
      given(fs) == \E i \in DOMAIN fs : ContainsLoop(fs[i].e)
  IN  CASE e.k = "repeat" -> e.n.k # "int"
        [] e.k = "while" -> TRUE
        [] e.k \in {"perform", "call", "ctor", "array"} -> some(e.es)
        [] e.k = "if" -> ContainsLoop(e.c) \/ BodyContainsLoop(e.t) \/ BodyContainsLoop(e.f)
        [] e.k = "match" -> ContainsLoop(e.e) \/ \E i \in DOMAIN e.arms : BodyContainsLoop(e.arms[i].b)
        [] e.k = "record" -> given(e.fs)
        [] e.k = "update" -> ContainsLoop(e.e) \/ given(e.fs)
        [] e.k \in {"not", "field", "len"} -> ContainsLoop(e.e)
        [] e.k = "bin" -> some(<<e.l, e.r>>)
        [] e.k = "index" -> some(<<e.e, e.i>>)
        [] e.k \in {"comptime", "handle"} -> BodyContainsLoop(e.b)
        [] OTHER -> FALSE

(* body_contains_loop                                                      *)
BodyContainsLoop(b) ==
  \/ ContainsLoop(b.tail)
  \/ \E i \in DOMAIN b.ss :
       IF b.ss[i].k = "arena" THEN BodyContainsLoop(b.ss[i].b) ELSE ContainsLoop(b.ss[i].e)

(* type_is_rt_safe_inner: the fields of structs are looked into, the       *)
(* payloads of enums are not.                                              *)
RECURSIVE RtSafe(_, _, _)
RtSafe(G, ty, visiting) ==
  CASE ty[1] \in {"Text", "Bytes", "TextIndex", "TextBuilder", "List", "File"} -> FALSE
    [] ty[1] = "Array" -> RtSafe(G, ty[2], visiting)
    [] ty[1] = "Named" ->
         ty[2] \in DOMAIN G.structs \ visiting =>
           \A i \in DOMAIN G.structs[ty[2]] :
             RtSafe(G, G.structs[ty[2]][i].ty, visiting \cup {ty[2]})
    [] OTHER -> TRUE
----------------------------------------------------------------------------
CONSTANTS
  Units,       \* names of the modules analysed
  Source(_)    \* the module of each name: functions, their order, enums, structs, profile

VARIABLES
  P,           \* the module under analysis
  phase,       \* the pass it is in, at last "accepted" or "rejected"
  effects,     \* the effects of each function so far
  usages,      \* the modes of the parameters of each function so far
  pending,     \* functions not yet visited in this round of infer_effects
  at,          \* position in the module's order, of the other passes
  changed,     \* whether this round changed anything
  reported     \* codes of the diagnostics

vars == <<P, phase, effects, usages, pending, at, changed, reported>>

Names == DOMAIN P.functions

(* The declarations as the passes see them so far.                         *)
Signatures ==
  [functions |-> [f \in Names |->
                    [params |-> P.functions[f].types, returns |-> P.functions[f].returns,
                     effects |-> effects[f], usages |-> usages[f]]],
   consts |-> [x \in {} |-> TUnit], enums |-> P.enums, structs |-> P.structs, effects |-> {}]

(* Effects are inferred for a function that declares none, main excepted.  *)
Explicit(f) == f = "main" \/ P.functions[f].effects # {}

Init ==
  /\ \E u \in Units : P = Source(u)
  /\ phase = "effects"
  /\ effects = [f \in Names |-> IF Explicit(f) THEN P.functions[f].effects ELSE Direct(P.functions[f])]
  /\ usages = [f \in Names |-> [i \in DOMAIN P.functions[f].params |-> Borrow]]
  /\ pending = Names
  /\ at = 1
  /\ changed = FALSE
  /\ reported = {}
----------------------------------------------------------------------------
(* infer_effects: one function of a round gets the effects of those it     *)
(* calls, as far as they are known.                                        *)
InferEffects_Once(f) ==
  /\ phase = "effects"
  /\ f \in pending
  /\ effects' = IF Explicit(f) THEN effects
                ELSE [effects EXCEPT ![f] = @ \cup UNION {effects[g] : g \in Callees(P.functions[f]) \cap Names}]
  /\ changed' = FALSE
  /\ pending' = pending \ {f}
  /\ UNCHANGED <<P, phase, usages, at, reported>>
InferEffects(f) ==
  /\ phase = "effects"
  /\ f \in pending
  /\ effects' = IF Explicit(f) THEN effects
                ELSE [effects EXCEPT ![f] = @ \cup UNION {effects[g] : g \in Callees(P.functions[f]) \cap Names}]
  /\ changed' = (changed \/ effects' # effects)
  /\ pending' = pending \ {f}
  /\ UNCHANGED <<P, phase, usages, at, reported>>

(* The end of a round: another one if it changed something.                *)
EffectsRound ==
  /\ phase = "effects"
  /\ pending = {}
  /\ phase' = IF changed THEN phase ELSE "modes"
  /\ pending' = IF changed THEN Names ELSE {}
  /\ changed' = FALSE
  /\ UNCHANGED <<P, effects, usages, at, reported>>

(* infer_param_modes: the next function of a round, its usages replaced.   *)
InferModes ==
  /\ phase = "modes"
  /\ at <= Len(P.order)
  /\ \E f \in {P.order[at]} : \E F \in {P.functions[f]}, G \in {Signatures} : \E L \in {ParamTypes(F)} :
       \E U \in {ContractModes(G, L, F)} : \E V \in {BodyModes(G, L, F, U)} :
         usages' = [usages EXCEPT ![f] = ParamModes(G, F, V)]
  /\ changed' = (changed \/ usages' # usages)
  /\ at' = at + 1
  /\ UNCHANGED <<P, phase, effects, pending, reported>>
ModesRound_Kept ==
  /\ phase = "modes"
  /\ at > Len(P.order)
  /\ phase' = IF changed THEN phase ELSE "items"
  /\ at' = 1
  /\ UNCHANGED <<P, effects, usages, pending, changed, reported>>
ModesRound ==
  /\ phase = "modes"
  /\ at > Len(P.order)
  /\ phase' = IF changed THEN phase ELSE "items"
  /\ changed' = FALSE
  /\ at' = 1
  /\ UNCHANGED <<P, effects, usages, pending, reported>>
----------------------------------------------------------------------------
(* The contracts of a function consume nothing; `ensures` sees the result. *)
Contracts(G, L, F) ==
  ContractOwnership(G, L, F.requires) \cup ContractOwnership(G, L @@ ("result" :> F.returns), F.ensures)

(* analyze: the next function checked for types, effects and ownership.    *)
CheckItem ==
  /\ phase = "items"
  /\ at <= Len(P.order)
  /\ \E f \in {P.order[at]} : \E F \in {P.functions[f]}, G \in {Signatures} : \E L \in {ParamTypes(F)} :
       reported' = reported \cup CheckFunction(G, f, F) \cup Contracts(G, L, F) \cup BodyOwnership(G, L, F.body)
  /\ at' = at + 1
  /\ UNCHANGED <<P, phase, effects, usages, pending, changed>>
CheckedItems ==
  /\ phase = "items"
  /\ at > Len(P.order)
  /\ phase' = "profile"
  /\ at' = 1
  /\ UNCHANGED <<P, effects, usages, pending, changed, reported>>

(* What a profile has against a function, and against the declared types.  *)
Blocked == {"io", "alloc", "async", "parallel"}
ProfileOf_Declared(G, f, F) ==
  CASE P.profile = "total" -> When(F.effects # {}, "total-effect") \cup
                              When(BodyContainsLoop(F.body), "total-loop")
    [] P.profile = "rt" -> When(F.effects \cap Blocked # {}, "rt-effect") \cup
                           When(\E ty \in ToSet(F.types) \cup {F.returns} : ~RtSafe(G, ty, {}), "rt-type")
    [] OTHER -> {}
ProfileOf(G, f, F) ==
  CASE P.profile = "total" -> When(effects[f] # {}, "total-effect") \cup
                              When(BodyContainsLoop(F.body), "total-loop")
    [] P.profile = "rt" -> When(effects[f] \cap Blocked # {}, "rt-effect") \cup
                           When(\E ty \in ToSet(F.types) \cup {F.returns} : ~RtSafe(G, ty, {}), "rt-type")
    [] OTHER -> {}
ProfileOfTypes(G) ==
  LET parts(n) == IF n \in DOMAIN G.enums THEN {v.payload : v \in ToSet(G.enums[n])}
                  ELSE {v.ty : v \in ToSet(G.structs[n])}
  IN  When(P.profile = "rt" /\ \E n \in DOMAIN G.enums \cup DOMAIN G.structs :
                                 \E ty \in parts(n) : ~RtSafe(G, ty, {}), "rt-type")

(* analyze: every item against the profile, and the verdict: a module with *)
(* a diagnostic is not lowered.                                            *)
CheckProfile ==
  /\ phase = "profile"
  /\ \E G \in {Signatures} :
       reported' = reported \cup ProfileOfTypes(G) \cup UNION {ProfileOf(G, f, P.functions[f]) : f \in Names}
  /\ phase' = IF reported' = {} THEN "accepted" ELSE "rejected"
  /\ UNCHANGED <<P, effects, usages, pending, at, changed>>

Over == phase \in {"accepted", "rejected"}
Stop == Over /\ UNCHANGED vars

Next ==
  \/ \E f \in Names : InferEffects(f)
  \/ EffectsRound \/ InferModes \/ ModesRound \/ CheckItem \/ CheckedItems \/ CheckProfile \/ Stop

(* analyze goes on until it is over: every pass takes steps that change    *)
(* something exactly as long as it is not, so this is weak fairness of     *)
(* Next, said without ENABLED.                                             *)
Fairness == []<>Over \/ []<><<Next>>_vars

Spec == Init /\ [][Next]_vars /\ Fairness
----------------------------------------------------------------------------
RunsOf(f) == UNION {Runs(Q, G, f) : Q \in {P}, G \in {Signatures}}

(* Whatever order infer_effects visits the functions in, a function that   *)
(* declares no effects ends up with exactly those its runs can perform,    *)
(* those its callees declare included.                                     *)
EffectsExact ==
  Over => \A f \in Names : ~Explicit(f) => effects[f] = UNION {r.effects : r \in RunsOf(f)}

(* In a module without diagnostics no run of a function consumes an affine *)
(* value, or a part of one, twice: neither by itself nor through the       *)
(* functions it calls, of which the check knows only the inferred modes,   *)
(* nor in a contract around its body.                                      *)
MovesOnce == phase = "accepted" => \A f \in Names : \A r \in RunsOf(f) : ~r.twice

(* A module refused for ownership alone has a run that consumes something  *)
(* twice: the modes and the union of branches are not too coarse.          *)
NoFalseAlarm ==
  (phase = "rejected" /\ reported \subseteq {"affine-reuse", "repeat-affine-capture"})
    => \E f \in Names : \E r \in RunsOf(f) : r.twice

(* In a module accepted under the total profile no run performs an effect  *)
(* or enters a loop without a literal count; under rt none performs I/O,   *)
(* allocation or concurrency, and no function takes or returns a type in   *)
(* which the ownership check finds an affine value.                        *)
ProfileKept ==
  phase = "accepted" =>
    \A f \in Names : \A r \in RunsOf(f) :
      /\ P.profile = "total" => r.effects = {} /\ ~r.looped
      /\ P.profile = "rt" => r.effects \cap Blocked = {}
      /\ P.profile = "rt" => \A ty \in ToSet(P.functions[f].types) \cup {P.functions[f].returns}, G \in {Signatures} :
                              ~Affine(G, ty)

(* Both inferences reach a round without change, so the analysis ends.     *)
AnalysisEnds == <>Over
----------------------------------------------------------------------------
(* Families of small modules for Analysis.  `moves`: two uses of a record, *)
(* of a record in a record or of an enum's payload, directly or through    *)
(* functions that consume parts of them, in every arrangement of           *)
(* branches, loops and arenas.  `contracts`: one use in a contract and one *)
(* in the body.  `calls`: every call graph of three functions, with        *)
(* effects.  `profiles`: a chain of calls from main to some effect, loop   *)
(* or type, under each profile.  `nested` (a branch in a loop, a loop in a *)
(* loop) is not among MCUnits: the check misses second moves there.        *)

Fn(params, types, returns, body) ==
  [params |-> params, types |-> types, returns |-> returns, requires |-> NoExpr,
   ensures |-> NoExpr, body |-> body, effects |-> {}]
Declares(F, effs) == [F EXCEPT !.effects = effs]
N(x) == Name(x)
Value(e) == Body(<<>>, e)
Steps(ss) == Body(ss, NoExpr)
None == [x \in {} |-> <<>>]
Typedef(n, ty) == [name |-> n, ty |-> ty]
Variant(n, ty) == [name |-> n, payload |-> ty]
TR == TNamed("R")
TW == TNamed("W")
TOpt == TNamed("Opt")
----------------------------------------------------------------------------
(* moves: struct R { a: Text, b: Text }, W { r: R, n: I32 },               *)
(* enum Opt { none, some(R) }, and functions that consume parts of them.   *)
MoveStructs == [R |-> <<Typedef("a", TText), Typedef("b", TText)>>, W |-> <<Typedef("r", TR), Typedef("n", TI32)>>]
MoveEnums == [Opt |-> <<Variant("none", TUnit), Variant("some", TR)>>]

OnR(returns, e) == Fn(<<"r">>, <<TR>>, returns, Value(e))
Counted(zero, more) ==
  Fn(<<"r", "n">>, <<TR, TI32>>, TText, Value(If(Bin("Eq", N("n"), Lit(0)), Value(zero), Value(more))))
Less == Bin("Sub", N("n"), Lit(1))
PayloadOr(arm, none) == <<Arm(PVariant("some", "p"), arm), Arm(PVariant("none", NoName), none)>>
Helpers ==
  [keep |-> Fn(<<"t">>, <<TText>>, TText, Value(N("t"))),
   peek |-> Fn(<<"t">>, <<TText>>, TI32, Value(Call("text_len", <<N("t")>>))),
   half |-> OnR(TText, FieldOf(N("r"), "a")),
   other |-> OnR(TText, FieldOf(N("r"), "b")),
   whole |-> OnR(TR, N("r")),
   via |-> Fn(<<"w">>, <<TW>>, TText, Value(Call("half", <<FieldOf(N("w"), "r")>>))),
   opt |-> Fn(<<"o">>, <<TOpt>>, TText,
              Value(Match(N("o"), PayloadOr(Value(Call("half", <<N("p")>>)), Value(Text(<<>>)))))),
   down |-> Counted(Call("other", <<N("r")>>), Call("down", <<N("r"), Less>>)),
   ping |-> Counted(Call("half", <<N("r")>>), Call("pong", <<N("r"), Less>>)),
   pong |-> Fn(<<"r", "n">>, <<TR, TI32>>, TText, Value(Call("ping", <<N("r"), N("n")>>)))]
HelperOrder == <<"via", "opt", "down", "ping", "pong", "keep", "peek", "half", "other", "whole">>

(* A use, as the i-th statement of its kind, and the functions it needs.   *)
XA == FieldOf(N("x"), "a")
XB == FieldOf(N("x"), "b")
Bound(i) == IF i = 1 THEN "y" ELSE "z"
UseOf(u, i) ==
  CASE u = "bind" -> Let(Bound(i), N("x"))
    [] u = "part" -> Let(Bound(i), XA)
    [] u = "update" -> Let(Bound(i), UpdateOf(N("x"), <<With("a", Text(<<>>))>>))
    [] u = "equal" -> Let(Bound(i), Bin("Eq", XA, XB))
    [] u = "keep" -> Do(Call("keep", <<XA>>))
    [] u = "peek" -> Do(Call("peek", <<XA>>))
    [] u \in {"half", "other", "whole"} -> Do(Call(u, <<N("x")>>))
    [] u = "via" -> Do(Call("via", <<N("w")>>))
    [] u = "inner" -> Do(Call("other", <<FieldOf(N("w"), "r")>>))
    [] u = "opt" -> Do(Call("opt", <<N("o")>>))
    [] u = "match" -> Do(Match(N("o"), PayloadOr(Value(Call("other", <<N("p")>>)), Value(Text(<<>>)))))
    [] u = "build" -> Do(Call("half", <<RecordOf("R", <<With("a", XA), With("b", XB)>>)>>))
    [] u \in {"down", "ping"} -> Do(Call(u, <<N("x"), Lit(2)>>))
Needs(u) ==
  CASE u \in {"bind", "part", "update", "equal"} -> {}
    [] u \in {"via", "opt"} -> {u, "half"}
    [] u \in {"inner", "match"} -> {"other"}
    [] u = "build" -> {"half"}
    [] u = "down" -> {"down", "other"}
    [] u = "ping" -> {"ping", "pong", "half"}
    [] OTHER -> {u}
UsesOfX == {"bind", "part", "update", "equal", "keep", "peek", "half", "other", "whole", "build", "down", "ping"}
UsesOfW == {"via", "inner"}
UsesOfO == {"opt", "match"}
UsePairs == (UsesOfX \X UsesOfX) \cup (UsesOfW \X UsesOfW) \cup (UsesOfO \X UsesOfO)

(* Two uses a and b arranged; a branch or a match inside a loop is left to *)
(* NestedUnits, because the check drops a loop's protection there.         *)
Arrangements == {"seq", "branch", "after", "joined", "repeat", "while", "arena", "arms"}
Loops == {"repeat", "while"}
Arranged(how, a, b) ==
  LET A == UseOf(a, 1)
      B == UseOf(b, 2)
  IN  CASE how = "seq" -> <<A, B>>
        [] how = "branch" -> <<Do(If(N("c"), Steps(<<A>>), Steps(<<B>>)))>>
        [] how = "after" -> <<Do(If(N("c"), Steps(<<A>>), Steps(<<>>))), B>>
        [] how = "joined" -> <<Do(If(N("c"), Steps(<<A>>), Steps(<<B>>))), B>>
        [] how = "repeat" -> <<Do(Repeat(NoName, Lit(2), Steps(<<A>>))), B>>
        [] how = "while" -> <<Do(While(N("c"), Steps(<<A>>))), B>>
        [] how = "nested" -> <<Do(While(N("c"), Steps(<<Do(If(N("c"), Steps(<<A>>), Steps(<<>>)))>>))), B>>
        [] how = "arena" -> <<WithArena(Steps(<<A>>)), B>>
        [] how = "arms" -> <<Do(Match(N("o"), PayloadOr(Steps(<<A>>), Steps(<<B>>))))>>
MoveNames == {<<"moves", how, ab[1], ab[2]>> :
                how \in Arrangements, ab \in UsePairs} \ {<<"moves", how, "match", b>> : how \in Loops, b \in UsesOfO}
MoveUnit(how, a, b) ==
  LET needed == Needs(a) \cup Needs(b)
      test == Fn(<<"x", "w", "o", "c">>, <<TR, TW, TOpt, TBool>>, TI32, Body(Arranged(how, a, b), Lit(0)))
  IN  [functions |-> [f \in needed |-> Helpers[f]] @@ [test |-> test],
       order |-> <<"test">> \o SelectSeq(HelperOrder, LAMBDA f : f \in needed),
       structs |-> MoveStructs, enums |-> MoveEnums, profile |-> "core"]

(* contracts: what a clause asks of the parameter or of the result.        *)
Clause(c, e) ==
  CASE c = "peek" -> Bin("Eq", Call("peek", <<FieldOf(e, "a")>>), Lit(0))
    [] c = "equal" -> Bin("Eq", FieldOf(e, "a"), FieldOf(e, "b"))
    [] c = "keep" -> Bin("Eq", Call("text_len", <<Call("keep", <<FieldOf(e, "a")>>)>>), Lit(0))
    [] c = "half" -> Bin("Eq", Call("text_len", <<Call("half", <<e>>)>>), Lit(0))
Empty == RecordOf("R", <<With("a", Text(<<>>)), With("b", Text(<<>>))>>)
ContractNames == {<<"contracts", which, c, u>> : which \in {"requires", "ensures"},
                    c \in {"peek", "equal", "keep", "half"}, u \in {"peek", "half", "other", "whole", "build"}}
ContractUnit(which, c, u) ==
  LET needed == Needs(u) \cup (Needs(c) \cap DOMAIN Helpers)
      test == Fn(<<"x">>, <<TR>>, TR, Body(<<UseOf(u, 1)>>, Empty))
  IN  [functions |-> [f \in needed |-> Helpers[f]] @@
                     [test |-> IF which = "requires" THEN [test EXCEPT !.requires = Clause(c, N("x"))]
                               ELSE [test EXCEPT !.ensures = Clause(c, Result)]],
       order |-> <<"test">> \o SelectSeq(HelperOrder, LAMBDA f : f \in needed),
       structs |-> MoveStructs, enums |-> MoveEnums, profile |-> "core"]
----------------------------------------------------------------------------
(* calls: f allocates, g asks, h does neither; each calls any of them.  In *)
(* half of the modules g declares effects, those of the rest are inferred. *)
Calling(direct, fs) ==
  Fn(<<>>, <<>>, TI32,
     Body(direct \o [i \in DOMAIN fs |-> Do(Call(fs[i], <<>>))], Lit(0)))
Allocates == <<Do(Call("list_new", <<Lit(1), Lit(0)>>))>>
Asks == <<Do(Perform(<<"Ask", "get">>, <<>>))>>
Listed(S) == SelectSeq(<<"f", "g", "h">>, LAMBDA f : f \in S)
Some == SUBSET {"f", "g", "h"}
CallNames == {<<"calls", f, g, h, explicit>> : f \in Some, g \in Some, h \in Some, explicit \in BOOLEAN}
CallUnit(f, g, h, explicit) ==
  [functions |-> [f |-> Calling(Allocates, Listed(f)),
                  g |-> Declares(Calling(Asks, Listed(g)), IF explicit THEN {"Ask", "alloc"} ELSE {}),
                  h |-> Calling(<<>>, Listed(h))],
   order |-> <<"f", "g", "h">>, structs |-> None, enums |-> None, profile |-> "core"]
----------------------------------------------------------------------------
(* profiles: main calls f, f calls g, g does something or takes a type.    *)
Doings == {"nothing", "alloc", "ask", "while", "count", "literal"}
RECURSIVE Doing(_)
Doing(d) ==
  CASE d = "nothing" -> <<>>
    [] d = "alloc" -> Allocates
    [] d = "ask" -> Asks
    [] d = "while" -> <<Do(While(Bool(FALSE), Steps(<<>>)))>>
    [] d = "count" -> <<Let("n", Lit(2)), Do(Repeat("i", N("n"), Steps(<<>>)))>>
    [] d = "literal" -> <<Do(Repeat(NoName, Lit(2), Steps(<<>>)))>>
    [] d = "inner" -> <<Do(Repeat(NoName, Lit(2), Steps(Doing("while"))))>>
Taken == [int |-> TI32, text |-> TText, list |-> TList(TI32), array |-> TArray(TText, 2),
          struct |-> TNamed("S"), enum |-> TNamed("E")]
Inside == {TI32, TText, TNamed("E")}   \* of the field of S
ProfileNames ==
  {<<"doings", profile, d, how, declared>> : profile \in {"core", "total", "rt"}, d \in Doings,
     how \in {"let", "do"}, declared \in SUBSET {"alloc", "Ask"}}
  \cup {<<"types", profile, ty, inside, payload>> : profile \in {"core", "total", "rt"}, ty \in DOMAIN Taken,
          inside \in Inside, payload \in {TI32, TText}}
DoingUnit(profile, d, how, declared) ==
  LET call(f) == IF how = "let" THEN Let("v", Call(f, <<>>)) ELSE Do(Call(f, <<>>))
  IN  [functions |-> [main |-> Declares(Fn(<<>>, <<>>, TI32, Body(<<call("f")>>, Lit(0))), declared),
                      f |-> Fn(<<>>, <<>>, TI32, Body(<<call("g")>>, Lit(0))),
                      g |-> Fn(<<>>, <<>>, TI32, Body(Doing(d), Lit(0)))],
       order |-> <<"main", "f", "g">>, structs |-> None, enums |-> None, profile |-> profile]
TypeUnit(profile, ty, inside, payload) ==
  [functions |-> [f |-> Fn(<<"x">>, <<Taken[ty]>>, TI32, Value(Lit(0)))],
   order |-> <<"f">>, structs |-> [S |-> <<Typedef("a", inside)>>], enums |-> [E |-> <<Variant("some", payload)>>],
   profile |-> profile]
----------------------------------------------------------------------------
MCUnits == MoveNames \cup ContractNames \cup CallNames \cup ProfileNames
NestedUnits == {<<"moves", "nested", u, "peek">> : u \in UsesOfX} \cup {<<"doings", "total", "inner", "do", {}>>}
MCSource(u) ==
  CASE u[1] = "moves" -> MoveUnit(u[2], u[3], u[4])
    [] u[1] = "contracts" -> ContractUnit(u[2], u[3], u[4])
    [] u[1] = "calls" -> CallUnit(u[2], u[3], u[4], u[5])
    [] u[1] = "doings" -> DoingUnit(u[2], u[3], u[4], u[5])
    [] u[1] = "types" -> TypeUnit(u[2], u[3], u[4], u[5])
=============================================================================
