--------------------------- MODULE MC_CompileRun ---------------------------
(***************************************************************************)
(* Families of small programs for CompileRun.  Each covers one construct   *)
(* over every choice of its parts from a small pool: the patterns of a     *)
(* match, the bounds of a loop, the index and the storage of an array, the *)
(* outcome of a contract, the way of a text out of a function.  A program  *)
(* is named by its family and choices.  DocumentedLoops and ElidedChecks   *)
(* are not among MCSources: there the code departs from its documentation. *)
(***************************************************************************)
EXTENDS CompileRun

MCVariants == << [name |-> "none", payload |-> TUnit], [name |-> "some", payload |-> TI32],
                 [name |-> "word", payload |-> TText] >>

Fn(params, types, returns, body) ==
  [params |-> params, types |-> types, returns |-> returns, requires |-> NoExpr,
   ensures |-> NoExpr, body |-> body, effects |-> {}]

(* main, and the functions beside it.  The const K is 2 and KK refers to it. *)
Prog(fs, main) ==
  [variants |-> MCVariants,
   consts |-> [K |-> Lit(2), KK |-> Bin("Add", Name("K"), Lit(1))],
   constNames |-> <<"K", "KK">>, constTypes |-> [K |-> TI32, KK |-> TI32],
   functions |-> fs @@ [main |-> Fn(<<>>, <<>>, TI32, main)],
   expect |-> Unit]
Expecting(P, v) == [P EXCEPT !.expect = <<"value", v>>]

N(x) == Name(x)
Plus(a, b) == Bin("Add", a, b)
Mix(x, e) == Assign(x, Plus(Bin("Mul", N(x), Lit(5)), e))   \* x = x * 5 + e
Value(e) == Body(<<>>, e)
Unary(ty, body) == [f |-> Fn(<<"x">>, <<ty>>, TI32, body)]
CallF(e) == Value(Call("f", <<e>>))
----------------------------------------------------------------------------
(* match: the arms as the tail of a function, as an operand, or as a       *)
(* statement whose arms assign.                                            *)
Places == {"tail", "operand", "statement"}
InPlace(place, e, ps) ==
  LET arms == [i \in DOMAIN ps |->
                 Arm(ps[i], IF place = "statement" THEN Body(<<Assign("y", Lit(10 + i))>>, NoExpr)
                            ELSE Body(<<Let("z", Lit(9 + i))>>, Plus(N("z"), Lit(1))))]
  IN  CASE place = "tail" -> Value(Match(e, arms))
        [] place = "operand" -> Body(<<Let("y", Plus(Match(e, arms), Lit(1)))>>, N("y"))
        [] place = "statement" -> Body(<<LetMut("y", Lit(0)), Do(Match(e, arms))>>, N("y"))
MatchProg(ty, input, place, ps) ==
  Prog(Unary(ty, InPlace(place, N("x"), ps)), CallF(input))

IntPatterns == {PInt(0), PInt(1), PInt(2), PRange(0, 2), PRange(1, 1), POr(<<PInt(2), PInt(1)>>)}
IntArmLists ==
  LET front == UNION {[1 .. n -> IntPatterns] : n \in 1 .. 2} \cup
               {<<PInt(i), PInt(j), PInt(k)>> : i, j, k \in 0 .. 2} \cup
               {<<PInt(3), POr(<<PInt(0), PInt(2)>>), PInt(1), PInt(-1)>>,
                <<POr(<<PInt(3), PInt(0), PInt(2)>>), PInt(1)>>}
  IN  {Append(ps, PWild) : ps \in front} \cup {<<PInt(0), PInt(1)>>, <<PWild, PInt(1)>>}
IntMatches == {<<"int", n, place, ps>> : n \in {-1, 0, 1, 2}, place \in Places, ps \in IntArmLists}

BoolArmLists == {<<PBool(a), q>> : a \in BOOLEAN, q \in {PBool(TRUE), PBool(FALSE), PWild}}
                  \cup {<<PBool(TRUE)>>}
TextArmLists == {<<PText(<<"a">>), PText(s), PWild>> : s \in {<<"a">>, <<"b">>, <<>>}}
                  \cup {<<POr(<<PText(<<"b">>), PText(<<>>)>>), PWild>>}
OtherMatches == {<<"bool", b, place, ps>> : b \in BOOLEAN, place \in Places, ps \in BoolArmLists}
          \cup {<<"txt", s, place, ps>> : s \in {<<>>, <<"a">>, <<"b">>}, place \in Places,
                                          ps \in TextArmLists}

(* An enum match whose arms bind and use their payloads, in each order.    *)
EnumArm(v) ==
  CASE v = "none" -> Arm(PVariant("none", NoName), Value(Lit(7)))
    [] v = "some" -> Arm(PVariant("some", "p"), Value(Plus(N("p"), Lit(1))))
    [] v = "word" -> Arm(PVariant("word", "p"),
                         Value(If(Bin("Eq", N("p"), Text(<<"a">>)), Value(Lit(1)), Value(Lit(2)))))
    [] v = "rest" -> Arm(PWild, Value(Lit(8)))
EnumInputs == {Ctor("none", <<>>), Ctor("some", <<Lit(4)>>), Ctor("word", <<Text(<<"a">>)>>)}
EnumProg(input, vs) ==
  Prog(Unary(TEnum, Value(Match(N("x"), [i \in DOMAIN vs |-> EnumArm(vs[i])]))), CallF(input))
EnumMatches == {<<"enum", i, vs>> : i \in EnumInputs,
                  vs \in [1 .. 3 -> {"none", "some", "word", "rest"}] \cup {<<"some", "rest">>, <<"none">>}}
----------------------------------------------------------------------------
(* repeat: counts that are literals, consts or run-time values, with and   *)
(* without an index, unrolled or not, in each other's bodies.              *)
Counts == {Lit(0), Lit(2), N("K"), N("x"), Plus(N("x"), Lit(1))}
LoopBody(x) == Body(<<Mix("s", IF x = NoName THEN Lit(1) ELSE N(x))>>, NoExpr)
RepeatProg(n, x, outer, inner, place) ==
  LET loop == Repeat("j", inner, Body(<<Mix("s", Plus(N("j"), Lit(1)))>>, NoExpr))
      body == IF inner = NoExpr THEN LoopBody(x)
              ELSE Body(<<Let("t", Plus(N("s"), Lit(1))), Do(loop), Mix("s", N("t"))>>, NoExpr)
      e == Repeat(x, outer, body)
      nested == IF place = "tail" THEN Do(If(Bool(TRUE), Value(e), Value(e))) ELSE Do(e)
  IN  Prog(Unary(TI32, Body(<<LetMut("s", Lit(0)), nested>>, N("s"))), CallF(Lit(n)))
Repeats == {<<"repeat", n, x, outer, inner, place>> :
              n \in {-2, 0, 2}, x \in {NoName, "i"}, outer \in Counts,
              inner \in {NoExpr} \cup Counts, place \in {"tail", "statement"}}

(* for lo..hi, with bounds that are literals or names; the value expected  *)
(* folds the iterations the language reference gives.                      *)
Iterations(lo, hi) ==
  IF lo < hi THEN [k \in 1 .. hi - lo |-> lo + k - 1] ELSE [k \in 1 .. lo - hi |-> lo - k + 1]
FoldMix(is) == FoldLeft(LAMBDA s, i : s * 5 + i, 0, is)
ForProg(lo, hi, named) ==
  LET a == IF named THEN N("a") ELSE Lit(lo)
      b == IF named THEN N("b") ELSE Lit(hi)
  IN  Expecting(Prog([f |-> Fn(<<"a", "b">>, <<TI32, TI32>>, TI32,
                               Body(<<LetMut("s", Lit(0)), Do(For("i", a, b, LoopBody("i")))>>, N("s")))],
                     Value(Call("f", <<Lit(lo), Lit(hi)>>))),
                VInt(FoldMix(Iterations(lo, hi))))
Fors == {<<"for", lo, hi, named>> : lo, hi \in -1 .. 2, named \in BOOLEAN}

(* Loops whose iterations the language reference also gives: a `for` whose *)
(* body assigns the variable its lower bound was read from, and a `repeat` *)
(* whose count is the index of the loop around it.                         *)
MovedForProg(lo, hi) ==
  LET body == Body(<<Mix("s", N("i")), Assign("a", Plus(N("a"), Lit(1)))>>, NoExpr)
  IN  Expecting(Prog(NoBindings, Body(<<LetMut("s", Lit(0)), LetMut("a", Lit(lo)),
                                        Do(For("i", N("a"), Lit(hi), body))>>, N("s"))),
                VInt(FoldMix(Iterations(lo, hi))))
NestedProg(n) ==
  LET inner == Repeat("j", N("i"), Body(<<Assign("s", Plus(N("s"), Lit(1)))>>, NoExpr))
  IN  Expecting(Prog(NoBindings, Body(<<LetMut("s", Lit(0)),
                                        Do(Repeat("i", Lit(n), Body(<<Do(inner)>>, NoExpr)))>>, N("s"))),
                VInt((n * (n - 1)) \div 2))
DocumentedLoops == {<<"moved", lo, 2>> : lo \in 0 .. 2} \cup {<<"nested", n>> : n \in 1 .. 3}
----------------------------------------------------------------------------
(* Arrays of three elements: immutable, mutable, or a parameter; read or   *)
(* written at an index that is a literal, a const, a run-time value or the *)
(* index of a loop of some count.                                          *)
ArrayLit == Array(<<Lit(4), Lit(5), Lit(6)>>)
Indices == {Lit(0), Lit(3), N("K"), N("n"), Plus(N("n"), Lit(1))}
Sum(x) == Plus(Index(N(x), Lit(0)), Plus(Bin("Mul", Index(N(x), Lit(1)), Lit(10)),
                                         Bin("Mul", Index(N(x), N("K")), Lit(100))))
ArrayStmts(kind, use, i) ==
  LET name == IF kind = "param" THEN "x" ELSE "a"
      make == CASE kind = "param" -> <<>> [] kind = "mutable" -> <<LetMut("a", N("x"))>>
                [] kind = "immutable" -> <<Let("a", ArrayLit)>>
  IN  make \o
      CASE use = "read" -> <<Mix("s", Index(N(name), i))>>
        [] use = "write" -> <<AssignAt(name, i, Lit(9)), Mix("s", Sum(name)), Mix("s", LenOf(N(name)))>>
        [] use = "whole" -> <<Assign("a", Array(<<Index(N(name), i), Lit(1), Lit(2)>>)), Mix("s", Sum(name))>>
ArrayFn(ss) == [f |-> Fn(<<"x", "n">>, <<TArray(TI32, 3), TI32>>, TI32,
                         Body(<<LetMut("s", Lit(0))>> \o ss, N("s")))]
ArrayProg(kind, use, i, n, count) ==
  LET ss == ArrayStmts(kind, use, i)
      loop == <<Do(Repeat("i", count, Body(ss, NoExpr)))>>
  IN  Prog(ArrayFn(IF count = NoExpr THEN ss ELSE loop), Value(Call("f", <<ArrayLit, Lit(n)>>)))
Uses == {<<"immutable", "read">>, <<"mutable", "read">>, <<"param", "read">>,
         <<"mutable", "write">>, <<"mutable", "whole">>, <<"immutable", "write">>}
Arrays == {<<"array", u[1], u[2], i, n, NoExpr>> : u \in Uses, i \in Indices, n \in {-1, 0, 2, 3}}
     \cup {<<"array", kind, "read", N("KK"), 0, NoExpr>> : kind \in {"immutable", "mutable"}}
     \cup {<<"array", u[1], u[2], i, n, count>> : u \in Uses, i \in {N("i"), Plus(N("i"), N("n"))},
                                                  n \in {0, 3, 4}, count \in {Lit(3), N("K"), N("n")}}

(* Indices whose name once belonged to a loop of a static count, or belongs *)
(* to a const: read or written through a binding of that name.             *)
ElidedProg(c, d) ==
  LET again == CASE c = "let" -> <<Let("i", Plus(N("i"), Lit(d))), Mix("s", Index(N("a"), N("i")))>>
                 [] c = "for" -> <<Do(For("i", Lit(0), Lit(3 + d), Body(<<Mix("s", Index(N("a"), N("i")))>>, NoExpr)))>>
      use == IF c = "const" THEN <<AssignAt("a", N("KK"), Lit(9)), Mix("s", Sum("a"))>>
             ELSE <<Do(Repeat("i", Lit(3), Body(again, NoExpr)))>>
  IN  Prog(NoBindings, Body(<<LetMut("s", Lit(0)), LetMut("a", ArrayLit)>> \o use, N("s")))
ElidedChecks == {<<"elided", c, d>> : c \in {"let", "for"}, d \in 0 .. 1} \cup {<<"elided", "const", 0>>}
----------------------------------------------------------------------------
(* Contracts: f(x) requires x >= 0, ensures result > x, called twice.      *)
ContractProg(n, d) ==
  LET F == [Fn(<<"x">>, <<TI32>>, TI32, Value(Plus(N("x"), Lit(d))))
              EXCEPT !.requires = Bin("Ge", N("x"), Lit(0)), !.ensures = Bin("Gt", Result, N("x"))]
  IN  Prog([f |-> F], Body(<<Let("y", Call("f", <<Lit(n)>>))>>, Call("f", <<Bin("Sub", N("y"), Lit(1))>>)))
Contracts == {<<"contract", n, d>> : n \in -1 .. 1, d \in -1 .. 1}

(* Arithmetic with literals folded or not, and with a zero divisor.        *)
Operators == {"Add", "Sub", "Mul", "Div", "Rem", "Lt", "Le", "Gt", "Ge", "Eq", "Ne"}
BinaryProg(op, folded, a, b) ==
  LET e == Bin(op, IF folded THEN Lit(a) ELSE N("a"), IF folded THEN Lit(b) ELSE N("b"))
      compares == op \in {"Lt", "Le", "Gt", "Ge", "Eq", "Ne"}
      call == Call("f", <<Lit(a), Lit(b)>>)
  IN  Prog([f |-> Fn(<<"a", "b">>, <<TI32, TI32>>, IF compares THEN TBool ELSE TI32, Value(e))],
           Value(IF compares THEN If(call, Value(Lit(1)), Value(Lit(2))) ELSE call))
Binaries == {<<"binary", op, folded, a, b>> : op \in Operators, folded \in BOOLEAN,
                                              a \in {-3, 0, 3}, b \in {-2, 0, 2}}

(* Text and Boolean operators, scopes, `while`, arenas, comptime blocks,   *)
(* const values, and effects, handled and not.                             *)
Stmts(ss) == Body(<<LetMut("s", Lit(0)), LetMut("k", Lit(0))>> \o ss, N("s"))
Effectful(P) == [P EXCEPT !.functions["main"].effects = {"Ask"}]
Ask == Perform(<<"Ask", "get">>, <<Lit(1)>>)
Misc(c) ==
  CASE c = "while" ->
         Prog(NoBindings, Stmts(<<Do(While(Bin("And", Bin("Lt", N("k"), Lit(3)), Not(Bool(FALSE))),
                Body(<<Let("t", N("k")), Assign("k", Plus(N("t"), Lit(1))),
                       Do(If(Bin("Or", Bin("Eq", N("t"), Lit(1)), Bool(FALSE)),
                             Body(<<Mix("s", Lit(3))>>, NoExpr), Body(<<Mix("s", N("t"))>>, NoExpr)))>>,
                     NoExpr)))>>))
    [] c = "text" ->
         Prog([g |-> Fn(<<"t">>, <<TText>>, TText, Value(Plus(N("t"), Text(<<"b">>))))],
              Stmts(<<LetMut("u", Call("g", <<Text(<<"a">>)>>)), Assign("u", Plus(N("u"), N("u"))),
                      Do(If(Bin("Eq", N("u"), Text(<<"a", "b", "a", "b">>)),
                            Body(<<Assign("s", Lit(1))>>, NoExpr), Body(<<>>, NoExpr)))>>))
    [] c = "arena" ->
         Prog(NoBindings, Stmts(<<WithArena(Body(<<Let("t", Text(<<"a">>)), Mix("s", Lit(2)),
                WithArena(Body(<<Mix("s", Lit(3))>>, NoExpr))>>, NoExpr)), Mix("s", Lit(4))>>))
    [] c = "shadow" ->
         Prog(NoBindings, Stmts(<<Let("t", Lit(1)), Do(If(Bool(TRUE),
                Body(<<Let("t", Lit(2)), Mix("s", N("t"))>>, NoExpr), Body(<<>>, NoExpr))), Mix("s", N("t"))>>))
    [] c = "comptime" ->
         Prog(NoBindings, Stmts(<<Let("t", Comptime(Body(<<LetMut("z", N("KK")),
                Do(Repeat("i", N("K"), Body(<<Mix("z", N("i"))>>, NoExpr)))>>, N("z")))), Mix("s", N("t"))>>))
    [] c = "constants" ->
         LET P == Prog(NoBindings, Stmts(<<Let("a", N("A")), Mix("s", Index(N("a"), N("k"))),
                    Mix("s", Match(N("E"), <<EnumArm("some"), EnumArm("rest")>>))>>))
         IN  [P EXCEPT !.consts = @ @@ [A |-> ArrayLit, E |-> Ctor("some", <<N("KK")>>)],
                       !.constTypes = @ @@ [A |-> TArray(TI32, 3), E |-> TEnum],
                       !.constNames = <<"A", "E", "K", "KK">>]
    [] c = "cycle" ->
         [Prog(NoBindings, Value(N("K"))) EXCEPT !.consts["K"] = N("KK")]
    [] c = "handle" ->
         Effectful(Prog([f |-> Fn(<<>>, <<>>, TI32, Value(Handle(Value(Lit(3)), {"get"})))],
                        Stmts(<<Mix("s", Handle(Value(Plus(Call("f", <<>>), Lit(1))), {"get", "put"})),
                                Mix("s", N("k"))>>)))
    [] c = "unhandled" ->
         Effectful(Prog(NoBindings, Stmts(<<Do(Ask)>>)))
    [] c = "performed" ->
         Effectful(Prog(NoBindings, Stmts(<<Do(Handle(Value(Ask), {"get"}))>>)))
Miscellany == {<<"misc", c>> : c \in {"while", "text", "arena", "shadow", "comptime", "constants",
                                      "cycle", "handle", "unhandled", "performed"}}
----------------------------------------------------------------------------
(* Values of every type in every place: the check decides which of these   *)
(* programs run.  x is the value itself, or a parameter it is passed for.  *)
Operands == {<<TI32, Lit(1)>>, <<TBool, Bool(TRUE)>>, <<TText, Text(<<"a">>)>>,
             <<TEnum, Ctor("some", <<Lit(2)>>)>>, <<TArray(TI32, 3), ArrayLit>>}
Holes == {"if", "while", "repeat", "at", "of", "match", "variant", "assign", "assign-at", "element",
          "payload", "not", "result", "requires", "ensures", "branch", "arm", "const"}
Used(hole, x) ==
  CASE hole = "if" -> Value(If(x, Value(Lit(1)), Value(Lit(2))))
    [] hole = "while" -> Body(<<LetMut("w", x), Do(While(N("w"), Body(<<Assign("w", Bool(FALSE))>>, NoExpr)))>>, Lit(0))
    [] hole = "repeat" -> Body(<<Do(Repeat("i", x, Body(<<>>, NoExpr)))>>, Lit(0))
    [] hole = "at" -> Body(<<Let("a", ArrayLit)>>, Index(N("a"), x))
    [] hole = "of" -> Body(<<Let("a", x)>>, Plus(Index(N("a"), Lit(0)), LenOf(N("a"))))
    [] hole = "match" -> Value(Match(x, <<Arm(PInt(1), Value(Lit(1))), Arm(PWild, Value(Lit(2)))>>))
    [] hole = "variant" -> Value(Match(x, <<EnumArm("some"), EnumArm("rest")>>))
    [] hole = "assign" -> Body(<<LetMut("s", Lit(0)), Assign("s", x)>>, Plus(N("s"), Lit(1)))
    [] hole = "assign-at" -> Body(<<LetMut("a", ArrayLit), AssignAt("a", N("K"), x)>>, Sum("a"))
    [] hole = "element" -> Body(<<Let("a", Array(<<Lit(1), x, Lit(2)>>))>>, Sum("a"))
    [] hole = "payload" -> Value(Match(Ctor("some", <<x>>), <<EnumArm("some"), EnumArm("rest")>>))
    [] hole = "not" -> Value(If(Not(x), Value(Lit(1)), Value(Lit(2))))
    [] hole = "branch" -> Value(Plus(If(Bin("Eq", N("K"), Lit(1)), Value(Lit(1)), Value(x)), Lit(1)))
    [] hole = "arm" -> Value(Plus(Match(N("K"), <<Arm(PInt(1), Value(Lit(1))), Arm(PWild, Value(x))>>), Lit(1)))
    [] hole = "const" -> Value(Plus(N("K"), Lit(1)))
    [] OTHER -> Value(x)
HoleProg(hole, v, named) ==
  LET body == Used(hole, IF named THEN N("x") ELSE v[2])
      F == CASE hole \in {"requires", "ensures"} -> Fn(<<"x">>, <<v[1]>>, TI32, Value(Lit(1)))
             [] OTHER -> Fn(<<"x">>, <<v[1]>>, TI32, body)
      G == CASE hole = "requires" -> [F EXCEPT !.requires = N("x")]
             [] hole = "ensures" -> [F EXCEPT !.ensures = N("x")]
             [] OTHER -> F
      P == Prog([f |-> G], Value(Plus(Call("f", <<v[2]>>), Lit(1))))
  IN  IF hole = "const" THEN [P EXCEPT !.consts["K"] = v[2]] ELSE P
(* An argument of one type for a parameter of another, used as the latter. *)
ArgProg(v, w) ==
  LET body == CASE w[1] = TBool -> Used("if", N("x")) [] w[1] = TI32 -> Used("repeat", N("x"))
                [] w[1] = TEnum -> Used("variant", N("x"))
                [] w[1] = TText -> Body(<<Let("t", Plus(N("x"), Text(<<"b">>)))>>, Lit(0))
                [] OTHER -> Used("of", N("x"))
  IN  Prog([f |-> Fn(<<"x">>, <<w[1]>>, TI32, body)], Value(Call("f", <<v[2]>>)))
(* Two operands of any types.                                              *)
MixedProg(op, v, w, named) ==
  LET e == Bin(op, IF named THEN N("a") ELSE v[2], IF named THEN N("b") ELSE w[2])
  IN  Prog([f |-> Fn(<<"a", "b">>, <<v[1], w[1]>>, TI32, Body(<<Let("t", e)>>, Lit(0)))],
           Value(Call("f", <<v[2], w[2]>>)))
Typings == {<<"hole", h, v, named>> : h \in Holes, v \in Operands, named \in BOOLEAN}
      \cup {<<"arg", v, w>> : v, w \in Operands}
      \cup {<<"mixed", op, v, w, named>> : op \in {"Add", "Sub", "Rem", "Lt", "Eq", "And"},
                                           v, w \in Operands, named \in BOOLEAN}
----------------------------------------------------------------------------
(* Texts on their way out of a function: a text that is written, given or  *)
(* made, returned through a branch, a slot, a loop, a payload, an array or *)
(* a call.  g passes its argument on, or makes a text of it.               *)
Made == Plus(N("t"), Text(<<"b">>))
Texts == {Text(<<"a">>), N("t"), Made, Call("g", <<N("t")>>), Call("g", <<Made>>)}
Routes == {"tail", "let", "branch", "store", "loop", "while", "payload", "element", "again"}
Routed(route, e) ==
  LET start == <<LetMut("u", N("t")), LetMut("v", N("t"))>>
      shift == Body(<<Assign("u", N("v")), Assign("v", e)>>, NoExpr)
  IN  CASE route = "tail" -> Value(e)
        [] route = "let" -> Body(<<Let("u", e)>>, N("u"))
        [] route = "branch" -> Value(If(Bin("Eq", N("n"), Lit(1)), Value(e), Value(N("t"))))
        [] route = "store" ->
             Body(start \o <<Do(If(Bin("Eq", N("n"), Lit(1)), shift, Body(<<Assign("u", Text(<<"a">>))>>, NoExpr)))>>,
                  N("v"))
        [] route = "loop" -> Body(start \o <<Do(Repeat(NoName, N("n"), shift))>>, N("u"))
        [] route = "while" ->
             Body(start \o <<LetMut("k", N("n")),
                    Do(While(Bin("Gt", N("k"), Lit(0)), Body(shift.ss \o <<Assign("k", Bin("Sub", N("k"), Lit(1)))>>, NoExpr)))>>,
                  N("u"))
        [] route = "payload" ->
             Body(<<Let("w", Ctor("word", <<e>>))>>,
                  Match(N("w"), <<Arm(PVariant("word", "p"), Value(N("p"))), Arm(PWild, Value(N("t")))>>))
        [] route = "element" -> Body(<<Let("a", Array(<<N("t"), e>>))>>, Index(N("a"), Lit(1)))
        [] route = "again" ->
             Value(If(Bin("Gt", N("n"), Lit(0)),
                      Value(Call("f", <<e, Bin("Sub", N("n"), Lit(1))>>)), Value(N("t"))))
WithAlloc(F) == [F EXCEPT !.effects = {"alloc"}]
EscapeProg(route, e, makes, n) ==
  LET P == Prog([f |-> WithAlloc(Fn(<<"t", "n">>, <<TText, TI32>>, TText, Routed(route, e))),
                 g |-> WithAlloc(Fn(<<"t">>, <<TText>>, TText, Value(IF makes THEN Made ELSE N("t"))))],
                Value(N("K")))
  IN  [P EXCEPT !.functions["main"] =
         WithAlloc(Fn(<<>>, <<>>, TText, Value(Call("f", <<Text(<<"a">>), Lit(n)>>))))]
Escapes == {<<"escape", route, e, makes, n>> : route \in Routes, e \in Texts, makes \in BOOLEAN, n \in 0 .. 2}
----------------------------------------------------------------------------
MCProgram(s) ==
  CASE s[1] = "int" -> MatchProg(TI32, Lit(s[2]), s[3], s[4])
    [] s[1] = "bool" -> MatchProg(TBool, Bool(s[2]), s[3], s[4])
    [] s[1] = "txt" -> MatchProg(TText, Text(s[2]), s[3], s[4])
    [] s[1] = "enum" -> EnumProg(s[2], s[3])
    [] s[1] = "repeat" -> RepeatProg(s[2], s[3], s[4], s[5], s[6])
    [] s[1] = "for" -> ForProg(s[2], s[3], s[4])
    [] s[1] = "array" -> ArrayProg(s[2], s[3], s[4], s[5], s[6])
    [] s[1] = "contract" -> ContractProg(s[2], s[3])
    [] s[1] = "binary" -> BinaryProg(s[2], s[3], s[4], s[5])
    [] s[1] = "misc" -> Misc(s[2])
    [] s[1] = "hole" -> HoleProg(s[2], s[3], s[4])
    [] s[1] = "arg" -> ArgProg(s[2], s[3])
    [] s[1] = "mixed" -> MixedProg(s[2], s[3], s[4], s[5])
    [] s[1] = "moved" -> MovedForProg(s[2], s[3])
    [] s[1] = "nested" -> NestedProg(s[2])
    [] s[1] = "escape" -> EscapeProg(s[2], s[3], s[4], s[5])
    [] s[1] = "elided" -> ElidedProg(s[2], s[3])

MCSources == IntMatches \cup OtherMatches \cup EnumMatches \cup Repeats \cup Fors \cup Arrays
             \cup Contracts \cup Binaries \cup Miscellany \cup Typings \cup Escapes
=============================================================================
