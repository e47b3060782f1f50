------------------------------ MODULE ConstEval ------------------------------
(***************************************************************************)
(* ConstEvaluator of sarif_codegen/src/lib.rs: the evaluator that gives    *)
(* `const` items and `comptime` blocks their values by walking the tree.   *)
(*                                                                         *)
(* An evaluation threads a record r: the value v of the last expression or *)
(* the class err of the first error (after which nothing is evaluated),    *)
(* the environment (bind, slots) with the next free slot, the functions    *)
(* and consts being evaluated, the const values found so far, the          *)
(* contract's result, and whether a diagnostic was reported.               *)
(***************************************************************************)
EXTENDS Hir

NoError == "none"
NoBindings == [x \in {} |-> x]

Fresh0 == [v |-> Unit, vs |-> <<>>, err |-> NoError, bind |-> NoBindings,
           slots |-> NoBindings, next |-> 0, functions |-> {}, busy |-> {},
           vals |-> NoBindings, result |-> Unit, diag |-> FALSE]

Ok(r) == r.err = NoError
Val(r, v) == [r EXCEPT !.v = v]
Fail(r, class) == [r EXCEPT !.err = class]

(* The `?` of the code: q's error if it has one, class if cond fails, and  *)
(* result otherwise.                                                       *)
Check(q, cond, class, result) ==
  IF ~Ok(q) THEN q ELSE IF cond THEN result ELSE Fail(q, class)

(* ConstEnv::read, bind_value and bind_slot.                               *)
ReadBinding(r, x) == IF r.bind[x].slot THEN r.slots[r.bind[x].at] ELSE r.bind[x].v
BindValue(r, x, v) == [r EXCEPT !.bind = (x :> [slot |-> FALSE, v |-> v]) @@ @]
BindSlot(r, x, v) ==
  [r EXCEPT !.bind = (x :> [slot |-> TRUE, at |-> r.next]) @@ @,
            !.slots = (r.next :> v) @@ @, !.next = @ + 1]

(* eval_binary_expr on two values: <<TRUE, value>> or <<FALSE, class>>.    *)
(* And and Or have evaluated both operands by now.                         *)
ConstBinary(op, a, b) ==
  LET ints == IsInt(a) /\ IsInt(b)
  IN  CASE op \in {"Eq", "Ne"} -> <<TRUE, VBool((a = b) = (op = "Eq"))>>
        [] op \in {"And", "Or"} /\ IsBool(a) /\ IsBool(b) ->
             <<TRUE, VBool(IF op = "And" THEN a[2] /\ b[2] ELSE a[2] \/ b[2])>>
        [] op = "Add" /\ IsText(a) /\ IsText(b) -> <<TRUE, VText(a[2] \o b[2])>>
        [] op \in {"Div", "Rem"} /\ ints /\ b[2] = 0 -> <<FALSE, "zero">>
        [] op = "Add" /\ ints -> <<TRUE, VInt(a[2] + b[2])>>
        [] op = "Sub" /\ ints -> <<TRUE, VInt(a[2] - b[2])>>
        [] op = "Mul" /\ ints -> <<TRUE, VInt(a[2] * b[2])>>
        [] op = "Div" /\ ints -> <<TRUE, VInt(Quot(a[2], b[2]))>>
        [] op = "Rem" /\ ints -> <<TRUE, VInt(Rem(a[2], b[2]))>>
        [] op = "Lt" /\ ints -> <<TRUE, VBool(a[2] < b[2])>>
        [] op = "Le" /\ ints -> <<TRUE, VBool(a[2] <= b[2])>>
        [] op = "Gt" /\ ints -> <<TRUE, VBool(a[2] > b[2])>>
        [] op = "Ge" /\ ints -> <<TRUE, VBool(a[2] >= b[2])>>
        [] OTHER -> <<FALSE, "type">>

(* match_pattern, and the payload it binds.                                *)
RECURSIVE PatternMatches(_, _)
PatternMatches(v, p) ==
  CASE p.k = "int" -> v = VInt(p.n)
    [] p.k = "bool" -> v = VBool(p.b)
    [] p.k = "text" -> v = VText(p.s)
    [] p.k = "range" -> IsInt(v) /\ p.lo <= v[2] /\ v[2] < p.hi
    [] p.k = "variant" -> IsEnum(v) /\ v[2] = p.v
    [] p.k = "or" -> \E i \in DOMAIN p.ps : PatternMatches(v, p.ps[i])
    [] p.k = "wild" -> TRUE

BindPayload(r, v, p) ==
  IF p.k = "variant" /\ p.x # NoName THEN BindValue(r, p.x, v[3]) ELSE r

(* Element i of an array value: a negative index, or one past the end, is  *)
(* an error; eval_index_expr also reports a read past the end.             *)
InBounds(a, i) == IsRecord(a) /\ IsInt(i) /\ i[2] \in DOMAIN a[2]
IndexError(a, i) == IF IsRecord(a) /\ IsInt(i) THEN "bounds" ELSE "type"
EvalIndex(q, a, i) ==
  IF InBounds(a, i) THEN Val(q, a[2][i[2]])
  ELSE [Fail(q, IndexError(a, i)) EXCEPT !.diag = @ \/ (IsInt(i) /\ i[2] >= 0)]

RECURSIVE EvalExpr(_, _, _), EvalBody(_, _, _), EvalStmts(_, _, _), EvalAll(_, _, _),
          EvalRepeat(_, _, _, _, _), EvalWhile(_, _, _)

(* eval_nested_body_with_binding: the body runs in a copy of the           *)
(* environment, from which only the slots that existed before come back.   *)
Leave(r, q) == [q EXCEPT !.bind = r.bind, !.slots = [s \in DOMAIN r.slots |-> q.slots[s]]]
EvalNested(P, r, scope, body) == Leave(r, EvalBody(P, scope, body))

(* eval_const: a value computed once, in an environment of its own.  A     *)
(* cycle or an error is reported, and the name is then unknown.            *)
Remember(r, q, x) ==
  LET known == [r EXCEPT !.vals = q.vals, !.next = q.next, !.diag = q.diag]
  IN  IF Ok(q) THEN [Val(known, q.v) EXCEPT !.vals = (x :> q.v) @@ @]
      ELSE [Fail(known, "name") EXCEPT !.diag = TRUE]
EvalConst(P, r, x) ==
  IF x \in DOMAIN r.vals THEN Val(r, r.vals[x])
  ELSE IF x \notin DOMAIN P.consts THEN Fail(r, "name")
  ELSE IF x \in r.busy THEN [Fail(r, "name") EXCEPT !.diag = TRUE]
  ELSE Remember(r, EvalExpr(P, [r EXCEPT !.bind = NoBindings, !.slots = NoBindings,
                                         !.busy = @ \cup {x}], P.consts[x]), x)

(* eval_contract_clause.                                                   *)
Holds(q, kind) == Check(Check(q, IsBool(q.v), "type", q), q.v = VBool(TRUE), kind, q)
EvalClause(P, r, clause, kind) ==
  IF clause = NoExpr \/ ~Ok(r) THEN r ELSE Holds(EvalExpr(P, r, clause), kind)

(* eval_function: a pure, non-recursive helper.  Both contract clauses are *)
(* evaluated in the environment of the parameters.                         *)
Guarded(P, q, f) ==
  IF Ok(q) THEN EvalBody(P, [q EXCEPT !.functions = @ \cup {f}], P.functions[f].body) ELSE q
Return(P, params, q, f) ==
  [EvalClause(P, [q EXCEPT !.bind = params.bind, !.slots = NoBindings, !.result = q.v],
              P.functions[f].ensures, "ensures") EXCEPT !.v = q.v]
EvalFunction(P, r, f, vs) ==
  LET F == P.functions[f]
      params == [r EXCEPT !.slots = NoBindings, !.bind =
                   [x \in Range(F.params) |->
                      [slot |-> FALSE, v |-> vs[CHOOSE i \in DOMAIN F.params : F.params[i] = x]]]]
      q == Guarded(P, EvalClause(P, params, F.requires, "requires"), f)
  IN  IF f \in r.functions \/ F.effects # {} THEN Fail(r, "unsupported")
      ELSE [Return(P, params, q, f) EXCEPT !.bind = r.bind, !.slots = r.slots,
                                           !.functions = r.functions, !.result = r.result]

(* The expressions of a list in order; r.vs are their values.              *)
EvalAll(P, r, es) ==
  IF es = <<>> \/ ~Ok(r) THEN [r EXCEPT !.vs = <<>>]
  ELSE LET q == EvalExpr(P, r, Head(es))
           w == EvalAll(P, q, Tail(es))
       IN  [w EXCEPT !.vs = <<q.v>> \o @]

(* eval_match_arms: the first arm whose pattern matches.                   *)
EvalMatch(P, q, arms) ==
  LET hits == {i \in DOMAIN arms : PatternMatches(q.v, arms[i].p)}
      arm == arms[CHOOSE i \in hits : \A j \in hits : i <= j]
  IN  Check(q, hits # {}, "match", EvalNested(P, q, BindPayload(q, q.v, arm.p), arm.b))

(* eval_repeat_expr: the index is bound afresh, immutably, each time.      *)
EvalRepeat(P, r, e, i, n) ==
  IF i >= n \/ ~Ok(r) THEN Val(r, Unit)
  ELSE LET scope == IF e.x = NoName THEN r ELSE BindValue(r, e.x, VInt(i))
       IN  EvalRepeat(P, EvalNested(P, r, scope, e.b), e, i + 1, n)

(* eval_while_expr.                                                        *)
Iterate(P, q, e) ==
  Check(q, IsBool(q.v), "type",
        IF q.v[2] THEN EvalWhile(P, EvalNested(P, q, q, e.b), e) ELSE Val(q, Unit))
EvalWhile(P, r, e) == Iterate(P, EvalExpr(P, r, e.c), e)

(* eval_expr_flow, past the errors of earlier expressions.                 *)
EvalExpr(P, r, e) ==
  LET one == EvalExpr(P, r, e.e)
      all == EvalAll(P, r, e.es)
      two == EvalAll(P, r, IF e.k = "bin" THEN <<e.l, e.r>> ELSE <<e.e, e.i>>)
      cond == EvalExpr(P, r, e.c)
      count == EvalExpr(P, r, e.n)
      bin == ConstBinary(e.op, two.vs[1], two.vs[2])
      own == EvalBody(P, [r EXCEPT !.bind = NoBindings, !.slots = NoBindings], e.b)
  IN
  IF ~Ok(r) THEN r ELSE
  CASE e.k = "int" -> Val(r, VInt(e.n))
    [] e.k = "bool" -> Val(r, VBool(e.b))
    [] e.k = "text" -> Val(r, VText(e.s))
    [] e.k = "name" -> IF e.x \in DOMAIN r.bind THEN Val(r, ReadBinding(r, e.x))
                       ELSE EvalConst(P, r, e.x)
    [] e.k = "result" -> Val(r, r.result)
    [] e.k = "not" -> Check(one, IsBool(one.v), "type", Val(one, VBool(~one.v[2])))
    [] e.k = "bin" -> Check(two, bin[1], bin[2], Val(two, bin[2]))
    [] e.k = "call" -> Check(all, TRUE, "", EvalFunction(P, all, e.f, all.vs))
    [] e.k = "ctor" ->
         Check(all, TRUE, "", Val(all, VEnum(e.v, IF e.es = <<>> THEN Unit ELSE all.vs[1])))
    [] e.k = "array" -> Check(all, TRUE, "", Val(all, VArray(all.vs)))
    [] e.k = "len" ->
         Check(one, IsRecord(one.v), "type", Val(one, VInt(Cardinality(DOMAIN one.v[2]))))
    [] e.k = "index" -> Check(two, TRUE, "", EvalIndex(two, two.vs[1], two.vs[2]))
    [] e.k = "if" -> Check(cond, IsBool(cond.v), "type",
                           EvalNested(P, cond, cond, IF cond.v[2] THEN e.t ELSE e.f))
    [] e.k = "match" -> Check(one, TRUE, "", EvalMatch(P, one, e.arms))
    [] e.k = "while" -> EvalWhile(P, r, e)
    [] e.k = "repeat" -> Check(count, IsInt(count.v), "type",
                               EvalRepeat(P, count, e, 0, count.v[2]))
    [] e.k = "comptime" -> [own EXCEPT !.bind = r.bind, !.slots = r.slots]
    [] e.k \in {"handle", "perform"} -> Fail(r, "unsupported")

(* An assignment of q.v to x, or of v to the element of x whose index is   *)
(* w.v: only a `let mut` name has a slot; the index is evaluated after the *)
(* value.                                                                  *)
Mutable(q, x) == x \in DOMAIN q.bind /\ q.bind[x].slot
StoreVar(q, x) == Check(q, Mutable(q, x), "immutable", [q EXCEPT !.slots[q.bind[x].at] = q.v])
StoreAt(w, x, v) ==
  LET at == w.bind[x].at
      array == w.slots[at]
  IN  Check(Check(w, Mutable(w, x), "immutable", w), InBounds(array, w.v), IndexError(array, w.v),
            [w EXCEPT !.slots[at] = <<"record", [array[2] EXCEPT ![w.v[2]] = v]>>])

(* One statement of eval_body, whose expression has the value q.v; a       *)
(* with_arena block is evaluated in the environment around it.             *)
EvalStore(P, q, s) ==
  IF ~Ok(q) \/ s.k = "do" THEN q
  ELSE IF s.k = "let" THEN IF s.mut THEN BindSlot(q, s.x, q.v) ELSE BindValue(q, s.x, q.v)
  ELSE IF s.k = "assign" THEN StoreVar(q, s.x)
  ELSE StoreAt(EvalExpr(P, q, s.i), s.x, q.v)
EvalStmt(P, r, s) ==
  IF s.k = "arena" THEN EvalBody(P, r, s.b) ELSE EvalStore(P, EvalExpr(P, r, s.e), s)

EvalStmts(P, r, ss) ==
  IF ss = <<>> \/ ~Ok(r) THEN r ELSE EvalStmts(P, EvalStmt(P, r, Head(ss)), Tail(ss))

(* eval_body: the statements, then the tail, whose value is the body's.    *)
EvalBody(P, r, body) ==
  LET q == EvalStmts(P, r, body.ss)
  IN  IF body.tail = NoExpr THEN Val(q, Unit) ELSE EvalExpr(P, q, body.tail)

(* evaluate_const_values: every const item, in the order of their names.   *)
RECURSIVE EvalConsts(_, _, _)
EvalConsts(P, r, names) ==
  IF names = <<>> THEN r
  ELSE LET q == EvalConst(P, r, Head(names))
       IN  EvalConsts(P, [q EXCEPT !.err = NoError], Tail(names))
ConstValues(P) == EvalConsts(P, Fresh0, P.constNames)
=============================================================================
