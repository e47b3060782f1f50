----------------------------- MODULE MirLowering -----------------------------
(***************************************************************************)
(* FunctionLowerer of sarif_codegen/src/lib.rs: how a checked function     *)
(* becomes the instruction tree (MIR) that the interpreter runs and that   *)
(* the C, Cranelift and Wasm emitters start from.                          *)
(*                                                                         *)
(* A lowering threads a record L: the next free value and slot, the        *)
(* instructions emitted so far, the bindings and types of the locals, the  *)
(* bounds trusted for loop indices, the function's result in an `ensures`, *)
(* whether a diagnostic was reported; and what the last operator returns:  *)
(* the value v (or the list vs), or a nested block's code and result.      *)
(* P is the program with the values of its consts (P.vals).  Nothing is run *)
(* after a diagnostic, so what would still be lowered is left out.         *)
(*                                                                         *)
(* A value's number is taken when its instruction is emitted; the code     *)
(* sometimes takes it before lowering the operands, which only renames.    *)
(***************************************************************************)
EXTENDS ConstEval

Emit(L, inst) == [L EXCEPT !.insts = Append(@, inst)]
(* fresh_value, and the instruction that defines it.                       *)
New(L, inst) ==
  [Emit(L, inst @@ [dest |-> L.next]) EXCEPT !.next = @ + 1, !.v = L.next]
Diag(L) == [L EXCEPT !.diag = TRUE]

Const(L, v) == New(L, [op |-> "Const", v |-> v])
Binary(L, op, l, r) == New(L, [op |-> op, l |-> l, r |-> r])
(* The comparison of value l with a constant.                              *)
Compare(L, op, l, v) == LET K == Const(L, v) IN Binary(K, op, l, K.v)
IfInst(L, c, then, thenResult, else, elseResult) ==
  New(L, [op |-> "If", c |-> c, then |-> then, thenResult |-> thenResult,
          else |-> else, elseResult |-> elseResult])

(* emit_unit_value: an `if true` with two empty branches.                  *)
UnitValue(L) == LET M == Const(L, VBool(TRUE)) IN IfInst(M, M.v, <<>>, NoId, <<>>, NoId)

(* emit_runtime_value: the instructions that rebuild a compile-time value. *)
RECURSIVE EmitValue(_, _), EmitValues(_, _)
EmitValues(L, vs) ==
  IF vs = <<>> THEN [L EXCEPT !.vs = <<>>]
  ELSE LET M == EmitValue(L, Head(vs))
           N == EmitValues(M, Tail(vs))
       IN  [N EXCEPT !.vs = <<M.v>> \o @]
EmitValue(L, v) ==
  LET fields == EmitValues(L, [i \in 1 .. Cardinality(DOMAIN v[2]) |-> v[2][i - 1]])
      payload == EmitValue(L, v[3])
  IN  CASE v = Unit -> UnitValue(L)
        [] IsInt(v) \/ IsBool(v) \/ IsText(v) -> Const(L, v)
        [] IsRecord(v) -> New(fields, [op |-> "MakeRecord", fields |-> fields.vs])
        [] IsEnum(v) ->
             IF v[3] = Unit THEN New(L, [op |-> "MakeEnum", v |-> v[2], payload |-> NoId])
             ELSE New(payload, [op |-> "MakeEnum", v |-> v[2], payload |-> payload.v])

(* The lowered code of a part, apart from L's own instructions: what       *)
(* lower_nested_body and its two variants return.  Bindings the part made  *)
(* for names L does not know are kept; trusted bounds are not.             *)
Nested_Shadows(L, N) ==
  [L EXCEPT !.next = N.next, !.slot = N.slot, !.locals = N.locals @@ @,
            !.types = N.types @@ @, !.diag = N.diag, !.v = N.v, !.res = N.res,
            !.code = N.insts]
Nested(L, N) ==
  [L EXCEPT !.next = N.next, !.slot = N.slot, !.locals = @ @@ N.locals,
            !.types = @ @@ N.types, !.diag = N.diag, !.v = N.v, !.res = N.res,
            !.code = N.insts]
Apart(L) == [L EXCEPT !.insts = <<>>]

(* expr_returns_unit, body_returns_unit.                                   *)
RECURSIVE ReturnsUnit(_)
BodyReturnsUnit(b) == b.tail = NoExpr \/ ReturnsUnit(b.tail)
ReturnsUnit(e) ==
  \/ e.k \in {"repeat", "while"}
  \/ e.k = "not" /\ ReturnsUnit(e.e)
  \/ e.k = "if" /\ BodyReturnsUnit(e.t) /\ BodyReturnsUnit(e.f)
  \/ e.k = "match" /\ \A i \in DOMAIN e.arms : BodyReturnsUnit(e.arms[i].b)

(* runtime_value_lower_type, infer_expr_type, infer_body_type.             *)
RECURSIVE ValueType(_), InferType(_, _, _)
ValueType(v) ==
  CASE IsInt(v) -> TI32 [] IsBool(v) -> TBool [] IsText(v) -> TText
    [] IsEnum(v) -> TEnum [] v = Unit -> TUnit
    [] IsRecord(v) -> TArray(ValueType(v[2][0]), Cardinality(DOMAIN v[2]))
BodyType(P, L, b) == IF b.tail = NoExpr THEN TUnit ELSE InferType(P, L, b.tail)
InferType(P, L, e) ==
  CASE e.k \in {"int", "len"} -> TI32
    [] e.k \in {"bool", "not"} -> TBool
    [] e.k = "text" -> TText
    [] e.k = "name" -> IF e.x \in DOMAIN L.types THEN L.types[e.x]
                       ELSE IF e.x \in DOMAIN P.vals THEN ValueType(P.vals[e.x]) ELSE TError
    [] e.k = "result" -> P.functions[L.fn].returns
    [] e.k = "call" -> P.functions[e.f].returns
    [] e.k = "ctor" -> TEnum
    [] e.k = "array" -> TArray(InferType(P, L, e.es[1]), Len(e.es))
    [] e.k = "index" -> LET t == InferType(P, L, e.e) IN IF t[1] = "Array" THEN t[2] ELSE TError
    [] e.k = "if" -> BodyType(P, L, e.t)
    [] e.k = "match" -> BodyType(P, L, e.arms[1].b)
    [] e.k \in {"repeat", "while"} -> TUnit
    [] e.k = "comptime" -> BodyType(P, L, e.b)
    [] e.k = "bin" ->
         LET l == InferType(P, L, e.l)
             r == InferType(P, L, e.r)
         IN  IF e.op \in {"And", "Or", "Eq", "Ne", "Lt", "Le", "Gt", "Ge"} THEN TBool
             ELSE IF e.op = "Add" /\ l = TText /\ r = TText THEN TText
             ELSE IF l = TI32 /\ r = TI32 THEN TI32 ELSE TError
    [] e.k \in {"handle", "perform"} -> TError
----------------------------------------------------------------------------
(* name_static_index_bound: what is known of a name when it is used as a   *)
(* loop count or an index: NoId, the bound trusted for a loop index of     *)
(* that name, or the value of the const.                                   *)
StaticBound(P, L, x) ==
  IF x \in DOMAIN L.trusted THEN L.trusted[x]
  ELSE IF x \in DOMAIN P.vals /\ IsInt(P.vals[x]) /\ P.vals[x][2] >= 0 THEN P.vals[x][2]
  ELSE NoId

(* repeat_static_count.                                                    *)
StaticCount(P, L, e) ==
  IF e.k = "int" THEN (IF e.n >= 0 THEN e.n ELSE NoId)
  ELSE IF e.k = "name" THEN StaticBound(P, L, e.x) ELSE NoId

(* const_index_expr_value: a literal, or a const, whatever a local of that *)
(* name holds.                                                             *)
ConstIndex(P, e) ==
  IF e.k = "int" /\ e.n >= 0 THEN e.n
  ELSE IF e.k = "name" /\ e.x \in DOMAIN P.vals /\ IsInt(P.vals[e.x]) /\ P.vals[e.x][2] >= 0
       THEN P.vals[e.x][2]
  ELSE NoId

(* index_expr_is_in_bounds: the bound trusted for a name is at most len.   *)
KnownInBounds(P, L, e, len) ==
  \/ e.k = "int" /\ e.n \in 0 .. len - 1
  \/ e.k = "name" /\ StaticBound(P, L, e.x) \in 0 .. len

(* emit_bounds_assert, unless the index is known to be in bounds.          *)
BoundsAssert(L, index, len) ==
  LET low == Compare(L, "Ge", index, VInt(0))
      high == Compare(low, "Lt", index, VInt(len))
      both == Binary(high, "And", low.v, high.v)
  IN  Emit(both, [op |-> "Assert", c |-> both.v, kind |-> "bounds"])
CheckIndex(P, L, e, len) ==
  IF KnownInBounds(P, L, e, len) THEN L ELSE [BoundsAssert(L, L.v, len) EXCEPT !.v = L.v]

(* lower_index_choice_range, lower_array_slot_choice_range and             *)
(* store_array_slot_choice_range: a balanced tree of `index < split` tests *)
(* over the elements lo .. hi - 1, whose leaves are the instructions given *)
(* for each element.  (The unit values emitted after a store are left out.) *)
RECURSIVE ChoiceTree(_, _, _, _, _)
ChoiceTree(L, index, lo, hi, leaf) ==
  LET split == lo + (hi - lo) \div 2
      cond == Compare(L, "Lt", index, VInt(split))
      left == Nested(cond, ChoiceTree(Apart(cond), index, lo, split, leaf))
      right == Nested(left, ChoiceTree(Apart(left), index, split, hi, leaf))
      store == leaf[lo].op = "StoreLocal"
  IN  IF lo + 1 = hi
      THEN IF store THEN Emit(L, leaf[lo]) ELSE New(L, leaf[lo])
      ELSE IfInst(right, cond.v, left.code, IF store THEN NoId ELSE left.v,
                  right.code, IF store THEN NoId ELSE right.v)

Fields(base, len) == [i \in 0 .. len - 1 |-> [op |-> "Field", base |-> base, name |-> i]]
Loads(cells) == [i \in 0 .. Len(cells) - 1 |-> [op |-> "LoadLocal", slot |-> cells[i + 1]]]
Stores(cells, src) ==
  [i \in 0 .. Len(cells) - 1 |-> [op |-> "StoreLocal", slot |-> cells[i + 1], src |-> src]]
(* The element at the index I.v.                                           *)
Choose(I, leaf) == ChoiceTree(I, I.v, 0, Cardinality(DOMAIN leaf), leaf)
----------------------------------------------------------------------------
(* store_array_slots_from_value: one field and one store for each slot.    *)
RECURSIVE StoreFrom(_, _, _, _)
StoreFrom(L, cells, v, i) ==
  IF i > Len(cells) THEN L
  ELSE StoreFrom(Emit(New(L, [op |-> "Field", base |-> v, name |-> i - 1]),
                      [op |-> "StoreLocal", slot |-> cells[i], src |-> L.next]), cells, v, i + 1)
StoreArray(L, cells, v) == StoreFrom(L, cells, v, 1)

(* materialize_array_slots: the array rebuilt from its slots.              *)
LoadArray(L, cells) ==
  LET M == FoldLeft(LAMBDA N, s : [New(N, [op |-> "LoadLocal", slot |-> s])
                                     EXCEPT !.vs = Append(@, N.next)],
                    [L EXCEPT !.vs = <<>>], cells)
  IN  New(M, [op |-> "MakeRecord", fields |-> M.vs])

Bind(L, x, binding) == [L EXCEPT !.locals = (x :> binding) @@ @]
BindType(L, x, ty) == [L EXCEPT !.types = (x :> ty) @@ @]

(* bind_local: an array parameter or mutable array gets a slot for each    *)
(* element, any other mutable local one slot, the rest is a plain value.   *)
(* A mutable local whose type is unknown is refused.                       *)
BindLocal(L, x, ty, v, mutable, scalarize) ==
  LET cells == [i \in 1 .. ty[3] |-> L.slot + i - 1]
      wide == [StoreArray(L, cells, v) EXCEPT !.slot = @ + ty[3]]
      one == [Emit(L, [op |-> "StoreLocal", slot |-> L.slot, src |-> v]) EXCEPT !.slot = @ + 1]
  IN  IF scalarize /\ ty[1] = "Array"
      THEN BindType(Bind(wide, x, [k |-> "slots", slots |-> cells]), x, ty)
      ELSE IF mutable /\ ty = TError THEN Diag(L)
      ELSE IF mutable THEN BindType(Bind(one, x, [k |-> "slot", slot |-> L.slot]), x, ty)
      ELSE BindType(Bind(L, x, [k |-> "value", v |-> v]), x, ty)
----------------------------------------------------------------------------
RECURSIVE LowerExpr(_, _, _), LowerBody(_, _, _), LowerTail(_, _, _), LowerAll(_, _, _),
          LowerStmts(_, _, _), MatchBody(_, _, _, _), IntTree(_, _, _, _, _, _),
          Unroll(_, _, _, _, _)

NestedBody(P, L, body) == Nested(L, LowerBody(P, Apart(L), body))

LowerAll(P, L, es) ==
  IF es = <<>> \/ L.diag THEN [L EXCEPT !.vs = <<>>]
  ELSE LET M == LowerExpr(P, L, Head(es))
           N == LowerAll(P, M, Tail(es))
       IN  [N EXCEPT !.vs = <<M.v>> \o @]

(* The `if` between the blocks T and F, which has a result if one of them  *)
(* has.                                                                    *)
JoinIf(cond, T, F) ==
  LET M == IfInst(F, cond, T.code, T.res, F.code, F.res)
  IN  [M EXCEPT !.res = IF T.res = NoId /\ F.res = NoId THEN NoId ELSE M.v]

(* `if` and `while`: the branches, the condition and the loop's body are   *)
(* blocks of their own.                                                    *)
LowerElse(P, c, T, e) == JoinIf(c, T, NestedBody(P, T, e.f))
LowerThen(P, C, e) == LowerElse(P, C.v, NestedBody(P, C, e.t), e)
LowerIf(P, L, e) == LowerThen(P, LowerExpr(P, L, e.c), e)
WhileInst(C, B) ==
  [New(B, [op |-> "While", cond |-> C.code, c |-> C.v, body |-> B.code]) EXCEPT !.res = NoId]
LowerWhile(P, L, e) ==
  LET C == Nested(L, LowerExpr(P, Apart(L), e.c)) IN WhileInst(C, NestedBody(P, C, e.b))

(* lower_repeat_body: the index lives in a slot of its own; its bound is   *)
(* trusted when the count is static.                                       *)
BindIndex(N, x, bound) ==
  LET I == BindType(Bind([N EXCEPT !.slot = @ + 1], x, [k |-> "slot", slot |-> N.slot]), x, TI32)
  IN  IF x = NoName THEN N
      ELSE IF bound = NoId THEN I ELSE [I EXCEPT !.trusted = (x :> bound) @@ @]
RepeatInst(N, x, B) ==
  [New(B, [op |-> "Repeat", n |-> N.v, body |-> B.code, slot |-> IF x = NoName THEN NoId ELSE N.slot])
     EXCEPT !.res = NoId]
LowerRepeat(P, L, e) ==
  LET N == LowerExpr(P, L, e.n)
      I == BindIndex(N, e.x, StaticCount(P, N, e.n))
  IN  RepeatInst(N, e.x, Nested(N, LowerBody(P, Apart(I), e.b)))

(* A `repeat` statement with a static count is unrolled: the index of copy *)
(* k is the constant k; the locals of a copy are dropped.                  *)
Unroll(P, L, e, k, n) ==
  LET C == Const(L, VInt(k))
      I == [BindType(Bind(C, e.x, [k |-> "value", v |-> C.v]), e.x, TI32)
              EXCEPT !.trusted = (e.x :> n) @@ @]
      B == LowerBody(P, IF e.x = NoName THEN L ELSE I, e.b)
  IN  IF k = n \/ L.diag THEN UnitValue(L)
      ELSE Unroll(P, [B EXCEPT !.locals = L.locals, !.types = L.types, !.trusted = L.trusted],
                  e, k + 1, n)

(* Constant folding of two integer literals; a division by zero is left to *)
(* run time, as is `%`.                                                    *)
Folds(e) == e.l.k = "int" /\ e.r.k = "int" /\ e.op \notin {"Rem", "And", "Or"}
            /\ ~(e.op = "Div" /\ e.r.n = 0)
LowerBinary(P, L, e) ==
  LET M == LowerAll(P, L, <<e.l, e.r>>)
      texts == InferType(P, M, e.l) = TText /\ InferType(P, M, e.r) = TText
  IN  IF Folds(e) THEN Const(L, ConstBinary(e.op, VInt(e.l.n), VInt(e.r.n))[2])
      ELSE Binary(M, IF e.op = "Add" /\ texts THEN "TextConcat" ELSE e.op, M.vs[1], M.vs[2])

(* lower_index_expr.  A constant index past the end is a diagnostic.       *)
LowerIndex(P, L, e) ==
  LET c == ConstIndex(P, e.i)
      slotted == e.e.k = "name" /\ e.e.x \in DOMAIN L.locals /\ L.locals[e.e.x].k = "slots"
      cells == L.locals[e.e.x].slots
      B == IF slotted THEN L ELSE LowerExpr(P, L, e.e)
      len == IF slotted THEN Len(cells) ELSE InferType(P, L, e.e)[3]
      leaf == IF slotted THEN Loads(cells) ELSE Fields(B.v, len)
      I == CheckIndex(P, LowerExpr(P, B, e.i), e.i, len)
  IN  IF ~slotted /\ InferType(P, L, e.e)[1] # "Array" THEN UnitValue(Diag(L))
      ELSE IF c = NoId THEN Choose(I, leaf)
      ELSE IF c < len THEN New(B, leaf[c]) ELSE UnitValue(Diag(B))

(* lower_array_index_assign_statement, of value v to an element of x.      *)
LowerAssignAt(P, L, s, v) ==
  LET cells == L.locals[s.x].slots
      c == ConstIndex(P, s.i)
      I == CheckIndex(P, LowerExpr(P, L, s.i), s.i, Len(cells))
      leaf == Stores(cells, v)
  IN  IF s.x \notin DOMAIN L.locals \/ L.locals[s.x].k # "slots" THEN Diag(L)
      ELSE IF c \in 0 .. Len(cells) - 1 THEN Emit(L, leaf[c])
      ELSE Choose(I, leaf)

(* A name: its value, a load of its slot, the array of its slots, or the   *)
(* const of that name.                                                     *)
LowerName(P, L, x) ==
  LET b == L.locals[x]
  IN  IF x \in DOMAIN L.locals
      THEN CASE b.k = "value" -> [L EXCEPT !.v = b.v]
             [] b.k = "slot" -> New(L, [op |-> "LoadLocal", slot |-> b.slot])
             [] b.k = "slots" -> LoadArray(L, b.slots)
      ELSE IF x \in DOMAIN P.vals THEN EmitValue(L, P.vals[x]) ELSE Diag(L)
----------------------------------------------------------------------------
(* lower_match_pattern_condition: the test of a pattern, NoId for `_`.     *)
RECURSIVE PatternTest(_, _, _, _)
PatternTest(P, L, s, p) ==
  LET lit == CASE p.k = "int" -> VInt(p.n) [] p.k = "bool" -> VBool(p.b) [] p.k = "text" -> VText(p.s)
      ge == Compare(L, "Ge", s, VInt(p.lo))
      lt == Compare(ge, "Lt", s, VInt(p.hi))
      tests == FoldLeft(LAMBDA M, q : LET N == PatternTest(P, M, s, q)
                                      IN  IF N.v = NoId THEN [N EXCEPT !.vs = M.vs]
                                          ELSE [N EXCEPT !.vs = Append(M.vs, N.v)],
                        [L EXCEPT !.vs = <<>>], p.ps)
  IN  CASE p.k \in {"int", "bool", "text"} -> Compare(L, "Eq", s, lit)
        [] p.k = "range" -> Binary(lt, "And", ge.v, lt.v)
        [] p.k = "variant" -> New(L, [op |-> "EnumTagEq", e |-> s, tag |-> Tag(P, p.v)])
        [] p.k = "wild" -> [L EXCEPT !.v = NoId]
        [] p.k = "or" -> IF tests.vs = <<>> THEN [tests EXCEPT !.v = NoId]
                         ELSE FoldLeft(LAMBDA M, t : Binary(M, "Or", M.v, t),
                                       [tests EXCEPT !.v = tests.vs[1]], Tail(tests.vs))

(* lower_match_arm_body: a block that first binds the payload.  The name   *)
(* gets no type.                                                           *)
ArmBody(P, L, s, arm) ==
  LET bound == arm.p.k = "variant" /\ arm.p.x # NoName
      M == New(Apart(L), [op |-> "EnumPayload", e |-> s])
      B == IF bound THEN Bind(M, arm.p.x, [k |-> "value", v |-> M.v]) ELSE Apart(L)
  IN  [NestedBody(P, B, arm.b) EXCEPT !.insts = L.insts, !.locals = L.locals, !.code = B.insts \o @]

(* is_integer_only_match, and collect_int_values with the arm of each.     *)
IntOnly(arms) == \A i \in DOMAIN arms :
                   \A j \in DOMAIN Parts(arms[i].p) : Parts(arms[i].p)[j].k \in {"int", "wild"}
IntArms(arms) ==
  FlattenSeq([i \in DOMAIN arms |->
    LET qs == SelectSeq(Parts(arms[i].p), LAMBDA q : q.k = "int")
    IN  [j \in DOMAIN qs |-> <<qs[j].n, i>>]])

(* build_int_btree: a balanced search tree over the sorted literals, with  *)
(* the `_` arm copied into the miss of every leaf.                         *)
IntLeaf_NoMiss(P, A, s, n, wild, arms) ==
  LET E == Compare(A, "Eq", s, VInt(n)) IN JoinIf(E.v, A, [E EXCEPT !.code = <<>>, !.res = NoId])
IntLeaf(P, A, s, n, wild, arms) ==
  LET E == Compare(A, "Eq", s, VInt(n))
  IN  JoinIf(E.v, A, IF wild = 0 THEN [E EXCEPT !.code = <<>>, !.res = NoId]
                     ELSE ArmBody(P, E, s, arms[wild]))
IntTree(P, L, s, ints, wild, arms) ==
  LET mid == Len(ints) \div 2
      C == Compare(L, "Lt", s, VInt(ints[mid + 1][1]))
      T == Nested(C, IntTree(P, Apart(C), s, SubSeq(ints, 1, mid), wild, arms))
  IN  IF Len(ints) = 1
      THEN IntLeaf(P, ArmBody(P, L, s, arms[ints[1][2]]), s, ints[1][1], wild, arms)
      ELSE JoinIf(C.v, T, Nested(T, IntTree(P, Apart(T), s, SubSeq(ints, mid + 1, Len(ints)), wild, arms)))

(* lower_match_body: the arms in order, each tested against the scrutinee  *)
(* s, the last one without an alternative; three or more integer arms      *)
(* become a search tree when they have few literals.  A is the block of    *)
(* the first arm and C its test.                                           *)
MatchRest(P, A, C, s, arms) ==
  IF C.v = NoId THEN [C EXCEPT !.insts = @ \o A.code, !.res = A.res]
  ELSE JoinIf(C.v, A, IF Len(arms) = 1 THEN ArmBody(P, C, s, arms[1])
                      ELSE Nested(C, MatchBody(P, Apart(C), s, Tail(arms))))
MatchFirst(P, A, s, arms) == MatchRest(P, A, PatternTest(P, A, s, arms[1].p), s, arms)
MatchBody(P, L, s, arms) ==
  LET ints == SortSeq(IntArms(arms), LAMBDA a, b : a[1] < b[1])
      wilds == {i \in DOMAIN arms : arms[i].p.k = "wild"}
  IN  IF /\ Len(arms) >= 3 /\ IntOnly(arms)
         /\ ints # <<>> /\ Len(ints) <= (Len(arms) * 3) \div 2
      THEN IntTree(P, L, s, ints, IF wilds = {} THEN 0 ELSE Min(wilds), arms)
      ELSE MatchFirst(P, ArmBody(P, L, s, arms[1]), s, arms)

(* lower_match_value: a match without a result is a unit value.            *)
OrUnit(M) == IF M.res = NoId THEN UnitValue(M) ELSE [M EXCEPT !.v = M.res]
MatchValue(P, L, s, arms) == OrUnit(MatchBody(P, L, s, arms))

(* A comptime block is evaluated on the spot, with the consts known and no *)
(* local; an error makes it a unit value, reported or not.                 *)
EmitEvaluated(L, r) ==
  [EmitValue(L, IF Ok(r) THEN r.v ELSE Unit) EXCEPT !.diag = @ \/ r.diag]
Comptimed(P, L, b) ==
  EmitEvaluated(L, EvalExpr([P EXCEPT !.consts = NoBindings], [Fresh0 EXCEPT !.vals = P.vals], Comptime(b)))

(* The arms of a handler are kept under the empty effect name; their code  *)
(* is left out.                                                            *)
HandleInst(B, operations) ==
  New(B, [op |-> "Handle", body |-> B.code, result |-> B.res,
          arms |-> {[effect |-> "", operation |-> x] : x \in operations}])

(* lower_expr.                                                             *)
LowerExpr(P, L, e) ==
  LET one == LowerExpr(P, L, e.e)
      all == LowerAll(P, L, e.es)
      falsity == Const(one, VBool(FALSE))
      count == StaticCount(P, L, e.n)
  IN  CASE e.k = "int" -> Const(L, VInt(e.n))
        [] e.k = "bool" -> Const(L, VBool(e.b))
        [] e.k = "text" -> Const(L, VText(e.s))
        [] e.k = "name" -> LowerName(P, L, e.x)
        [] e.k = "result" -> [L EXCEPT !.v = L.result]
        [] e.k = "not" -> Binary(falsity, "Eq", one.v, falsity.v)
        [] e.k = "bin" -> LowerBinary(P, L, e)
        [] e.k = "call" -> New(all, [op |-> "Call", f |-> e.f, args |-> all.vs])
        [] e.k = "ctor" -> New(all, [op |-> "MakeEnum", v |-> e.v,
                                     payload |-> IF e.es = <<>> THEN NoId ELSE all.vs[1]])
        [] e.k = "array" -> New(all, [op |-> "MakeRecord", fields |-> all.vs])
        [] e.k = "len" -> LET t == InferType(P, L, e.e)
                          IN  IF t[1] = "Array" THEN Const(L, VInt(t[3])) ELSE UnitValue(Diag(L))
        [] e.k = "index" -> LowerIndex(P, L, e)
        [] e.k = "if" -> LowerIf(P, L, e)
        [] e.k = "match" -> MatchValue(P, one, one.v, e.arms)
        [] e.k = "while" -> LowerWhile(P, L, e)
        [] e.k = "repeat" -> IF count = NoId THEN LowerRepeat(P, L, e) ELSE Unroll(P, L, e, 0, count)
        [] e.k = "comptime" -> Comptimed(P, L, e.b)
        [] e.k = "perform" -> New(all, [op |-> "Perform", effect |-> e.op[1],
                                        operation |-> e.op[2], args |-> all.vs])
        [] e.k = "handle" -> HandleInst(NestedBody(P, L, e.b), e.arms)

(* lower_tail_expr: the value of a body, NoId where it has none; a `repeat` *)
(* in tail position stays a loop.                                          *)
TailMatch(P, S, arms) == MatchBody(P, S, S.v, arms)
TailValue(M, e) == [M EXCEPT !.res = IF e.k # "not" /\ ReturnsUnit(e) THEN NoId ELSE M.v]
LowerTail(P, L, e) ==
  CASE e = NoExpr -> [L EXCEPT !.res = NoId]
    [] e.k = "if" -> LowerIf(P, L, e)
    [] e.k = "match" -> TailMatch(P, LowerExpr(P, L, e.e), e.arms)
    [] e.k = "while" -> LowerWhile(P, L, e)
    [] e.k = "repeat" -> LowerRepeat(P, L, e)
    [] OTHER -> TailValue(LowerExpr(P, L, e), e)

(* A statement of lower_body, whose expression M has been lowered: a new   *)
(* local, or a store to an old one.                                        *)
LowerStore(P, M, s) ==
  LET ty == InferType(P, M, s.e)
      b == M.locals[s.x]
      store == IF b.k = "slot" THEN Emit(M, [op |-> "StoreLocal", slot |-> b.slot, src |-> M.v])
               ELSE StoreArray(M, b.slots, M.v)
  IN  CASE s.k = "do" -> M
        [] s.k = "let" -> BindLocal(M, s.x, ty, M.v, s.mut, s.mut)
        [] s.k = "assign" -> IF s.x \notin DOMAIN M.locals \/ b.k = "value" THEN Diag(M)
                             ELSE BindType(store, s.x, ty)
        [] s.k = "assignAt" -> LowerAssignAt(P, M, s, M.v)

(* A with_arena block is bracketed by the arena's instructions and shares  *)
(* the locals around it.                                                   *)
LowerStmt(P, L, s) ==
  IF s.k = "arena"
  THEN Emit(LowerBody(P, Emit(L, [op |-> "AllocPush"]), s.b), [op |-> "AllocPop"])
  ELSE LowerStore(P, LowerExpr(P, L, s.e), s)

LowerStmts(P, L, ss) ==
  IF ss = <<>> \/ L.diag THEN L ELSE LowerStmts(P, LowerStmt(P, L, Head(ss)), Tail(ss))

(* lower_body.                                                             *)
LowerBody(P, L, body) == LowerTail(P, LowerStmts(P, L, body.ss), body.tail)
----------------------------------------------------------------------------
(* FunctionLowerer::new and lower_function_monomorphized: the parameters,  *)
(* the requires clause, the body, and then the ensures clause, which sees  *)
(* the locals of the body.                                                 *)
Start(f) == [fn |-> f, next |-> 0, slot |-> 0, insts |-> <<>>, locals |-> NoBindings, types |-> NoBindings,
             trusted |-> NoBindings, result |-> NoId, diag |-> FALSE, v |-> NoId, vs |-> <<>>,
             res |-> NoId, code |-> <<>>]
ClauseAssert(M, kind) == Emit(M, [op |-> "Assert", c |-> M.v, kind |-> kind])
LowerClause(P, L, clause, kind) ==
  IF clause = NoExpr THEN L ELSE ClauseAssert(LowerExpr(P, L, clause), kind)
Function(F, E) ==
  [insts |-> E.insts, result |-> E.result, values |-> E.next, slots |-> E.slot, diag |-> E.diag,
   returns |-> F.returns, effects |-> F.effects]
Finish(P, B, F) ==
  Function(F, LowerClause(P, [B EXCEPT !.result = B.res], F.ensures, "ensures"))
RECURSIVE LowerParams(_, _, _)
LowerParams(L, F, i) ==
  IF i > Len(F.params) THEN L
  ELSE LowerParams(BindLocal(New(L, [op |-> "LoadParam", index |-> i]),
                             F.params[i], F.types[i], L.next, FALSE, TRUE), F, i + 1)
LowerFunction(P, f) ==
  LET F == P.functions[f]
      R == LowerClause(P, LowerParams(Start(f), F, 1), F.requires, "requires")
  IN  Finish(P, LowerBody(P, R, F.body), F)

(* lower: the consts, then every function; nothing to run when there is a  *)
(* diagnostic.                                                             *)
Tags(P) == [v \in {P.variants[i].name : i \in DOMAIN P.variants} |-> Tag(P, v)]
LowerAllFunctions(P) == [f \in DOMAIN P.functions |-> LowerFunction(P, f)]
Diagnosed(fs) == \E f \in DOMAIN fs : fs[f].diag
Accepted(P, r, fs) ==
  [functions |-> IF r.diag \/ Diagnosed(fs) THEN NoBindings ELSE fs, tags |-> Tags(P)]
Lower(P) ==
  LET r == ConstValues(P) IN Accepted(P, r, LowerAllFunctions([vals |-> r.vals] @@ P))
=============================================================================
