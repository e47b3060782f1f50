------------------------------ MODULE TypeCheck ------------------------------
(***************************************************************************)
(* The type and effect check of sarif_frontend: infer_expr and the         *)
(* functions it dispatches to (semantic.rs, semantic/exprcore.rs), the     *)
(* statements of a body (semantic/bodycheck.rs), type compatibility        *)
(* (semantic/typecheck.rs, semantic/support.rs), and the checks analyze    *)
(* makes of one constant and of one function.                              *)
(*                                                                         *)
(* A judgement holds the type of an expression, the diagnostics reported   *)
(* below it (their codes, "semantic." left off) and the functions called.  *)
(* G is what the module declares: functions (params, returns, effects),    *)
(* consts (types), enums (variants), structs (fields), and `effects`,      *)
(* those of the function being checked.  S is the scope: the types of the  *)
(* locals and which of them are mutable.                                   *)
(*                                                                         *)
(* Left out: generics, Pair, floats as literals, repeated arrays [v; n],   *)
(* and assignments to a field of an array element.                         *)
(***************************************************************************)
EXTENDS Hir

When(b, code) == IF b THEN {code} ELSE {}

(* ExprInfo, with the diagnostics and calls of the judgements it rests on. *)
Judge(ty, ds, calls, js) ==
  [ty |-> ty,
   ds |-> ds \cup UNION {js[i].ds : i \in DOMAIN js},
   calls |-> calls \cup UNION {js[i].calls : i \in DOMAIN js}]
Typed(ty, ds, js) == Judge(ty, ds, {}, js)
Types(js) == [i \in DOMAIN js |-> js[i].ty]

(* An error reported once is not reported again by what uses the value.    *)
Wrong(ty, expected) == ty \notin {expected, TError}
IsList(ty) == ty[1] = "List"
IsArray(ty) == ty[1] = "Array"

(* nested_expr_context: a let initialiser is a "statement", its parts and  *)
(* everything else executable a "body"; contracts stay contracts.          *)
Inner(c) == IF c \in {"requires", "ensures"} THEN c ELSE "body"
Executable(c) == c \in {"body", "statement"}
----------------------------------------------------------------------------
(* types_compatible; lengths are literals here.                            *)
RECURSIVE TypesCompatible(_, _)
TypesCompatible(s, t) ==
  \/ TError \in {s, t}
  \/ /\ s[1] = t[1]
     /\ CASE s[1] = "File" -> FALSE
          [] s[1] = "List" -> TypesCompatible(s[2], t[2])
          [] s[1] = "Array" -> s[3] = t[3] /\ TypesCompatible(s[2], t[2])
          [] OTHER -> s = t

(* field_type; TError stands for None, which no declared field has.        *)
FieldType(G, ty, f) ==
  LET fields == IF ty[1] = "Named" /\ ty[2] \in DOMAIN G.structs THEN G.structs[ty[2]] ELSE <<>>
      i == SelectInSeq(fields, LAMBDA field : field.name = f)
  IN  IF i = 0 THEN TError ELSE fields[i].ty

(* enum_variant_info: the enum that declares a variant, and the variant.   *)
EnumOf(G, v) == {n \in DOMAIN G.enums : \E i \in DOMAIN G.enums[n] : G.enums[n][i].name = v}
VariantOf(G, n, v) == G.enums[n][SelectInSeq(G.enums[n], LAMBDA w : w.name = v)]

(* type_contains_affine_values_inner; `visiting` breaks recursive types.   *)
RECURSIVE ContainsAffine(_, _, _)
ContainsAffine(G, ty, visiting) ==
  CASE ty[1] \in {"Text", "Bytes", "TextIndex", "TextBuilder", "List", "File"} -> TRUE
    [] ty[1] = "Array" -> ContainsAffine(G, ty[2], visiting)
    [] ty[1] = "Named" ->
         LET n == ty[2]
         IN  /\ n \notin visiting
             /\ IF n \in DOMAIN G.structs
                THEN \E i \in DOMAIN G.structs[n] :
                       ContainsAffine(G, G.structs[n][i].ty, visiting \cup {n})
                ELSE IF n \in DOMAIN G.enums
                THEN \E i \in DOMAIN G.enums[n] :
                       ContainsAffine(G, G.enums[n][i].payload, visiting \cup {n})
                ELSE TRUE
    [] OTHER -> FALSE

(* mutable_local_allows_affine_values                                      *)
MutableAllowed(ty) == ty[1] \in {"Text", "Bytes", "TextIndex", "TextBuilder", "List"}
----------------------------------------------------------------------------
(* matching_numeric_type; TError stands for None.                          *)
Numeric(l, r) ==
  IF l = r /\ l \in {TI32, TI64, TF64} THEN l
  ELSE IF {l, r} = {TI32, TI64} THEN TI64 ELSE TError

Integral(l, r) == IF TI64 \in {l, r} THEN TI64 ELSE TI32

(* The type of an operator applied to two types, and what it reports.      *)
BinaryType(op, l, r) ==
  LET known == TError \notin {l, r}
      sum == IF op = "Add" /\ l = TBuilder /\ r \in {TText, TI32, TI64} THEN TBuilder
             ELSE IF op = "Add" /\ l = TText /\ r = TText THEN TText
             ELSE Numeric(l, r)
      off(ts) == l \notin ts \cup {TError} \/ r \notin ts \cup {TError}
  IN  CASE op \in {"And", "Or"} -> <<TBool, off({TBool})>>
        [] op \in {"Add", "Sub", "Mul", "Div"} -> <<sum, known /\ sum = TError>>
        [] op \in {"Rem", "BitAnd", "BitOr", "BitXor", "Shl", "Shr"} ->
             <<Integral(l, r), off({TI32, TI64})>>
        [] op \in {"Lt", "Le", "Gt", "Ge"} -> <<TBool, known /\ Numeric(l, r) = TError>>
        [] op \in {"Eq", "Ne"} -> <<TBool, known /\ l # r>>

InferBinary(op, l, r) ==
  LET t == BinaryType(op, l.ty, r.ty)
  IN  Typed(IF TError \in {l.ty, r.ty} THEN TError ELSE t[1],
            When(t[2], "binary-type"), <<l, r>>)

InferNot(e) == Typed(IF e.ty = TError THEN TError ELSE TBool, When(Wrong(e.ty, TBool), "binary-type"), <<e>>)
----------------------------------------------------------------------------
(* infer_fixed_builtin_expr                                                *)
FixedBuiltin(B, c, ts) ==
  LET used == When(B.runtime /\ ~Executable(c), "runtime-context")
  IN  IF Len(ts) # Len(B.params) THEN <<TError, used \cup {"builtin-arity"}>>
      ELSE <<B.returns,
             used \cup When(\E i \in DOMAIN ts : Wrong(ts[i], B.params[i]), "builtin-type")>>

(* The builtins on lists and the makers of handles, by argument types: the *)
(* type of the call and whether an argument was wrong.                     *)
NotList(ty) == ty # TError /\ ~IsList(ty)
Element(ty) == IF IsList(ty) \/ IsArray(ty) THEN ty[2] ELSE TError
ListNew(ts) == <<TList(ts[2]), Wrong(ts[1], TI32)>>
ListLen(ts) == <<TI32, NotList(ts[1])>>
ListGet(ts) == <<IF IsList(ts[1]) THEN ts[1][2] ELSE TError, NotList(ts[1]) \/ Wrong(ts[2], TI32)>>
ListSet(ts) ==
  <<ts[1], NotList(ts[1]) \/ Wrong(ts[2], TI32) \/ (IsList(ts[1]) /\ Wrong(ts[3], ts[1][2]))>>
ListPush(ts) ==
  <<ts[1], NotList(ts[1]) \/ Wrong(ts[2], TI32) \/ (IsList(ts[1]) /\ Wrong(ts[3], ts[1][2]))>>
ListSortText(ts) == <<ts[1], Wrong(ts[1], TList(TText)) \/ Wrong(ts[2], TI32)>>
ListFrom(ts) ==
  <<IF IsArray(ts[1]) THEN TList(ts[1][2]) ELSE TError, ts[1] # TError /\ ~IsArray(ts[1])>>
(* A field named by a text literal, of one of the types ts that sort; an   *)
(* element type that is not a struct is let pass.                          *)
SortsBy(G, n, e, ts) ==
  n \in DOMAIN G.structs => e.k = "text" /\ FieldType(G, TNamed(n), e.s) \in ts
ListSortBy(G, es, ts, sorted) ==
  LET records == IsList(ts[1]) /\ ts[1][2][1] = "Named"
  IN  <<IF records THEN ts[1] ELSE TError,
        \/ ~records /\ ts[1] # TError
        \/ records /\ ~SortsBy(G, ts[1][2][2], es[3], sorted)
        \/ Wrong(ts[2], TI32) \/ Wrong(ts[3], TText)>>
ListSortByField(G, es, ts) == ListSortBy(G, es, ts, {TText, TI32, TF64})
ListSortByTextField(G, es, ts) == ListSortBy(G, es, ts, {TText})

BuilderNew == <<TBuilder, FALSE>>
IndexNew == <<TIndex, FALSE>>
IndexKeys(ts) == <<IF Wrong(ts[1], TIndex) THEN TError ELSE TText, Wrong(ts[1], TIndex)>>
TcpSend(ts) == <<TI32, Wrong(ts[1], TFile) \/ ts[2] \notin {TText, TBytes, TError}>>
(* An assertion is decided here only when it is a literal.                 *)
ConstAssert(es, ts) ==
  <<IF Wrong(ts[1], TBool) THEN TError ELSE TUnit,
    Wrong(ts[1], TBool) \/ (ts[1] = TBool /\ es[1].k = "bool" /\ ~es[1].b)>>
EnumToI32 == <<TI32, FALSE>>
EnumToText == <<TText, FALSE>>

(* The part of infer_call_expr that types these builtins.                  *)
ArgumentBuiltin(G, c, f, es, ts) ==
  LET t == CASE f = "list_new" -> ListNew(ts) [] f = "list_len" -> ListLen(ts)
             [] f = "list_get" -> ListGet(ts) [] f = "list_set" -> ListSet(ts)
             [] f = "list_push" -> ListPush(ts) [] f = "list_sort_text" -> ListSortText(ts)
             [] f = "list_from" -> ListFrom(ts)
             [] f = "list_sort_by_field" -> ListSortByField(G, es, ts)
             [] f = "list_sort_by_text_field" -> ListSortByTextField(G, es, ts)
             [] f = "text_builder_new" -> BuilderNew [] f = "text_index_new" -> IndexNew
             [] f = "text_index_keys" -> IndexKeys(ts) [] f = "tcp_send" -> TcpSend(ts)
             [] f = "const_assert" -> ConstAssert(es, ts)
             [] f = "enum_to_i32" -> EnumToI32 [] f = "enum_to_text" -> EnumToText
      used == When(f \in RuntimeOnly /\ ~Executable(c), "runtime-context") \cup
              When(f \in Allocating /\ "alloc" \notin G.effects, "alloc-effect")
      io == When(f = "tcp_send" /\ "io" \notin G.effects, "io-effect")
  IN  IF Len(ts) # Arity[f] THEN <<TError, used \cup {"builtin-arity"}>>
      ELSE <<t[1], used \cup io \cup When(t[2], "builtin-type")>>

(* An effect the caller does not have; `io` covers two system effects.     *)
Missing(G, effect) ==
  /\ effect \notin G.effects
  /\ ~("io" \in G.effects /\ effect \in {"SystemIO", "SystemFile"})

(* A call of a function of the program.  A let initialiser that is itself  *)
(* the call is not asked for its effects.                                  *)
UserCall_Unchecked(G, c, f, ts) == <<G.functions[f].returns, {}>>
UserCall(G, c, f, ts) ==
  LET F == G.functions[f]
      n == IF Len(ts) < Len(F.params) THEN Len(ts) ELSE Len(F.params)
  IN  <<F.returns,
        When(Len(ts) # Len(F.params), "call-arity") \cup
        When(\E i \in 1 .. n : ~TypesCompatible(F.params[i], ts[i]), "call-type") \cup
        When(~Executable(c) /\ F.effects # {}, "contract-effect") \cup
        When(c = "body" /\ \E x \in F.effects : Missing(G, x), "missing-effect")>>

(* infer_call_expr, after the arguments: a declared function before a      *)
(* builtin of its name.                                                    *)
InferCall(G, c, f, es, js) ==
  LET ts == Types(js)
      t == CASE f \in DOMAIN G.functions -> UserCall(G, c, f, ts)
             [] f \notin DOMAIN G.functions /\ f \in DOMAIN FixedBuiltins ->
                  FixedBuiltin(FixedBuiltins[f], c, ts)
             [] f \notin DOMAIN G.functions /\ f \in DOMAIN Arity -> ArgumentBuiltin(G, c, f, es, ts)
             [] OTHER -> <<TError, {"unknown-call"}>>
  IN  Judge(t[1], t[2], {f} \cap DOMAIN G.functions, js)

(* len(xs), of arrays only.                                                *)
InferLen(j) ==
  Typed(IF IsArray(j.ty) THEN TI32 ELSE TError, When(j.ty # TError /\ ~IsArray(j.ty), "len-type"), <<j>>)

(* A variant as a constructor: without payload by name, with one by call.  *)
InferCtor(G, v, js) ==
  IF EnumOf(G, v) = {} THEN Typed(TError, {"enum-variant"}, js)
  ELSE LET n == CHOOSE m \in EnumOf(G, v) : TRUE
           payload == VariantOf(G, n, v).payload
       IN  IF Len(js) # (IF payload = TUnit THEN 0 ELSE 1)
           THEN Typed(TError, {IF js = <<>> THEN "enum-variant" ELSE "enum-constructor-arity"}, js)
           ELSE IF js # <<>> /\ Wrong(js[1].ty, payload)
           THEN Typed(TError, {"enum-constructor-type"}, js)
           ELSE Typed(TNamed(n), {}, js)
----------------------------------------------------------------------------
InferField(G, j, f) ==
  LET ty == IF f = "len" /\ (IsList(j.ty) \/ IsArray(j.ty) \/ j.ty = TText) THEN TI32
            ELSE FieldType(G, j.ty, f)
      silent == f = "len" /\ j.ty = TError
  IN  Typed(ty, When(ty = TError /\ ~silent, "field-access"), <<j>>)

(* infer_record_expr: every declared field once, each of its type.         *)
InferRecord(G, n, fs, js) ==
  LET ty(f) == FieldType(G, TNamed(n), f)
      names == {fs[i].f : i \in DOMAIN fs}
      declared == {G.structs[n][i].name : i \in DOMAIN G.structs[n]}
      ds == When(names # declared \/ Cardinality(names) # Len(fs), "record-field") \cup
            When(\E i \in DOMAIN fs : fs[i].f \in declared /\ Wrong(js[i].ty, ty(fs[i].f)),
                 "record-field-type")
  IN  IF n \notin DOMAIN G.structs THEN Typed(TError, {"record-type"}, js)
      ELSE Typed(IF ds = {} /\ \A i \in DOMAIN js : js[i].ty # TError THEN TNamed(n) ELSE TError,
                 ds, js)

(* infer_record_update_expr: a base of a struct type, and some of its      *)
(* fields; nothing is inferred below a base that is not one.               *)
InferUpdate(G, j, fs, js) ==
  LET names == {fs[i].f : i \in DOMAIN fs}
      ty(f) == FieldType(G, j.ty, f)
      ds == When(Cardinality(names) # Len(fs) \/ \E f \in names : ty(f) = TError, "record-field") \cup
            When(\E i \in DOMAIN fs : ty(fs[i].f) # TError /\ Wrong(js[i].ty, ty(fs[i].f)),
                 "record-field-type")
  IN  CASE j.ty = TError -> Typed(TError, {}, <<j>>)
        [] j.ty # TError /\ j.ty[1] # "Named" -> Typed(TError, {"record-update-base"}, <<j>>)
        [] j.ty[1] = "Named" /\ j.ty[2] \notin DOMAIN G.structs -> Typed(TError, {"record-type"}, <<j>>)
        [] OTHER -> Typed(IF ds = {} THEN j.ty ELSE TError, ds, <<j>> \o js)

(* infer_array_expr: elements of one type, at least one.                   *)
InferArray(js) ==
  LET ds == When(js = <<>>, "array-empty") \cup
            When(\E i \in 2 .. Len(js) : Wrong(js[i].ty, js[1].ty), "array-element-type")
  IN  Typed(IF ds = {} /\ \A i \in DOMAIN js : js[i].ty # TError
            THEN TArray(js[1].ty, Len(js)) ELSE TError, ds, js)

InferIndex(base, index) ==
  LET elements == IsList(base.ty) \/ IsArray(base.ty)
      ty == IF elements THEN base.ty[2] ELSE IF base.ty = TText THEN TI32 ELSE TError
  IN  Typed(IF index.ty = TError THEN TError ELSE ty,
            When(Wrong(index.ty, TI32), "array-index-type") \cup
            When(~elements /\ Wrong(base.ty, TText), "array-index-base"), <<base, index>>)

(* infer_if_expr: the condition and both bodies are typed as executable    *)
(* code even inside a contract.                                            *)
InferIf(c, t, f) ==
  LET same == TypesCompatible(t.ty, f.ty)
  IN  Typed(IF TError \in {c.ty, t.ty, f.ty} \/ ~same THEN TError ELSE t.ty,
            When(Wrong(c.ty, TBool), "if-condition") \cup When(~same, "if-branch-type"), <<c, t, f>>)

(* infer_contract_result_expr                                              *)
InferResult(S, c) ==
  Typed(IF "result" \in DOMAIN S.locals THEN S.locals["result"] ELSE TError,
        When(c # "ensures", "contract-result-context"), <<>>)

InferName(G, S, x) ==
  IF x \in DOMAIN S.locals THEN Typed(S.locals[x], {}, <<>>)
  ELSE IF x \in DOMAIN G.consts THEN Typed(G.consts[x], {}, <<>>)
  ELSE Typed(TError, {"unknown-name"}, <<>>)

(* infer_match_expr, after its parts: j the scrutinee, js the arms' bodies. *)
Variants(G, ty) == IF ty[1] = "Named" /\ ty[2] \in DOMAIN G.enums THEN G.enums[ty[2]] ELSE <<>>
InferMatch(G, arms, j, js) ==
  LET known == j.ty \in {TI32, TBool, TText} \/ Variants(G, j.ty) # <<>>
      ds == When(~known /\ j.ty # TError, "match-scrutinee") \cup
            When(known /\ ~MatchAccepted(Variants(G, j.ty), j.ty, arms), "match-pattern") \cup
            When(\E i \in 2 .. Len(js) : ~TypesCompatible(js[1].ty, js[i].ty), "match-branch-type")
  IN  Typed(IF ds # {} \/ \E i \in DOMAIN js : js[i].ty = TError THEN TError
            ELSE IF js = <<>> THEN TUnit ELSE js[1].ty, ds, <<j>> \o js)

(* The payload an arm's pattern binds, in the scope of its body.           *)
ArmScope(G, S, ty, p) ==
  IF p.k = "variant" /\ p.x # NoName /\ \E i \in DOMAIN Variants(G, ty) : Variants(G, ty)[i].name = p.v
  THEN LET payload == VariantOf(G, ty[2], p.v).payload
       IN  IF payload = TUnit THEN S ELSE [S EXCEPT !.locals = (p.x :> payload) @@ @]
  ELSE S
----------------------------------------------------------------------------
(* contains_forbidden_comptime_effect: what a comptime block may not do.   *)
(* Fields and indices are not looked into.                                 *)
RECURSIVE Forbidden(_), ForbiddenBody(_)
Forbidden(e) ==
  CASE e.k = "perform" -> TRUE
    [] e.k = "call" -> e.f \in ForbiddenCalls \/ \E i \in DOMAIN e.es : Forbidden(e.es[i])
    [] e.k \in {"ctor", "array"} -> \E i \in DOMAIN e.es : Forbidden(e.es[i])
    [] e.k = "record" -> \E i \in DOMAIN e.fs : Forbidden(e.fs[i].e)
    [] e.k = "update" -> Forbidden(e.e) \/ \E i \in DOMAIN e.fs : Forbidden(e.fs[i].e)
    [] e.k \in {"not", "len"} -> Forbidden(e.e)
    [] e.k = "bin" -> Forbidden(e.l) \/ Forbidden(e.r)
    [] e.k = "if" -> Forbidden(e.c) \/ ForbiddenBody(e.t) \/ ForbiddenBody(e.f)
    [] e.k = "match" -> Forbidden(e.e) \/ \E i \in DOMAIN e.arms : ForbiddenBody(e.arms[i].b)
    [] e.k = "while" -> Forbidden(e.c) \/ ForbiddenBody(e.b)
    [] e.k = "repeat" -> Forbidden(e.n) \/ ForbiddenBody(e.b)
    [] e.k \in {"comptime", "handle"} -> ForbiddenBody(e.b)
    [] OTHER -> FALSE
ForbiddenBody(b) ==
  \/ Forbidden(b.tail)
  \/ \E i \in DOMAIN b.ss :
       LET s == b.ss[i] IN IF s.k = "arena" THEN ForbiddenBody(s.b) ELSE Forbidden(s.e)

InferComptime(b, j) ==
  IF ForbiddenBody(b) THEN Typed(TError, {"comptime-effect"}, <<j>>) ELSE j

(* infer_perform_expr: an operation of an effect that is not the system's  *)
(* is accepted as it stands, and has type Unit.                            *)
InferPerform(G, op, js) ==
  IF op[1] \notin DOMAIN SystemMethods \/ op[2] \notin DOMAIN SystemMethods[op[1]]
  THEN Typed(TUnit, {}, js)
  ELSE LET M == SystemMethods[op[1]][op[2]]
           ds == When(Missing(G, op[1]), "missing-effect")
           fits(i) == ~Wrong(js[i].ty, M.params[i])
                      \/ (op = <<"SystemFile", "write">> /\ i = 2 /\ js[i].ty = TText)
       IN  IF Len(js) # Len(M.params) THEN Typed(TError, ds \cup {"perform-arity"}, js)
           ELSE Typed(M.returns, ds \cup When(\E i \in DOMAIN js : ~fits(i), "perform-arg-type"), js)

InferRepeat(S, c, x, n, b) ==
  Typed(TUnit, When(~Executable(c), "repeat-position") \cup When(Wrong(n.ty, TI32), "repeat-count") \cup
               When(x # NoName /\ x \in DOMAIN S.locals, "duplicate-local"), <<n, b>>)

InferWhile(c, cond, b) ==
  Typed(TUnit, When(~Executable(c), "while-position") \cup When(Wrong(cond.ty, TBool), "while-condition"),
        <<cond, b>>)
----------------------------------------------------------------------------
RECURSIVE Infer(_, _, _, _), InferFrom(_, _, _)

(* infer_body: the statements in order, then the tail, Unit if there is none. *)
Rest(b) == [b EXCEPT !.ss = Tail(@)]
InferBody(G, S, b) == InferFrom(G, [S EXCEPT !.rejected = {}, !.ds = {}, !.calls = {}], b)
InferTail(S, j) == [j EXCEPT !.ds = @ \cup S.ds, !.calls = @ \cup S.calls]

(* infer_expr: the judgement of an expression in scope S and context c, or *)
(* of a body, whose context is always that of executable code.             *)
Infer(G, S, c, e) ==
  LET sub(x) == Infer(G, S, Inner(c), x)
      subs(es) == [i \in DOMAIN es |-> sub(es[i])]
      parts(fs) == [i \in DOMAIN fs |-> sub(fs[i].e)]
      run(x) == Infer(G, S, "body", x)
  IN  IF "ss" \in DOMAIN e THEN InferBody(G, S, e)
      ELSE CASE e.k = "int" -> Typed(TI32, {}, <<>>)
        [] e.k = "bool" -> Typed(TBool, {}, <<>>)
        [] e.k = "text" -> Typed(TText, {}, <<>>)
        [] e.k = "name" -> InferName(G, S, e.x)
        [] e.k = "result" -> InferResult(S, c)
        [] e.k = "not" -> InferNot(sub(e.e))
        [] e.k = "bin" -> InferBinary(e.op, sub(e.l), sub(e.r))
        [] e.k = "call" -> InferCall(G, c, e.f, e.es, subs(e.es))
        [] e.k = "ctor" -> InferCtor(G, e.v, subs(e.es))
        [] e.k = "array" -> InferArray(subs(e.es))
        [] e.k = "len" -> InferLen(sub(e.e))
        [] e.k = "index" -> InferIndex(sub(e.e), sub(e.i))
        [] e.k = "field" -> InferField(G, sub(e.e), e.f)
        [] e.k = "record" -> InferRecord(G, e.n, e.fs, parts(e.fs))
        [] e.k = "update" -> InferUpdate(G, sub(e.e), e.fs, parts(e.fs))
        [] e.k = "if" -> InferIf(run(e.c), run(e.t), run(e.f))
        [] e.k = "match" ->
             LET j == sub(e.e)
             IN  InferMatch(G, e.arms, j,
                   [i \in DOMAIN e.arms |-> Infer(G, ArmScope(G, S, j.ty, e.arms[i].p), "body", e.arms[i].b)])
        [] e.k = "repeat" ->
             LET T == IF e.x = NoName \/ e.x \in DOMAIN S.locals THEN S
                      ELSE [S EXCEPT !.locals = (e.x :> TI32) @@ @]
             IN  InferRepeat(S, c, e.x, run(e.n), Infer(G, T, "body", e.b))
        [] e.k = "while" -> InferWhile(c, run(e.c), run(e.b))
        [] e.k = "comptime" -> InferComptime(e.b, run(e.b))
        [] e.k = "perform" -> InferPerform(G, e.op, [i \in DOMAIN e.es |-> run(e.es[i])])
        [] e.k = "handle" -> run(e.b)

(* handle_let_statement: an immutable binding may shadow, a mutable one    *)
(* may not, nor may it hold affine values other than the plain handles.    *)
Declare(G, S, s, ty) ==
  LET refused == s.mut /\ ContainsAffine(G, ty, {}) /\ ~MutableAllowed(ty)
      fresh == [S EXCEPT !.mut = @ \ {s.x}, !.locals = (s.x :> ty) @@ @]
  IN  CASE s.x = "_" -> S
        [] s.x # "_" /\ s.x \in DOMAIN S.locals /\ s.mut -> [S EXCEPT !.ds = @ \cup {"duplicate-local"}]
        [] s.x # "_" /\ ~s.mut -> fresh
        [] OTHER -> IF refused
                    THEN [fresh EXCEPT !.ds = @ \cup {"mutable-affine"}, !.rejected = @ \cup {s.x}]
                    ELSE [fresh EXCEPT !.mut = @ \cup {s.x}]

(* handle_assign_statement, after its parts: the type the target expects,  *)
(* TError when the target itself was reported, and the value's type.       *)
Store(S, x, expected, ty, retypes) ==
  CASE x \in S.rejected -> S
    [] x \notin S.rejected /\ x \notin S.mut -> [S EXCEPT !.ds = @ \cup {"assign-immutable"}]
    [] OTHER -> IF TError \notin {ty, expected}
                THEN [S EXCEPT !.ds = @ \cup When(ty # expected, "assign-type")]
                ELSE IF retypes THEN [S EXCEPT !.locals[x] = ty] ELSE S
AssignTo(G, S, s, ty) ==
  LET local == s.x \in DOMAIN S.locals
      current == S.locals[s.x]
      expected == CASE s.k = "assign" -> current
                    [] s.k = "assignAt" -> Element(current)
                    [] s.k = "assignField" -> FieldType(G, current, s.f)
      illegal == \/ s.k = "assignAt" /\ ~IsList(current) /\ ~IsArray(current)
                 \/ s.k = "assignField" /\ expected = TError
  IN  CASE ~local -> [S EXCEPT !.ds = @ \cup {"assign-unknown"}]
        [] local /\ illegal -> [S EXCEPT !.ds = @ \cup {"assign-target"}]
        [] OTHER -> Store(S, s.x, expected, ty, s.k # "assignField")

(* infer_body_statements, in the scope S that those before left.  The tail *)
(* of an arena's body is not looked at, and its calls take the place of    *)
(* those before it.                                                        *)
InferFrom(G, S, b) ==
  IF b.ss = <<>>
  THEN InferTail(S, IF b.tail = NoExpr THEN Typed(TUnit, {}, <<>>) ELSE Infer(G, S, "body", b.tail))
  ELSE LET s == Head(b.ss)
           after(js) == [S EXCEPT !.ds = @ \cup UNION {j.ds : j \in js},
                                  !.calls = @ \cup UNION {j.calls : j \in js}]
           j == Infer(G, S, IF s.k = "let" THEN "statement" ELSE "body", s.e)
           i == Infer(G, S, "body", s.i)
           arena == Infer(G, S, "body", [s.b EXCEPT !.tail = NoExpr])
           T == CASE s.k = "let" -> Declare(G, after({j}), s, j.ty)
                  [] s.k = "do" -> after({j})
                  [] s.k \in {"assign", "assignField"} -> AssignTo(G, after({j}), s, j.ty)
                  [] s.k = "assignAt" ->
                       AssignTo(G, [after({i, j}) EXCEPT
                                      !.ds = @ \cup When(Wrong(i.ty, TI32), "array-index-type")], s, j.ty)
                  [] s.k = "arena" -> [S EXCEPT !.ds = @ \cup arena.ds, !.calls = arena.calls]
       IN  InferFrom(G, T, Rest(b))
----------------------------------------------------------------------------
Scope(locals) == [locals |-> locals, mut |-> {}, rejected |-> {}, ds |-> {}, calls |-> {}]
NoLocals == Scope([x \in {} |-> TUnit])

(* analyze, of a constant: its type, and no call with effects.             *)
CheckConst(G, ty, e) ==
  UNION {j.ds \cup When(Wrong(j.ty, ty), "const-type")
              \cup When(\E f \in j.calls : G.functions[f].effects # {}, "const-expr") :
           j \in {Infer([G EXCEPT !.effects = {}], NoLocals, "requires", e)}}

(* analyze, of a function: both contracts are Bool, and the body has the   *)
(* return type.  F declares params, types, returns, requires, ensures and  *)
(* body; its effects are those of its signature in G.                      *)
ParamTypes(F) == [x \in ToSet(F.params) |-> F.types[CHOOSE i \in DOMAIN F.params : F.params[i] = x]]
CheckClause(G, S, c, e) ==
  IF e = NoExpr THEN {}
  ELSE UNION {j.ds \cup When(Wrong(j.ty, TBool), "contract-type") : j \in {Infer(G, S, c, e)}}
CheckBody(G, S, b, returns) ==
  UNION {j.ds \cup When(~TypesCompatible(j.ty, returns), "return-type") : j \in {Infer(G, S, "body", b)}}
CheckFunction(G, f, F) ==
  LET clash == "result" \in ToSet(F.params)
      result(L) == IF clash THEN L ELSE ("result" :> F.returns) @@ L
  IN  UNION {CheckClause(H, Scope(L), "requires", F.requires)
               \cup CheckClause(H, Scope(result(L)), "ensures", F.ensures)
               \cup When(F.ensures # NoExpr /\ clash, "contract-result-conflict")
               \cup CheckBody(H, Scope(L), F.body, F.returns) :
               H \in {[G EXCEPT !.effects = G.functions[f].effects]}, L \in {ParamTypes(F)}}
=============================================================================
