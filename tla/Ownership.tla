------------------------------ MODULE Ownership ------------------------------
(***************************************************************************)
(* The affine ownership check of sarif_frontend/src/ownership.rs: which    *)
(* parts of its parameters a function consumes (infer_function_param_modes) *)
(* and whether a body consumes some affine value twice (AffineUseChecker). *)
(*                                                                         *)
(* A path is a local and the fields below it, <<"x", "a">>; the payload of *)
(* a matched value is the field "$payload" of what was matched.  A mode    *)
(* (ParamUsage and UsageContext) is the sequence of paths below a value    *)
(* that are consumed: none when it is borrowed, the empty path when it is  *)
(* consumed whole.                                                         *)
(*                                                                         *)
(* G is the G of TypeCheck whose functions also have `usages`, the modes   *)
(* of their parameters.                                                    *)
(***************************************************************************)
EXTENDS TypeCheck

Borrow == <<>>
Whole == <<<<>>>>
Payload == "$payload"
NoType == TError     \* Option::None where a type is looked for
NoPath == <<>>       \* Option::None where a path is looked for

(* is_affine_type_inner: the walk of type_contains_affine_values.          *)
Affine(G, ty) == ContainsAffine(G, ty, {})

(* AffineMove::overlaps                                                    *)
Overlaps(p, q) == IsPrefix(p, q) \/ IsPrefix(q, p)

(* ParamUsage::record_path: a path already covered by a shorter one is     *)
(* kept beside it, longer ones go.                                         *)
RecordPath_Whole(u, p) == Whole
RecordPath(u, p) ==
  IF u = Whole \/ p = <<>> THEN Whole
  ELSE LET kept == SelectSeq(u, LAMBDA q : ~IsPrefix(p, q) \/ q = p)
       IN  IF \E i \in DOMAIN kept : kept[i] = p THEN kept ELSE Append(kept, p)

(* UsageContext::project: the mode of a base some field of which has mode c. *)
Project(c, f) == [i \in DOMAIN c |-> <<f>> \o c[i]]

(* project_record_field, project_path_field and project_paths_field: the   *)
(* mode of the value given for a field of a record of mode c.              *)
ProjectField(c, f) ==
  IF \E i \in DOMAIN c : c[i] \in {<<>>, <<f>>} THEN Whole
  ELSE LET below == SelectSeq(c, LAMBDA p : Head(p) = f)
       IN  [i \in DOMAIN below |-> Tail(below[i])]

NoAliases == [x \in {} |-> NoPath]

(* access_path_for_ownership_with_aliases                                  *)
RECURSIVE AccessPath(_, _)
AccessPath(aliases, e) ==
  CASE e.k = "name" -> IF e.x \in DOMAIN aliases THEN aliases[e.x] ELSE <<e.x>>
    [] e.k = "result" -> <<"result">>
    [] e.k = "not" -> AccessPath(aliases, e.e)
    [] e.k = "field" -> LET p == AccessPath(aliases, e.e)
                        IN  IF p = NoPath THEN NoPath ELSE Append(p, e.f)
    [] OTHER -> NoPath

(* body_falls_through, expr_falls_through: only a match without arms does  *)
(* not.                                                                    *)
RECURSIVE FallsThrough(_), BodyFallsThrough(_)
FallsThrough(e) ==
  CASE e.k = "if" -> BodyFallsThrough(e.t) \/ BodyFallsThrough(e.f)
    [] e.k = "match" -> \E i \in DOMAIN e.arms : BodyFallsThrough(e.arms[i].b)
    [] e.k = "not" -> FallsThrough(e.e)
    [] e.k = "comptime" -> BodyFallsThrough(e.b)
    [] OTHER -> TRUE
BodyFallsThrough(b) ==
  /\ \A i \in DOMAIN b.ss : /\ b.ss[i].k = "do" => FallsThrough(b.ss[i].e)
                            /\ b.ss[i].k = "arena" => BodyFallsThrough(b.ss[i].b)
  /\ FallsThrough(b.tail)

(* is_borrow_only_builtin, is_text_scan_builtin                            *)
ScanBuiltins == DOMAIN RangeScans \cup DOMAIN LineScans
BorrowBuiltins ==
  {"len", "text_len", "bytes_len", "text_slice", "bytes_slice", "bytes_materialize", "text_byte",
   "bytes_byte", "bytes_byte_i64", "bytes_load_i32_i64", "bytes_load_i64_i64", "bytes_load_f32_i64",
   "bytes_slice_i64", "text_cmp", "text_eq_range", "text_intern", "text_promote",
   "text_builder_append_i32", "parse_i32_range", "text_builder_append_codepoint",
   "text_builder_append_ascii", "text_builder_append_slice", "text_index_get", "text_index_contains",
   "text_index_set", "text_index_get_or_insert", "list_len", "list_get"} \cup ScanBuiltins

(* is_borrow_only_effect_method                                            *)
BorrowMethods ==
  ({"SystemFile"} \X {"is_valid", "read", "read_to_end", "size", "seek", "exists", "remove", "mmap",
                      "write", "sync"})
  \cup ({"SystemEnv"} \X {"get", "arg_count", "arg_text", "keys"})
  \cup ({"SystemIO"} \X {"stdin_text", "stdin_bytes"})
----------------------------------------------------------------------------
(* The types the check works with, read off an expression: none for a call *)
(* of a function of the program, an operator or a payload constructor.     *)
KnownResults ==
  [f \in {"text_builder_new", "text_builder_append", "text_builder_append_codepoint",
          "text_builder_append_ascii", "text_builder_append_slice", "text_builder_append_i32"} |-> TBuilder]
  @@ [f \in {"text_index_new", "text_index_set"} |-> TIndex]
  @@ [f \in {"list_len", "text_index_get", "text_index_contains", "text_index_get_or_insert",
             "bytes_len", "bytes_byte", "parse_i32_range"} \cup ScanBuiltins |-> TI32]
  @@ [text_builder_finish |-> TText, bytes_slice |-> TBytes, text_eq_range |-> TBool]
CallType(f, ts) ==
  CASE f \in DOMAIN KnownResults -> KnownResults[f]
    [] f = "list_new" /\ Len(ts) > 1 -> IF ts[2] = NoType THEN NoType ELSE TList(ts[2])
    [] f = "list_get" /\ ts # <<>> -> IF IsList(ts[1]) THEN ts[1][2] ELSE NoType
    [] f = "list_from" /\ ts # <<>> -> IF IsArray(ts[1]) THEN TList(ts[1][2]) ELSE NoType
    [] f \in {"list_set", "list_push", "list_sort_text", "list_sort_by_field", "list_sort_by_text_field"}
         /\ ts # <<>> -> ts[1]
    [] OTHER -> NoType

(* The type of all of ts, if they have one.                                *)
Common(ts) == IF ts # <<>> /\ \A i \in DOMAIN ts : ts[i] = Last(ts) THEN Last(ts) ELSE NoType

RECURSIVE OwnType(_, _, _), OwnBodyType(_, _, _)

(* body_type_for_ownership: none as soon as some statement has none.       *)
OwnBodyType(G, L, b) ==
  IF b.ss = <<>> THEN IF b.tail = NoExpr THEN TUnit ELSE OwnType(G, L, b.tail)
  ELSE LET s == Head(b.ss)
           ty == OwnType(G, L, IF s.k = "arena" THEN s.b ELSE s.e)
           M == CASE s.k = "let" -> L @@ (s.x :> ty)
                  [] s.k = "assign" /\ s.x \in DOMAIN L -> (s.x :> ty) @@ L
                  [] OTHER -> L
       IN  IF ty = NoType THEN NoType ELSE OwnBodyType(G, M, Rest(b))

(* expr_type_for_ownership, of an expression or a body; L holds the types  *)
(* of the locals, and of "result" in a contract.                           *)
OwnType(G, L, e) ==
  LET of(x) == OwnType(G, L, x)
      types(es) == [i \in DOMAIN es |-> of(es[i])]
  IN  IF "ss" \in DOMAIN e THEN OwnBodyType(G, L, e)
      ELSE CASE e.k = "int" -> TI32
        [] e.k = "bool" -> TBool
        [] e.k = "text" -> TText
        [] e.k \in {"name", "result"} ->
             LET x == IF e.k = "name" THEN e.x ELSE "result"
             IN  IF x \in DOMAIN L THEN L[x] ELSE NoType
        [] e.k = "not" -> of(e.e)
        [] e.k = "comptime" -> of(e.b)
        [] e.k = "if" -> Common(types(<<e.t, e.f>>))
        [] e.k = "match" ->
             Common(SelectSeq([i \in DOMAIN e.arms |-> of(e.arms[i].b)],
                              LAMBDA ty : ty # NoType))
        [] e.k \in {"repeat", "while"} -> TUnit
        [] e.k = "array" -> LET ty == Common(types(e.es))
                            IN  IF ty = NoType THEN NoType ELSE TArray(ty, Len(e.es))
        [] e.k = "index" -> LET ty == of(e.e)
                            IN  IF ty \in {TText, TBytes} THEN TI32 ELSE Element(ty)
        [] e.k = "field" ->
             LET ty == of(e.e)
             IN  IF e.f = "len" /\ (IsArray(ty) \/ IsList(ty) \/ ty \in {TText, TBytes}) THEN TI32
                 ELSE FieldType(G, ty, e.f)
        [] e.k = "record" -> TNamed(e.n)
        [] e.k = "update" -> of(e.e)
        [] e.k = "ctor" -> IF e.es = <<>> /\ EnumOf(G, e.v) # {}
                           THEN TNamed(CHOOSE n \in EnumOf(G, e.v) : TRUE) ELSE NoType
        [] e.k = "call" -> CallType(e.f, types(e.es))
        [] e.k = "perform" ->
             IF e.op[1] \in DOMAIN SystemMethods /\ e.op[2] \in DOMAIN SystemMethods[e.op[1]]
             THEN SystemMethods[e.op[1]][e.op[2]].returns ELSE TUnit
        [] OTHER -> NoType

(* The locals after a let: a name keeps the type it had first.             *)
AfterLet(G, L, s) ==
  LET ty == OwnType(G, L, s.e)
  IN  IF s.x \in DOMAIN L \/ ty = NoType THEN L ELSE L @@ (s.x :> ty)

(* match_arm_payload_binding and payload_alias_for_scrutinee: the type and *)
(* the path of the payload an arm binds.                                   *)
ArmType(G, L, e, p) ==
  LET ty == OwnType(G, L, e)
      vs == Variants(G, ty)
      i == SelectInSeq(vs, LAMBDA v : v.name = p.v)
  IN  IF p.k # "variant" THEN NoType
      ELSE IF p.x = NoName \/ i = 0 THEN NoType
      ELSE IF vs[i].payload = TUnit THEN NoType ELSE vs[i].payload
ArmPath(A, e) == LET p == AccessPath(A, e) IN IF p = NoPath THEN NoPath ELSE Append(p, Payload)
----------------------------------------------------------------------------
(* The modes of parameters.  U maps each name met so far to the mode of    *)
(* its uses; A holds the paths that payload bindings stand for.            *)

(* record_usage_for_target: a use of mode c of what is at path p.          *)
RecordUsage(U, p, c) ==
  LET old == IF p[1] \in DOMAIN U THEN U[p[1]] ELSE Borrow
  IN  (p[1] :> FoldLeft(LAMBDA u, q : RecordPath(u, Tail(p) \o q), old, c)) @@ U

RECURSIVE Modes(_, _, _, _, _, _), ModesAll(_, _, _, _, _, _), ModesFields(_, _, _, _, _, _),
          ArgumentModes(_, _, _, _, _, _), ModesArgs(_, _, _, _, _, _), FieldArguments(_, _, _, _, _, _),
          ModesArms(_, _, _, _, _, _), ModesBody(_, _, _, _, _, _)

(* collect_param_modes: the uses in e, an expression or a body, when its   *)
(* value is used in mode c.                                                *)
Modes(G, L, A, e, c, U) ==
  IF "ss" \in DOMAIN e THEN ModesBody(G, L, A, e, c, U)
  ELSE CASE e.k = "name" ->
         IF e.x \notin DOMAIN L THEN U
         ELSE IF ~Affine(G, L[e.x]) THEN U ELSE RecordUsage(U, AccessPath(A, e), c)
    [] e.k = "not" -> Modes(G, L, A, e.e, c, U)
    [] e.k = "bin" -> ModesAll(G, L, A, <<e.l, e.r>>, IF e.op \in {"Eq", "Ne"} THEN Borrow ELSE c, U)
    [] e.k = "call" -> ModesArgs(G, L, A, e, 1, U)
    [] e.k = "ctor" -> ModesAll(G, L, A, e.es, Whole, U)
    [] e.k \in {"array", "index"} ->
         ModesAll(G, L, A, IF e.k = "array" THEN e.es ELSE <<e.e, e.i>>, Borrow, U)
    [] e.k = "len" -> Modes(G, L, A, e.e, Borrow, U)
    [] e.k = "field" ->
         LET ty == OwnType(G, L, e)
             borrowed == ty # NoType /\ ~Affine(G, ty)
         IN  Modes(G, L, A, e.e, IF borrowed THEN Borrow ELSE Project(c, e.f), U)
    [] e.k = "record" -> ModesFields(G, L, A, e.fs, c, U)
    [] e.k = "update" -> ModesFields(G, L, A, e.fs, c, Modes(G, L, A, e.e, c, U))
    [] e.k = "perform" -> ModesAll(G, L, A, e.es, c, U)
    [] e.k = "comptime" -> Modes(G, L, A, e.b, Whole, U)
    [] e.k = "if" ->
         Modes(G, L, A, e.f, Whole, Modes(G, L, A, e.t, Whole, Modes(G, L, A, e.c, Borrow, U)))
    [] e.k = "match" -> ModesArms(G, L, A, e, 1, Modes(G, L, A, e.e, Borrow, U))
    [] e.k = "repeat" ->
         LET M == IF e.x = NoName THEN L ELSE (e.x :> TI32) @@ L
         IN  Modes(G, M, A, e.b, Borrow, Modes(G, L, A, e.n, Borrow, U))
    [] e.k = "while" -> Modes(G, L, A, e.b, Whole, Modes(G, L, A, e.c, Borrow, U))
    [] OTHER -> U

ModesAll(G, L, A, es, c, U) ==
  IF es = <<>> THEN U ELSE ModesAll(G, L, A, Tail(es), c, Modes(G, L, A, Head(es), c, U))
ModesFields(G, L, A, fs, c, U) ==
  IF fs = <<>> THEN U
  ELSE ModesFields(G, L, A, Tail(fs), c,
                   Modes(G, L, A, Head(fs).e, ProjectField(c, Head(fs).f), U))

(* The arguments of a call from the i-th on: by the modes of a function's  *)
(* parameters, or all alike for a builtin.                                 *)
ModesArgs(G, L, A, e, i, U) ==
  IF i > Len(e.es) THEN U
  ELSE LET known == e.f \in DOMAIN G.functions
           usage == IF ~known THEN IF e.f \in BorrowBuiltins THEN Borrow ELSE Whole
                    ELSE IF i \in DOMAIN G.functions[e.f].usages THEN G.functions[e.f].usages[i] ELSE Whole
       IN  ModesArgs(G, L, A, e, i + 1, ArgumentModes(G, L, A, e.es[i], usage, U))

(* collect_argument_modes, with usage_context_for_argument: a record       *)
(* literal is taken apart, and what is no path is consumed whole.          *)
ArgumentModes(G, L, A, e, usage, U) ==
  CASE usage \in {Borrow, Whole} -> Modes(G, L, A, e, usage, U)
    [] usage \notin {Borrow, Whole} /\ e.k = "record" -> FieldArguments(G, L, A, e.fs, usage, U)
    [] OTHER -> Modes(G, L, A, e, IF AccessPath(A, e) = NoPath THEN Whole ELSE usage, U)
FieldArguments(G, L, A, fs, usage, U) ==
  IF fs = <<>> THEN U
  ELSE FieldArguments(G, L, A, Tail(fs), usage,
                      ArgumentModes(G, L, A, Head(fs).e, ProjectField(usage, Head(fs).f), U))

(* The arms of a match from the i-th on.                                   *)
ModesArms(G, L, A, e, i, U) ==
  IF i > Len(e.arms) THEN U
  ELSE LET arm == e.arms[i]
           ty == ArmType(G, L, e.e, arm.p)
           p == ArmPath(A, e.e)
           M == IF ty = NoType THEN L ELSE (arm.p.x :> ty) @@ L
           B == IF NoType = ty \/ p = NoPath THEN A ELSE (arm.p.x :> p) @@ A
       IN  ModesArms(G, L, A, e, i + 1, Modes(G, M, B, arm.b, Whole, U))

(* collect_body_param_modes, and for c = Borrow (the body of a repeat)     *)
(* collect_body_param_modes_borrow_only: nothing after a statement that    *)
(* control does not fall through.                                          *)
Stuck(s) == \/ s.k = "do" /\ ~FallsThrough(s.e)
            \/ s.k = "arena" /\ ~BodyFallsThrough(s.b)
ModesBody(G, L, A, b, c, U) ==
  IF b.ss = <<>> THEN IF b.tail = NoExpr THEN U ELSE Modes(G, L, A, b.tail, c, U)
  ELSE LET s == Head(b.ss)
           V == CASE s.k = "arena" -> Modes(G, L, A, s.b, c, U)
                  [] s.k = "assignAt" -> ModesAll(G, L, A, <<s.e>>, c, Modes(G, L, A, s.i, Borrow, U))
                  [] OTHER -> Modes(G, L, A, s.e, c, U)
       IN  IF Stuck(s) THEN V
           ELSE ModesBody(G, IF s.k = "let" THEN AfterLet(G, L, s) ELSE L, A, Rest(b), c, V)

(* infer_function_param_modes, of the parameters' types L: contracts       *)
(* borrow, then comes the body, and a parameter that is not affine is      *)
(* passed whole.                                                           *)
ContractModes(G, L, F) ==
  ModesAll(G, L, NoAliases, SelectSeq(<<F.requires, F.ensures>>, LAMBDA e : e # NoExpr), Borrow,
           [x \in ToSet(F.params) |-> Borrow])
BodyModes(G, L, F, U) == Modes(G, L, NoAliases, F.body, Whole, U)
ParamModes(G, F, U) == [i \in DOMAIN F.params |-> IF Affine(G, F.types[i]) THEN U[F.params[i]] ELSE Whole]
----------------------------------------------------------------------------
(* The check of a body or a contract.  K is the AffineUseChecker: the      *)
(* types of the locals, the mutable ones, the paths of payload bindings,   *)
(* the roots a loop protects, the paths consumed, whether it is a contract *)
(* and what was reported.                                                  *)

(* record_body_move, record_contract_move                                  *)
Consume(K, p) ==
  LET report(code) == [K EXCEPT !.ds = @ \cup {code}]
  IN  IF K.contract THEN report("contract-affine-move")
      ELSE IF p[1] \in K.protected THEN report("repeat-affine-capture")
      ELSE IF \E i \in DOMAIN K.moves : Overlaps(K.moves[i], p) THEN report("affine-reuse")
      ELSE [K EXCEPT !.moves = Append(@, p)]

(* union_move: of two overlapping paths the shorter is kept.               *)
UnionMove(moves, p) ==
  LET i == SelectInSeq(moves, LAMBDA q : Overlaps(q, p))
  IN  IF i = 0 THEN Append(moves, p)
      ELSE IF IsPrefix(p, moves[i]) THEN [moves EXCEPT ![i] = p] ELSE moves

(* What K knows after branches that started from it and ended as Ks: what  *)
(* any of those that fall through consumed is consumed.                    *)
Join_First(K, Ks, through) ==
  [K EXCEPT !.moves = IF through[1] THEN Ks[1].moves ELSE @, !.ds = @ \cup UNION {Ks[i].ds : i \in DOMAIN Ks}]
Join(K, Ks, through) ==
  LET news == [i \in DOMAIN Ks |->
                 IF through[i] THEN SubSeq(Ks[i].moves, Len(K.moves) + 1, Len(Ks[i].moves)) ELSE <<>>]
  IN  [K EXCEPT !.moves = FoldLeft(UnionMove, @, FlattenSeq(news)),
                !.ds = @ \cup UNION {Ks[i].ds : i \in DOMAIN Ks}]

RECURSIVE Collect(_, _, _, _), CollectAll(_, _, _, _), CollectWithUsage(_, _, _, _),
          CollectArgs(_, _, _, _), CollectFields(_, _, _, _), CollectBody(_, _, _)

(* collect, of a name and of a field: an affine value that is not borrowed *)
(* is consumed at its path.  Mutable locals are not followed.              *)
CollectName(G, K, e, borrow) ==
  IF e.x \notin DOMAIN K.locals THEN K
  ELSE IF borrow \/ e.x \in K.mut \/ ~Affine(G, K.locals[e.x]) THEN K
  ELSE Consume(K, AccessPath(K.aliases, e))
CollectField(G, K, e, borrow) ==
  LET ty == OwnType(G, K.locals, e)
      p == AccessPath(K.aliases, e)
  IN  IF borrow \/ (ty # NoType /\ ~Affine(G, ty)) THEN Collect(G, K, e.e, TRUE)
      ELSE IF p = NoPath THEN Collect(G, K, e.e, FALSE) ELSE Consume(K, p)

(* A branch is checked without the protection of a loop around it; what a  *)
(* loop's body or a comptime block consumes is not kept.                   *)
Branch(K) == [K EXCEPT !.protected = {}]
CollectIf(G, K, e) ==
  LET C == Collect(G, K, e.c, TRUE)
  IN  Join(C, <<Collect(G, Branch(C), e.t, FALSE), Collect(G, Branch(C), e.f, FALSE)>>,
           <<BodyFallsThrough(e.t), BodyFallsThrough(e.f)>>)
ArmChecker(G, K, e, p) ==
  LET ty == ArmType(G, K.locals, e, p)
      path == ArmPath(K.aliases, e)
      B == Branch(K)
  IN  IF ty = NoType THEN B
      ELSE [B EXCEPT !.locals = (p.x :> ty) @@ @,
                     !.aliases = IF path = NoPath THEN @ ELSE (p.x :> path) @@ @]
CollectMatch(G, K, e) ==
  LET C == Collect(G, K, e.e, TRUE)
  IN  Join(C, [i \in DOMAIN e.arms |-> Collect(G, ArmChecker(G, C, e.e, e.arms[i].p), e.arms[i].b, FALSE)],
           [i \in DOMAIN e.arms |-> BodyFallsThrough(e.arms[i].b)])
Loop(K) == [K EXCEPT !.protected = DOMAIN K.locals \ K.mut]
CollectRepeat(G, K, e) ==
  LET C == Collect(G, K, e.n, TRUE)
      B == [Loop(C) EXCEPT !.locals = IF e.x = NoName THEN @ ELSE (e.x :> TI32) @@ @]
  IN  [C EXCEPT !.ds = Collect(G, B, e.b, FALSE).ds]
CollectWhile(G, K, e) ==
  [K EXCEPT !.ds = Collect(G, Collect(G, Loop(K), e.c, TRUE), e.b, FALSE).ds]
CollectComptime(G, K, e) == [K EXCEPT !.ds = Collect(G, Branch(K), e.b, FALSE).ds]

(* collect: what e consumes, its value being borrowed or not.              *)
Collect(G, K, e, borrow) ==
  IF "ss" \in DOMAIN e THEN CollectBody(G, K, e)
  ELSE CASE e.k = "name" -> CollectName(G, K, e, borrow)
    [] e.k = "field" -> CollectField(G, K, e, borrow)
    [] e.k = "ctor" ->
         LET ty == OwnType(G, K.locals, e)
         IN  IF e.es # <<>> THEN CollectAll(G, K, e.es, FALSE)
             ELSE IF borrow \/ ~Affine(G, ty) THEN K ELSE Consume(K, <<ty[2], e.v>>)
    [] e.k = "record" -> CollectAll(G, K, [i \in DOMAIN e.fs |-> e.fs[i].e], borrow)
    [] e.k = "update" ->
         CollectAll(G, Collect(G, K, e.e, borrow), [i \in DOMAIN e.fs |-> e.fs[i].e], borrow)
    [] e.k = "array" -> CollectAll(G, K, e.es, TRUE)
    [] e.k = "index" -> CollectAll(G, K, <<e.e, e.i>>, TRUE)
    [] e.k = "len" -> Collect(G, K, e.e, TRUE)
    [] e.k = "result" ->
         IF borrow \/ ~K.contract \/ "result" \notin DOMAIN K.locals THEN K
         ELSE IF Affine(G, K.locals["result"]) THEN Consume(K, <<"result">>) ELSE K
    [] e.k = "if" -> CollectIf(G, K, e)
    [] e.k = "match" -> CollectMatch(G, K, e)
    [] e.k = "repeat" -> CollectRepeat(G, K, e)
    [] e.k = "while" -> CollectWhile(G, K, e)
    [] e.k = "not" -> Collect(G, K, e.e, borrow)
    [] e.k = "comptime" -> CollectComptime(G, K, e)
    [] e.k = "call" -> CollectArgs(G, K, e, 1)
    [] e.k = "bin" -> CollectAll(G, K, <<e.l, e.r>>, borrow \/ e.op \in {"Eq", "Ne"})
    [] e.k = "perform" -> CollectAll(G, K, e.es, borrow \/ e.op \in BorrowMethods)
    [] OTHER -> K
CollectAll(G, K, es, borrow) ==
  IF es = <<>> THEN K ELSE CollectAll(G, Collect(G, K, Head(es), borrow), Tail(es), borrow)

(* The arguments of a call from the i-th on.                               *)
CollectArgs(G, K, e, i) ==
  IF i > Len(e.es) THEN K
  ELSE CollectArgs(G,
         CASE e.f \in DOMAIN G.functions ->
                CollectWithUsage(G, K, e.es[i], IF i \in DOMAIN G.functions[e.f].usages
                                                THEN G.functions[e.f].usages[i] ELSE Whole)
           [] OTHER -> Collect(G, K, e.es[i], e.f \in BorrowBuiltins),
         e, i + 1)

(* collect_with_usage: of an argument that is a path, the parts the callee *)
(* consumes; of a record literal, the fields; else all of it.              *)
CollectWithUsage(G, K, e, usage) ==
  LET p == AccessPath(K.aliases, e)
  IN  CASE usage = Borrow -> Collect(G, K, e, TRUE)
        [] usage = Whole -> Collect(G, K, e, FALSE)
        [] usage \notin {Borrow, Whole} /\ e.k = "record" -> CollectFields(G, K, e.fs, usage)
        [] OTHER -> IF p = NoPath THEN Collect(G, K, e, FALSE)
                    ELSE FoldLeft(LAMBDA k, q : Consume(k, p \o q), K, usage)
CollectFields(G, K, fs, usage) ==
  IF fs = <<>> THEN K
  ELSE CollectFields(G, CollectWithUsage(G, K, Head(fs).e, ProjectField(usage, Head(fs).f)), Tail(fs), usage)

(* collect_body_moves                                                      *)
CollectBody(G, K, b) ==
  IF b.ss = <<>> THEN IF b.tail = NoExpr THEN K ELSE Collect(G, K, b.tail, FALSE)
  ELSE LET s == Head(b.ss)
           C == CASE s.k = "arena" -> Collect(G, K, s.b, FALSE)
                  [] s.k = "assignAt" -> CollectAll(G, K, <<s.i, s.e>>, FALSE)
                  [] OTHER -> Collect(G, K, s.e, FALSE)
           D == [C EXCEPT !.mut = IF s.mut THEN @ \cup {s.x} ELSE @, !.locals = AfterLet(G, C.locals, s)]
       IN  IF Stuck(s) THEN C ELSE CollectBody(G, IF s.k = "let" THEN D ELSE C, Rest(b))

Checker(locals, contract) ==
  [locals |-> locals, mut |-> {}, aliases |-> NoAliases, protected |-> {}, moves |-> <<>>,
   contract |-> contract, ds |-> {}]

(* check_affine_body_ownership, check_contract_affine_ownership: what is   *)
(* reported of a function.                                                 *)
BodyOwnership(G, L, b) == Collect(G, Checker(L, FALSE), b, FALSE).ds
ContractOwnership(G, L, e) == IF e = NoExpr THEN {} ELSE Collect(G, Checker(L, TRUE), e, FALSE).ds
=============================================================================
