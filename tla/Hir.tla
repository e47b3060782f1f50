-------------------------------- MODULE Hir --------------------------------
(***************************************************************************)
(* The high-level program the compiler works on: the expression, statement *)
(* and pattern forms of sarif_frontend::hir that this model keeps, the     *)
(* values they denote, the check of `match` arms in semantic/exprcore.rs,  *)
(* and the expansion of `for` loops in sarif_syntax/src/ast.rs.            *)
(*                                                                         *)
(* Left out: Pair, generic parameters and const-generic array lengths,     *)
(* parentheses (they pass on what is inside), and 64-bit overflow.  The    *)
(* evaluators leave out records and lists too, which only the checks of a  *)
(* program see, and their programs have one enum, P.variants.              *)
(***************************************************************************)
EXTENDS Values, FiniteSets, TLC

(* Types of the language, as the lowering sees them (LowerType).           *)
TI32 == <<"I32">>
TBool == <<"Bool">>
TText == <<"Text">>
TUnit == <<"Unit">>
TError == <<"Error">>
TI64 == <<"I64">>
TF64 == <<"F64">>
TBytes == <<"Bytes">>
TBuilder == <<"TextBuilder">>
TFile == <<"File">>
TIndex == <<"TextIndex">>
TNamed(n) == <<"Named", n>>
TEnum == TNamed("E")
TList(elem) == <<"List", elem>>
TArray(elem, len) == <<"Array", elem, len>>

(* Expressions, statements and patterns.                                   *)
NoExpr == [k |-> "none"]
Lit(n) == [k |-> "int", n |-> n]
Bool(b) == [k |-> "bool", b |-> b]
Text(s) == [k |-> "text", s |-> s]
Name(x) == [k |-> "name", x |-> x]
Result == [k |-> "result"]
Not(e) == [k |-> "not", e |-> e]
Bin(op, l, r) == [k |-> "bin", op |-> op, l |-> l, r |-> r]
Call(f, es) == [k |-> "call", f |-> f, es |-> es]
Ctor(v, es) == [k |-> "ctor", v |-> v, es |-> es]
Array(es) == [k |-> "array", es |-> es]
LenOf(e) == [k |-> "len", e |-> e]
FieldOf(e, f) == [k |-> "field", e |-> e, f |-> f]
RecordOf(n, fs) == [k |-> "record", n |-> n, fs |-> fs]
UpdateOf(e, fs) == [k |-> "update", e |-> e, fs |-> fs]
With(f, e) == [f |-> f, e |-> e]
Index(e, i) == [k |-> "index", e |-> e, i |-> i]
If(c, t, f) == [k |-> "if", c |-> c, t |-> t, f |-> f]
Match(e, arms) == [k |-> "match", e |-> e, arms |-> arms]
While(c, b) == [k |-> "while", c |-> c, b |-> b]
Repeat(x, n, b) == [k |-> "repeat", x |-> x, n |-> n, b |-> b]
Comptime(b) == [k |-> "comptime", b |-> b]
Perform(op, es) == [k |-> "perform", op |-> op, es |-> es]
Handle(b, arms) == [k |-> "handle", b |-> b, arms |-> arms]

Body(ss, e) == [ss |-> ss, tail |-> e]
Let(x, e) == [k |-> "let", x |-> x, mut |-> FALSE, e |-> e]
LetMut(x, e) == [k |-> "let", x |-> x, mut |-> TRUE, e |-> e]
Assign(x, e) == [k |-> "assign", x |-> x, e |-> e]
AssignAt(x, i, e) == [k |-> "assignAt", x |-> x, i |-> i, e |-> e]
AssignField(x, f, e) == [k |-> "assignField", x |-> x, f |-> f, e |-> e]
Do(e) == [k |-> "do", e |-> e]
WithArena(b) == [k |-> "arena", b |-> b]

PInt(n) == [k |-> "int", n |-> n]
PRange(lo, hi) == [k |-> "range", lo |-> lo, hi |-> hi]
PBool(b) == [k |-> "bool", b |-> b]
PText(s) == [k |-> "text", s |-> s]
PVariant(v, x) == [k |-> "variant", v |-> v, x |-> x]
POr(ps) == [k |-> "or", ps |-> ps]
PWild == [k |-> "wild"]
Arm(p, b) == [p |-> p, b |-> b]

(* No name: a `repeat` without an index, a variant arm without a payload.  *)
NoName == ""

(* A variant and its position in the enum, which is its tag.               *)
Tag(P, v) == CHOOSE i \in 1 .. Len(P.variants) : P.variants[i].name = v
----------------------------------------------------------------------------
(* The alternatives of a pattern, with `|` flattened.                      *)
Parts(p) == IF p.k = "or" THEN p.ps ELSE <<p>>

(* The integers an integer pattern covers: a literal, or a half-open range. *)
Ints(p) == IF p.k = "int" THEN {p.n} ELSE p.lo .. p.hi - 1

(* check_i32_match_pattern: literals and non-empty ranges, all disjoint.   *)
I32Parts(qs) ==
  /\ \A i \in DOMAIN qs : qs[i].k \in {"int", "range"}
  /\ \A i \in DOMAIN qs : qs[i].k = "range" => qs[i].lo < qs[i].hi
  /\ \A i, j \in DOMAIN qs : i # j => Ints(qs[i]) \cap Ints(qs[j]) = {}

(* check_bool_match_pattern, check_text_match_pattern: literals of the     *)
(* scrutinee's kind, each at most once.                                    *)
LiteralParts(qs, kind) ==
  /\ \A i \in DOMAIN qs : qs[i].k = kind
  /\ \A i, j \in DOMAIN qs : i # j => qs[i] # qs[j]

(* check_enum_match_pattern: each of the enum's variants at most once, no  *)
(* `|`, a binding only where the variant carries a payload.                *)
EnumArms(variants, arms) ==
  /\ \A i \in DOMAIN arms : arms[i].p.k = "variant"
  /\ \A i, j \in DOMAIN arms : i # j => arms[i].p.v # arms[j].p.v
  /\ \A i \in DOMAIN arms : \E n \in DOMAIN variants :
        /\ variants[n].name = arms[i].p.v
        /\ arms[i].p.x # NoName => variants[n].payload # TUnit

(* infer_match_expr: `_` only as the final arm, the arms before it legal   *)
(* for the scrutinee's type, and together with it exhaustive.  variants    *)
(* are those of the scrutinee's enum, when it is one.                      *)
MatchAccepted(variants, ty, arms) ==
  LET wild  == arms # <<>> /\ Last(arms).p.k = "wild"
      front == IF wild THEN Front(arms) ELSE arms
      qs    == FlattenSeq([i \in DOMAIN front |-> Parts(front[i].p)])
  IN  /\ \A i \in DOMAIN front : front[i].p.k # "wild"
      /\ \/ ty = TI32 /\ I32Parts(qs) /\ wild
         \/ ty = TText /\ LiteralParts(qs, "text") /\ wild
         \/ ty = TBool /\ LiteralParts(qs, "bool") /\ (wild \/ Len(qs) = 2)
         \/ /\ ty[1] = "Named"
            /\ EnumArms(variants, front)
            /\ wild \/ Len(front) = Len(variants)
----------------------------------------------------------------------------
(* desugar_for_direction: repeat __x_idx in count { let x = base op __x_idx; body } *)
ForDirection(x, count, base, op, body) ==
  LET idx == "__" \o x \o "_idx"
  IN  Repeat(idx, count,
             Body(<<Let(x, Bin(op, base, Name(idx)))>> \o body.ss, body.tail))

(* lower_for_expr: both directions of `for x in lo..hi`, chosen at run     *)
(* time; lo and hi are copied, so the expanded body evaluates lo again.    *)
For_Upwards(x, lo, hi, body) ==
  If(Bin("Lt", lo, hi),
     Body(<<>>, ForDirection(x, Bin("Sub", hi, lo), lo, "Add", body)),
     Body(<<>>, ForDirection(x, Bin("Sub", hi, lo), lo, "Sub", body)))
For(x, lo, hi, body) ==
  If(Bin("Lt", lo, hi),
     Body(<<>>, ForDirection(x, Bin("Sub", hi, lo), lo, "Add", body)),
     Body(<<>>, ForDirection(x, Bin("Sub", lo, hi), lo, "Sub", body)))

-----------------------------------------------------------------------------
(***************************************************************************)
(* The builtin functions and the operations of the system effects, as      *)
(* semantic/exprcore.rs types them: builtin_entry and the infer functions  *)
(* it leaves to, SYSTEM_EFFECTS, and which of them allocate or may not run *)
(* at compile time.  A builtin has the types of its parameters, that of    *)
(* its result, and whether it is kept to executable code.                  *)
(***************************************************************************)
Builtin(params, returns, runtime) == [params |-> params, returns |-> returns, runtime |-> runtime]
Pure(params, returns) == Builtin(params, returns, FALSE)
Runtime(params, returns) == Builtin(params, returns, TRUE)

(* Loads and stores at an offset of a Bytes.                               *)
BytesBuiltins ==
  [bytes_byte |-> Pure(<<TBytes, TI32>>, TI32), bytes_byte_i64 |-> Pure(<<TBytes, TI64>>, TI32),
   bytes_load_i32 |-> Pure(<<TBytes, TI32>>, TI32), bytes_store_i32 |-> Pure(<<TBytes, TI32, TI32>>, TUnit),
   bytes_load_i64 |-> Pure(<<TBytes, TI32>>, TI64), bytes_store_i64 |-> Pure(<<TBytes, TI32, TI64>>, TUnit),
   bytes_load_i32_i64 |-> Pure(<<TBytes, TI64>>, TI32), bytes_load_i64_i64 |-> Pure(<<TBytes, TI64>>, TI64),
   bytes_load_f32_i64 |-> Pure(<<TBytes, TI64>>, TF64), bytes_load_f64 |-> Pure(<<TBytes, TI32>>, TF64),
   bytes_store_f64 |-> Pure(<<TBytes, TI32, TF64>>, TUnit), bytes_load_bool |-> Pure(<<TBytes, TI32>>, TBool),
   bytes_store_bool |-> Pure(<<TBytes, TI32, TBool>>, TUnit)]
(* Views and conversions of Bytes.                                         *)
ViewBuiltins ==
  [bytes_len |-> Pure(<<TBytes>>, TI32), bytes_slice |-> Pure(<<TBytes, TI32, TI32>>, TBytes),
   bytes_slice_i64 |-> Pure(<<TBytes, TI64, TI64>>, TBytes), bytes_to_text |-> Pure(<<TBytes>>, TText),
   text_to_bytes |-> Pure(<<TText>>, TBytes), bytes_materialize |-> Pure(<<TBytes>>, TBytes)]
NumberBuiltins ==
  [codepoint_to_text |-> Pure(<<TI32>>, TText), f64_from_i32 |-> Pure(<<TI32>>, TF64),
   i64_from_i32 |-> Pure(<<TI32>>, TI64), f64_from_i64 |-> Pure(<<TI64>>, TF64)]
ParseBuiltins ==
  [parse_i32 |-> Pure(<<TText>>, TI32), parse_i32_range |-> Pure(<<TText, TI32, TI32>>, TI32),
   sqrt |-> Pure(<<TF64>>, TF64)]
BuilderBuiltins ==
  [text_builder_append |-> Runtime(<<TBuilder, TText>>, TBuilder),
   text_builder_append_ascii |-> Runtime(<<TBuilder, TI32>>, TBuilder),
   text_builder_append_codepoint |-> Runtime(<<TBuilder, TI32>>, TBuilder),
   text_builder_append_i32 |-> Runtime(<<TBuilder, TI32>>, TBuilder),
   text_builder_append_slice |-> Runtime(<<TBuilder, TText, TI32, TI32>>, TBuilder),
   text_builder_finish |-> Runtime(<<TBuilder>>, TText)]
TextBuiltins ==
  [text_byte |-> Pure(<<TText, TI32>>, TI32), text_cmp |-> Pure(<<TText, TText>>, TI32),
   text_concat |-> Pure(<<TText, TText>>, TText), text_eq_range |-> Pure(<<TText, TI32, TI32, TText>>, TBool)]
FormatBuiltins == [text_from_f64_fixed |-> Pure(<<TF64, TI32>>, TText)]
LenBuiltins == [text_len |-> Pure(<<TText>>, TI32)]
CopyBuiltins ==
  [text_intern |-> Pure(<<TText>>, TText), text_promote |-> Pure(<<TText>>, TText),
   text_slice |-> Pure(<<TText, TI32, TI32>>, TText)]
IoBuiltins ==
  [arg_count |-> Pure(<<>>, TI32), arg_text |-> Pure(<<TI32>>, TText), tcp_listen |-> Pure(<<TI32>>, TFile),
   tcp_accept |-> Pure(<<TFile>>, TFile), tcp_recv |-> Pure(<<TFile, TI32>>, TBytes),
   tcp_close |-> Pure(<<TFile>>, TUnit), print |-> Pure(<<TText>>, TUnit)]

(* infer_range_scan_builtin_expr, infer_line_scan_builtin_expr and         *)
(* infer_text_index_builtin_expr, with the names that lead to them.        *)
RangeScans ==
  [f \in {"text_find_byte_range", "text_field_end", "text_next_field"} |-> Pure(<<TText, TI32, TI32, TI32>>, TI32)]
  @@ [f \in {"bytes_find_byte_range", "bytes_field_end", "bytes_next_field"} |->
        Pure(<<TBytes, TI32, TI32, TI32>>, TI32)]
LineScans == [f \in {"text_line_end", "text_next_line"} |-> Pure(<<TText, TI32>>, TI32)]
IndexBuiltins ==
  [text_index_get |-> Runtime(<<TIndex, TText>>, TI32), text_index_contains |-> Runtime(<<TIndex, TText>>, TBool),
   text_index_set |-> Runtime(<<TIndex, TText, TI32>>, TIndex),
   text_index_get_or_insert |-> Runtime(<<TIndex, TText, TI32>>, TI32)]

FixedBuiltins ==
  BytesBuiltins @@ ViewBuiltins @@ NumberBuiltins @@ ParseBuiltins @@ BuilderBuiltins @@ TextBuiltins @@
  FormatBuiltins @@ LenBuiltins @@ CopyBuiltins @@ IoBuiltins @@ RangeScans @@ LineScans @@ IndexBuiltins
----------------------------------------------------------------------------
(* The builtins typed by their arguments, with their arity.                *)
ListArity == [list_new |-> 2, list_len |-> 1, list_get |-> 2, list_set |-> 3, list_push |-> 3,
              list_sort_text |-> 2, list_from |-> 1, list_sort_by_field |-> 3, list_sort_by_text_field |-> 3]
OtherArity == [text_builder_new |-> 0, text_index_new |-> 0, text_index_keys |-> 1, tcp_send |-> 2,
               const_assert |-> 1, enum_to_i32 |-> 1, enum_to_text |-> 1]
Arity == ListArity @@ OtherArity

(* Those that ask their caller for the `alloc` effect.                     *)
Allocating == {"text_builder_new", "list_new", "list_push", "list_from", "text_index_new", "text_index_keys"}
(* Those of them that are kept to executable code.                         *)
RuntimeOnly == DOMAIN ListArity \cup {"text_builder_new", "text_index_new"}

(* contains_forbidden_comptime_effect: the calls a comptime block may not  *)
(* contain.                                                                *)
ForbiddenCalls ==
  Allocating \cup DOMAIN BuilderBuiltins \cup DOMAIN LineScans
  \cup {"list_sort_text", "list_sort_by_field", "list_sort_by_text_field", "text_index_get",
        "text_index_get_or_insert", "text_index_set", "text_field_end", "text_next_field",
        "bytes_find_byte_range", "bytes_field_end", "bytes_next_field"}
----------------------------------------------------------------------------
(* The operations of the system effects.                                   *)
IoMethods ==
  [stdout_write |-> Runtime(<<TText>>, TUnit), stdout_write_bytes |-> Runtime(<<TBytes>>, TUnit),
   stdout_write_builder |-> Runtime(<<TBuilder>>, TUnit),
   stdin_bytes |-> Runtime(<<>>, TBytes), stdin_text |-> Runtime(<<>>, TText)]
FileMethods ==
  [open |-> Runtime(<<TText, TText>>, TFile), close |-> Runtime(<<TFile>>, TUnit),
   read |-> Runtime(<<TFile, TI32>>, TBytes), read_to_end |-> Runtime(<<TFile>>, TBytes),
   write |-> Runtime(<<TFile, TBytes>>, TI32), sync |-> Runtime(<<TFile>>, TUnit),
   seek |-> Runtime(<<TFile, TI64, TI32>>, TI32), size |-> Runtime(<<TFile>>, TI32),
   exists |-> Runtime(<<TText>>, TBool), remove |-> Runtime(<<TText>>, TBool),
   mmap |-> Runtime(<<TText>>, TBytes), is_valid |-> Runtime(<<TFile>>, TBool)]
EnvMethods ==
  [get |-> Runtime(<<TText>>, TText), set |-> Runtime(<<TText, TText>>, TBool),
   remove |-> Runtime(<<TText>>, TBool), keys |-> Runtime(<<>>, TText),
   arg_count |-> Runtime(<<>>, TI32), arg_text |-> Runtime(<<TI32>>, TText)]
DirMethods ==
  [f \in {"create", "remove", "exists", "change"} |-> Runtime(<<TText>>, TBool)]
  @@ [list |-> Runtime(<<TText>>, TText), current |-> Runtime(<<>>, TText)]
ProcessMethods == [exit |-> Runtime(<<TI32>>, TUnit), id |-> Runtime(<<>>, TI32)]
ClockMethods == [now |-> Runtime(<<>>, TF64), sleep |-> Runtime(<<TI32>>, TUnit)]
SystemMethods ==
  [SystemIO |-> IoMethods, SystemFile |-> FileMethods, SystemEnv |-> EnvMethods,
   SystemDir |-> DirMethods, SystemProcess |-> ProcessMethods, SystemClock |-> ClockMethods]
=============================================================================
