---------------------------- MODULE AstLowering ----------------------------
(***************************************************************************)
(* sarif_syntax::ast: the concrete tree becomes the abstract one.  An AST  *)
(* node keeps its form, the source tokens that its names, literals and     *)
(* operators come from, and its parts; spans and lexemes are the tokens'   *)
(* positions.  Lowering returns an Option: here a sequence of at most one. *)
(*                                                                         *)
(* lower is a function of the tree.  The diagnostics it can add are about  *)
(* names and types that expect made up, in sources the parser has already  *)
(* reported; on an accepted source a node that does not lower is left out  *)
(* without one.                                                            *)
(***************************************************************************)
EXTENDS Parser

None == <<>>

Ast(form, kept, parts) == <<[form |-> form, kept |-> kept, parts |-> parts]>>

(* Children of a node: nodes of some kinds, of all but some kinds, and the *)
(* positions of tokens of some kinds.                                      *)
IsToken(child) == child.kind = "Token"
NodesOf(node, kinds) == SelectSeq(node.children, LAMBDA c : c.kind \in kinds)
NodesBut(node, kinds) == SelectSeq(node.children, LAMBDA c : ~IsToken(c) /\ c.kind \notin kinds)
TokensOf(node, kinds) ==
    LET found == SelectSeq(node.children, LAMBDA c : IsToken(c) /\ KindOf(tokens[c.at]) \in kinds)
    IN  [i \in DOMAIN found |-> found[i].at]

first(seq) == IF seq = <<>> THEN <<>> ELSE <<Head(seq)>>
first_token(node, kind) == first(TokensOf(node, {kind}))
first_ident(node) == first_token(node, "Ident")

(* Iterator::filter_map and find_map: results that are None are skipped.   *)
filter_map(F(_), nodes_) == FlattenSeq([i \in DOMAIN nodes_ |-> F(nodes_[i])])
find_map(F(_), nodes_) == first(filter_map(F, nodes_))

(* The `?` operator: a node with all its required tokens and parts, or     *)
(* None.                                                                   *)
Required(form, kept, parts) ==
    IF \E i \in DOMAIN kept : kept[i] = <<>> THEN None
    ELSE IF \E i \in DOMAIN parts : parts[i] = None THEN None
    ELSE Ast(form, Range(FlattenSeq(kept)), FlattenSeq(parts))

(* A node that is always built from what did lower.                        *)
Always(form, kept, parts) == Ast(form, Range(kept), parts)

TypeKinds == {"TypePath", "TypeArray"}

ident_after(node, keyword) ==
    LET from == TokensOf(node, {keyword})
    IN  IF from = <<>> THEN None
        ELSE first(SelectSeq(TokensOf(node, {"Ident"}), LAMBDA i : i > from[1]))

RECURSIVE lower_type_path(_)
lower_type_path(node) ==
    LET inner == filter_map(LAMBDA n : lower_type_path(n), NodesOf(node, TypeKinds))
    IN  IF node.kind = "TypePath"
        THEN LET segments == TokensOf(node, {"Ident"})
             IN  IF segments = <<>> THEN None ELSE Always("TypePath", segments, inner)
        ELSE Required("TypeArray", <<first(TokensOf(node, {"Integer", "Ident"}))>>, <<first(inner)>>)

first_type_path(node) == find_map(lower_type_path, NodesOf(node, TypeKinds))

----------------------------------------------------------------------------
(* Expressions and bodies are mutually recursive.                          *)

RECURSIVE lower_expr(_)
RECURSIVE lower_body(_)

exprs(nodes_) == filter_map(LAMBDA n : lower_expr(n), nodes_)
first_expr(node) == first(exprs(NodesBut(node, {})))
first_body(node) == find_map(LAMBDA n : lower_body(n), NodesOf(node, {"Body"}))

(* A literal with its sign.  i64::from_str fails on one that is too large. *)
signed_numeric_lexeme(form, node, literal) ==
    IF literal = <<>> THEN None ELSE Always(form, TokensOf(node, {"Minus"}) \o literal, <<>>)

lower_integer_expr(node) ==
    signed_numeric_lexeme("Integer", node,
                          SelectSeq(first_token(node, "Integer"), LAMBDA i : tokens[i] # "HugeInteger"))

lower_float_expr(node) == signed_numeric_lexeme("Float", node, first_token(node, "Float"))

(* A string with a `{` is read as a template first.  lower_template_expr   *)
(* parses `let _x = e; _x` as a file, which holds no function, so the      *)
(* template never has an expression segment and the string is kept.        *)
lower_string_expr(node) == Required("String", <<first_token(node, "String")>>, <<>>)

lower_bool_expr(node) == Required("Bool", <<first(TokensOf(node, {"KwTrue", "KwFalse"}))>>, <<>>)

lower_name_expr(node) == Required("Name", <<first_ident(node)>>, <<>>)

lower_contract_result_expr(node) == Required("ContractResult", <<first_ident(node)>>, <<>>)

ArgExprs(node) == 
    FlattenSeq([i \in DOMAIN NodesOf(node, {"ArgList"}) |->
                  exprs(NodesBut(NodesOf(node, {"ArgList"})[i], {}))])

(* The callee of a call must be a name, a field or a perform.  A field of  *)
(* a capitalised name is an enum variant; of anything else it is a method, *)
(* whose base becomes the first argument.                                  *)
lower_call_expr(node) ==
    LET lowered == exprs(first(NodesBut(node, {})))
    IN  IF lowered = None \/ lowered[1].form \notin {"Field", "Name", "Perform"} THEN None
        ELSE LET callee == lowered[1]
                 IsVariant == /\ callee.parts[1].form = "Name"
                              /\ \A i \in callee.parts[1].kept : tokens[i] = "TypeName"
             IN  CASE callee.form = "Name" -> Ast("Call", callee.kept, ArgExprs(node))
                   [] callee.form = "Perform" -> Ast("Call", callee.parts[1].kept, ArgExprs(node))
                   [] callee.form = "Field" /\ IsVariant ->
                        Ast("Call", callee.kept \union callee.parts[1].kept, ArgExprs(node))
                   [] OTHER -> Ast("Call", callee.kept, callee.parts \o ArgExprs(node))

lower_field_expr(node) == Required("Field", <<first_ident(node)>>, <<first_expr(node)>>)

lower_array_expr(node) ==
    LET semicolon == TokensOf(node, {"Semicolon"})
        length == SelectSeq(TokensOf(node, {"Integer", "Ident"}),
                            LAMBDA i : semicolon # <<>> /\ i > semicolon[1])
    IN  Always("Array", first(length), exprs(NodesBut(node, {})))

lower_index_expr(node) ==
    LET both == exprs(NodesBut(node, {}))
    IN  IF Len(both) < 2 THEN None ELSE Ast("Index", {}, SubSeq(both, 1, 2))

(* A field without a value stands for the variable of its name.            *)
lower_field_init(node) ==
    LET name == first_ident(node)
    IN  IF name = <<>> THEN None
        ELSE Always("FieldInit", name,
                    IF first_expr(node) = None THEN Ast("Name", {name[1]}, <<>>) ELSE first_expr(node))

lower_field_update(node) == Required("FieldUpdate", <<first_ident(node)>>, <<first_expr(node)>>)

InList(node, list, kind, F(_)) ==
    FlattenSeq([i \in DOMAIN NodesOf(node, {list}) |->
                  filter_map(F, NodesOf(NodesOf(node, {list})[i], {kind}))])

lower_record_expr(node) ==
    IF first_ident(node) = <<>> THEN None
    ELSE Always("Record", first_ident(node),
                InList(node, "FieldInitList", "FieldInit", lower_field_init))

lower_record_update_expr(node) ==
    LET base == first(exprs(NodesBut(node, {"FieldUpdateList"})))
    IN  IF base = None THEN None
        ELSE Ast("RecordUpdate", {},
                 base \o InList(node, "FieldUpdateList", "FieldUpdate", lower_field_update))

BodiesOf(node) == filter_map(LAMBDA n : lower_body(n), NodesOf(node, {"Body"}))

lower_if_expr(node) ==
    LET condition == first(exprs(NodesBut(node, {"Body"})))
        bodies == BodiesOf(node)
    IN  IF condition = None \/ bodies = <<>> THEN None
        ELSE Ast("If", {}, condition \o
                    (IF Len(bodies) = 1 THEN bodies \o Ast("Body", {}, <<>>) ELSE SubSeq(bodies, 1, 2)))

(* An alternative that does not lower is skipped.  A range has exactly the *)
(* three tokens `lo..hi` under its node; anything else is read by its      *)
(* first token.                                                            *)
RECURSIVE lower_match_pattern(_)
lower_match_pattern(node) ==
    LET nested == filter_map(LAMBDA n : lower_match_pattern(n), NodesOf(node, {"MatchPattern"}))
        path == find_map(lower_type_path, NodesOf(node, {"TypePath"}))
        all == SelectSeq(node.children, IsToken)
        KindAt(i) == KindOf(tokens[all[i].at])
    IN  IF nested # <<>>
        THEN IF Len(nested) = 1 THEN nested ELSE Ast("Or", {}, nested)
        ELSE IF path # None
        THEN Always("Variant", first_ident(node), path)
        ELSE IF Len(all) = 3 /\ KindAt(1) = "Integer" /\ KindAt(2) = "DotDot" /\ KindAt(3) = "Integer"
        THEN IF \E i \in {1, 3} : tokens[all[i].at] = "HugeInteger" THEN None
             ELSE Ast("IntegerRange", {all[1].at, all[3].at}, <<>>)
        ELSE IF all = <<>> \/ tokens[all[1].at] = "HugeInteger"
                \/ KindAt(1) \notin {"Integer", "String", "KwTrue", "KwFalse", "Underscore"}
        THEN None
        ELSE Ast("Literal", {all[1].at}, <<>>)

lower_match_arm(node) ==
    Required("MatchArm", <<>>,
             <<find_map(lower_match_pattern, NodesOf(node, {"MatchPattern"})), first_body(node)>>)

lower_match_expr(node) ==
    LET scrutinee == first(exprs(NodesBut(node, {"MatchArm"})))
    IN  IF scrutinee = None THEN None
        ELSE Ast("Match", {}, scrutinee \o filter_map(lower_match_arm, NodesOf(node, {"MatchArm"})))

Counted(form, binding, node) ==
    Required(form, binding, <<first(exprs(NodesBut(node, {"Body"}))), first_body(node)>>)

lower_repeat_expr(node) ==
    Counted("Repeat", IF TokensOf(node, {"KwIn"}) = <<>> THEN <<>> ELSE <<first_ident(node)>>, node)

lower_while_expr(node) == Counted("While", <<>>, node)

(* `for i in a..b` becomes `if a < b { repeat b - a } else { repeat a - b }`*)
(* with a let of the loop variable at the head of each body; a `for` whose *)
(* bounds do not lower becomes a repeat of zero rounds.                    *)
desugar_for_direction(binding, body, left, right, base) ==
    LET count == Ast("Binary", {}, left \o right)
        value == Ast("Binary", {}, base \o Ast("Name", {}, <<>>))
    IN  Ast("Repeat", {},
            count \o Ast("Body", {}, Ast("Let", binding, value) \o body[1].parts))

lower_for_expr(node) ==
    LET bounds == exprs(NodesBut(node, {"Body"}))
        body == first_body(node)
        binding == Range(first_ident(node))
    IN  IF Len(bounds) < 2 \/ body = None THEN Ast("Repeat", {}, <<>>)
        ELSE LET start == SubSeq(bounds, 1, 1)
                 end == SubSeq(bounds, 2, 2)
             IN  Ast("If", {},
                     Ast("Binary", {}, start \o end)
                     \o desugar_for_direction(binding, body, end, start, start)
                     \o desugar_for_direction(binding, body, start, end, start))

lower_binary_expr(node) ==
    LET both == exprs(NodesBut(node, {}))
        op == first(TokensOf(node, DOMAIN infix_binding_power))
    IN  IF Len(both) < 2 \/ op = <<>> THEN None
        ELSE Always("Binary", op, SubSeq(both, 1, 2))

lower_unary_expr(node) == Required("Unary", <<first_token(node, "KwNot")>>, <<first_expr(node)>>)

lower_group_expr(node) == Required("Group", <<>>, <<first_expr(node)>>)

lower_comptime_expr(node) == Required("Comptime", <<>>, <<first_body(node)>>)

lower_perform_expr(node) ==
    LET callee == first(filter_map(lower_type_path, first(NodesOf(node, {"TypePath"}))))
    IN  IF callee = None \/ NodesOf(node, {"ArgList"}) = <<>> THEN None
        ELSE Ast("Perform", {}, callee \o ArgExprs(node))

lower_handle_arm(node) ==
    LET close == TokensOf(node, {"RParen"})
        params == SelectSeq(TokensOf(node, {"Ident"}), LAMBDA i : close # <<>> /\ i < close[1])
    IN  IF first_ident(node) = <<>> \/ first_body(node) = None THEN None
        ELSE Always("HandleArm", params, first_body(node))

lower_handle_expr(node) ==
    LET body == first_body(node)
    IN  IF body = None THEN None
        ELSE Ast("Handle", {}, body \o filter_map(lower_handle_arm, NodesOf(node, {"HandleArm"})))

lower_expr(node) ==
    CASE node.kind = "ExprInteger" -> lower_integer_expr(node)
      [] node.kind = "ExprFloat" -> lower_float_expr(node)
      [] node.kind = "ExprString" -> lower_string_expr(node)
      [] node.kind = "ExprBool" -> lower_bool_expr(node)
      [] node.kind = "ExprName" -> lower_name_expr(node)
      [] node.kind = "ExprContractResult" -> lower_contract_result_expr(node)
      [] node.kind = "ExprCall" -> lower_call_expr(node)
      [] node.kind = "ExprArray" -> lower_array_expr(node)
      [] node.kind = "ExprField" -> lower_field_expr(node)
      [] node.kind = "ExprIndex" -> lower_index_expr(node)
      [] node.kind = "ExprIf" -> lower_if_expr(node)
      [] node.kind = "ExprMatch" -> lower_match_expr(node)
      [] node.kind = "ExprRepeat" -> lower_repeat_expr(node)
      [] node.kind = "ExprFor" -> lower_for_expr(node)
      [] node.kind = "ExprWhile" -> lower_while_expr(node)
      [] node.kind = "ExprRecord" -> lower_record_expr(node)
      [] node.kind = "ExprRecordUpdate" -> lower_record_update_expr(node)
      [] node.kind = "ExprUnary" -> lower_unary_expr(node)
      [] node.kind = "ExprBinary" -> lower_binary_expr(node)
      [] node.kind = "ExprGroup" -> lower_group_expr(node)
      [] node.kind = "ExprComptime" -> lower_comptime_expr(node)
      [] node.kind = "ExprPerform" -> lower_perform_expr(node)
      [] node.kind = "ExprHandle" -> lower_handle_expr(node)
      [] OTHER -> None

----------------------------------------------------------------------------
(* Statements and bodies.                                                  *)

Mut(node) == TokensOf(node, {"KwMut"})

let_is_destructure(node) == TokensOf(node, {"LParen"}) # <<>>

lower_let_destructure_First(node) ==
    LET names == TokensOf(node, {"Ident"})
        value == first_expr(node)
    IN  IF value = None THEN <<>>
        ELSE Always("Let", Mut(node) \o first(names), Ast("Field", {}, value))

(* `let (a, b) = e` is one let of a field of e for each name.              *)
lower_let_destructure(node) ==
    LET names == TokensOf(node, {"Ident"})
        value == first_expr(node)
    IN  IF value = None THEN <<>>
        ELSE FlattenSeq([i \in DOMAIN names |->
                            Always("Let", Mut(node) \o <<names[i]>>, Ast("Field", {}, value))])

lower_let_binding(node) ==
    LET name == first(TokensOf(node, {"Ident", "Underscore"}))
        value == first_expr(node)
    IN  IF name = <<>> \/ value = None THEN None ELSE Always("Let", Mut(node) \o name, value)

(* A compound assignment assigns the operation on its own target.          *)
lower_assign_stmt(node) ==
    LET both == exprs(NodesBut(node, {}))
        op == TokensOf(node, AssignOps \ {"Eq"})
    IN  IF Len(both) < 2 THEN None
        ELSE IF op = <<>> THEN Ast("Assign", {}, SubSeq(both, 1, 2))
        ELSE Ast("Assign", {}, <<both[1]>> \o Always("Binary", op, SubSeq(both, 1, 2)))

lower_expr_stmt(node) == Required("ExprStmt", <<>>, <<first_expr(node)>>)

lower_with_arena_stmt(node) ==
    Required("WithArena", <<>>, <<find_map(LAMBDA n : lower_body(n), NodesBut(node, {}))>>)

lower_stmt(node) ==
    CASE node.kind = "LetStmt" ->
            IF let_is_destructure(node) THEN lower_let_destructure(node) ELSE lower_let_binding(node)
      [] node.kind = "AssignStmt" -> lower_assign_stmt(node)
      [] node.kind = "ExprStmt" -> lower_expr_stmt(node)
      [] node.kind = "WithArenaStmt" -> lower_with_arena_stmt(node)

StmtKinds == {"LetStmt", "AssignStmt", "ExprStmt", "WithArenaStmt"}

(* The first node that is not a statement and lowers is the tail.          *)
lower_body(node) ==
    Ast("Body", {}, filter_map(lower_stmt, NodesOf(node, StmtKinds))
                    \o first(exprs(NodesBut(node, StmtKinds))))

----------------------------------------------------------------------------
(* Items.                                                                  *)

lower_param(node) == Required("Param", <<first_ident(node)>>, <<first_type_path(node)>>)

lower_field(node) == Required("Field", <<first_ident(node)>>, <<first_type_path(node)>>)

ParamsOf(node) == InList(node, "ParamList", "Param", lower_param)

ReturnOf(node) == find_map(first_type_path, NodesOf(node, {"ReturnType"}))

Signature(node) ==
    IF ident_after(node, "KwFn") = None THEN None
    ELSE Always("Signature", ident_after(node, "KwFn"), ParamsOf(node) \o ReturnOf(node))

Declared(form, name, parts) == IF name = None THEN None ELSE Always(form, name, parts)

lower_effect_item(node) ==
    Declared("Effect", ident_after(node, "KwEffect"), filter_map(Signature, NodesOf(node, {"FnItem"})))

lower_extern_block(node) == Ast("Extern", {}, filter_map(Signature, NodesOf(node, {"FnItem"})))

lower_import(node) ==
    IF ident_after(node, "KwFrom") = None THEN None
    ELSE Always("Import", TokensOf(node, {"Ident"}), <<>>)

(* The values a const may have leave out for, perform and handle.          *)
lower_const(node) ==
    Required("Const", <<ident_after(node, "KwConst")>>,
             <<first_type_path(node),
               first(exprs(NodesBut(node, TypeKinds \union {"ExprFor", "ExprPerform", "ExprHandle"})))>>)

lower_generic_param(node) ==
    IF first_ident(node) = <<>> THEN None
    ELSE Always("GenericParam", TokensOf(node, {"Ident"}), <<>>)

EffectsOf(node) ==
    FlattenSeq([i \in DOMAIN NodesOf(node, {"EffectsClause"}) |->
                  FlattenSeq(LET clause == NodesOf(node, {"EffectsClause"})[i]
                             IN  [j \in DOMAIN NodesOf(clause, {"EffectList"}) |->
                                    TokensOf(NodesOf(clause, {"EffectList"})[j], {"Ident"})])])

lower_clause_expr(node) == first_expr(node)

lower_function(node) ==
    IF ident_after(node, "KwFn") = None THEN None
    ELSE Always("Function", ident_after(node, "KwFn") \o EffectsOf(node),
                InList(node, "GenericParamList", "GenericParam", lower_generic_param)
                \o ParamsOf(node) \o ReturnOf(node)
                \o find_map(lower_clause_expr, NodesOf(node, {"RequiresClause"}))
                \o find_map(lower_clause_expr, NodesOf(node, {"EnsuresClause"}))
                \o first_body(node))

lower_struct(node) ==
    Declared("Struct", ident_after(node, "KwStruct"), InList(node, "FieldList", "Field", lower_field))

lower_variant(node) ==
    LET payload == first_type_path(node)
        discriminant == first(exprs(NodesBut(node, TypeKinds)))
    IN  IF first_ident(node) = <<>> THEN None
        ELSE Always("Variant", first_ident(node), payload \o discriminant)

lower_enum(node) ==
    Declared("Enum", ident_after(node, "KwEnum"), InList(node, "VariantList", "Variant", lower_variant))

lower_item(node) ==
    CASE node.kind = "ConstItem" -> lower_const(node)
      [] node.kind = "FnItem" -> lower_function(node)
      [] node.kind = "EnumItem" -> lower_enum(node)
      [] node.kind = "StructItem" -> lower_struct(node)
      [] node.kind = "EffectItem" -> lower_effect_item(node)
      [] node.kind = "ExternBlock" -> lower_extern_block(node)
      [] node.kind = "ImportItem" -> lower_import(node)
      [] OTHER -> None

lower_file(node) == filter_map(lower_item, NodesBut(node, {}))

----------------------------------------------------------------------------
(* The source tokens that an AST keeps, and those that carry meaning of    *)
(* their own: names, literals and operators.                               *)

RECURSIVE KeptBy(_)
KeptBy(ast) ==
    UNION {ast[i].kept : i \in DOMAIN ast} \union UNION {KeptBy(ast[i].parts) : i \in DOMAIN ast}

ContentKinds ==
    {"Ident", "Integer", "Float", "String", "KwTrue", "KwFalse", "KwNot", "KwMut"}
    \union DOMAIN infix_binding_power \union (AssignOps \ {"Eq"})

(* Pipes between patterns separate alternatives and are no operators, and  *)
(* the word with_arena is a keyword.                                       *)
PatternPipes == 
    UNION {Range(TokensOf(n, {"Pipe"})) : n \in {m \in Subnodes(root) : m.kind = "MatchPattern"}}

Content ==
    {i \in 1..Len(tokens) : KindOf(tokens[i]) \in ContentKinds /\ tokens[i] # "with_arena"}
    \ PatternPipes

(* What an accepted source says reaches the compiler: every name, literal  *)
(* and operator of it is in the AST, none is dropped with the part of a    *)
(* node that did not lower.                                                *)
NothingDropped ==
    Done /\ diagnostics = {} => Content \subseteq KeptBy(lower_file(root))

-----------------------------------------------------------------------------
(***************************************************************************)
(* The instance, token streams for Parser: one sample for every construct  *)
(* of the grammar, the samples with one fault in them, operator            *)
(* expressions, and short bodies of arbitrary tokens.                      *)
(***************************************************************************)
ConstOf(expr) == <<"KwConst", "Ident", "Colon", "Ident", "Eq">> \o expr \o <<"Semicolon">>

FnOf(body) == <<"KwFn", "Ident", "LParen", "RParen", "LBrace">> \o body \o <<"RBrace">>

Block == <<"LBrace", "Ident", "RBrace">>

Items ==
    {<<"KwPub", "KwEnum", "TypeName", "LBrace", "Ident", "Comma", "Ident", "LParen", "Ident",
       "RParen", "Comma", "Ident", "Eq", "Integer", "RBrace">>,
     <<"AttrRepr", "KwStruct", "TypeName", "LBrace", "Ident", "Colon", "Ident", "LBracket",
       "Ident", "RBracket", "Comma", "RBrace">>,
     <<"KwEffect", "TypeName", "LBrace", "KwFn", "Ident", "LParen", "Ident", "Colon", "Ident",
       "RParen", "Arrow", "Ident", "Semicolon", "RBrace">>,
     <<"KwExtern", "LBrace", "KwFn", "Ident", "LParen", "RParen", "Semicolon", "RBrace">>,
     <<"KwFrom", "Ident", "KwImport", "Ident", "Comma", "Ident", "Semicolon">>,
     <<"KwFn", "Ident", "LBracket", "Ident", "Colon", "Ident", "RBracket", "LParen", "Ident",
       "Colon", "LBracket", "Ident", "Semicolon", "Ident", "RBracket", "RParen", "Arrow",
       "Ident", "Eq", "Ident", "Semicolon">>,
     <<"KwFn", "Ident", "LParen", "RParen", "KwEffects", "LBracket", "Ident", "RBracket",
       "KwRequires", "KwTrue", "KwEnsures", "result">> \o Block}

Bodies ==
    {<<"KwLet", "KwMut", "Ident", "Eq", "Minus", "Integer", "Semicolon">>,
     <<"KwLet", "LParen", "Ident", "Comma", "Ident", "RParen", "Eq", "Ident", "Semicolon">>,
     <<"Ident", "Dot", "Ident", "LBracket", "Integer", "RBracket", "PlusEq", "Ident", "Semicolon">>,
     <<"with_arena">> \o Block,
     <<"Ident", "LParen", "Ident", "Comma", "String", "RParen", "Semicolon">>,
     <<"KwIf", "KwNot", "Ident">> \o Block \o <<"KwElse", "KwIf", "Ident">> \o Block
        \o <<"KwElse">> \o Block,
     <<"KwMatch", "Ident", "LBrace", "Ident", "Dot", "Ident", "LParen", "Ident", "RParen",
       "FatArrow", "Ident", "Comma", "Integer", "FatArrow">> \o Block \o <<"RBrace">>,
     <<"Ident", "Dot", "Ident", "LParen", "RParen", "Semicolon">>,
     <<"KwRepeat", "Ident", "KwIn", "Integer">> \o Block,
     <<"KwFor", "Ident", "KwIn", "Integer", "DotDot", "Ident">> \o Block,
     <<"KwWhile", "KwFalse">> \o Block \o <<"Semicolon">>,
     <<"KwComptime">> \o Block,
     <<"KwPerform", "TypeName", "Dot", "Ident", "LParen", "RParen">>}

Expressions ==
    {<<"LBracket", "Integer", "Comma", "Float", "RBracket">>,
     <<"LBracket", "Ident", "Semicolon", "Ident", "RBracket">>,
     <<"TypeName", "LBrace", "Ident", "Colon", "Ident", "Comma", "Ident", "RBrace">>,
     <<"Ident", "KwWith", "LBrace", "Dot", "Ident", "Eq", "Ident", "RBrace">>,
     <<"LParen", "Ident", "Plus", "Ident", "RParen", "Star", "Minus", "Float">>}

HandleOf(parameters) ==
    FnOf(<<"KwHandle">> \o Block \o <<"KwWith", "LBrace", "Ident", "LParen">> \o parameters
         \o <<"RParen", "FatArrow">> \o Block \o <<"RBrace">>)

(* Alternatives and a range, as the formatter writes them.                 *)
RangePattern(range) ==
    FnOf(<<"KwMatch", "Ident", "LBrace">> \o range
         \o <<"Pipe", "Underscore", "FatArrow", "Ident", "RBrace">>)

WrittenRange == <<"Integer", "DotDot", "Integer">>

Samples == 
    Items \union {FnOf(b) : b \in Bodies} \union {ConstOf(e) : e \in Expressions}

(* One token lost, replaced by another, or preceded by another.            *)
Strays == {"Invalid", "Comma", "RBrace", "Semicolon"}

Lost(s) == {RemoveAt(s, i) : i \in 1..Len(s)}
Replaced(s) == {ReplaceAt(s, i, t) : i \in 1..Len(s), t \in Strays \ {"Comma"}}
Inserted(s) == {InsertAt(s, i, t) : i \in 1..Len(s) + 1, t \in {"Comma"}}

(* Trivia before one token, and before every token.                        *)
Blank(s) == {InsertAt(s, i, "Whitespace") : i \in 1..Len(s) + 1}
Blanks(s) == 
    [i \in 1..2 * Len(s) + 1 |-> IF i % 2 = 1 THEN "Whitespace" ELSE s[i \div 2]]

Operators == {"KwOr", "Pipe", "EqEq", "Plus", "Minus", "Star"}

Operations == 
    {ConstOf(<<"Ident", o[1], "Ident", o[2], "Ident", o[3], "Ident">>) : o \in [1..3 -> Operators]}
    \union {ConstOf(<<"KwNot", "Ident", p, "LParen", "Ident", o, "Ident", "RParen">>) :
            p, o \in Operators}

BodyTokens == {"Ident", "KwLet", "Eq", "Semicolon", "LBracket", "Integer"}

ShortBodies == {FnOf(b) : b \in UNION {[1..n -> BodyTokens] : n \in 1..3}}

MCSources ==
    Samples \union {HandleOf(<<"Ident", "Comma", "Ident">>), RangePattern(WrittenRange)}
    \union UNION {Lost(s) \union Replaced(s) \union Inserted(s) \union {Blanks(s)} : s \in Samples}
    \union UNION {Blank(s) : s \in Items}
    \union {Blanks(HandleOf(<<"Ident">>))}
    \union Operations \union ShortBodies

(* A byte the lexer cannot read, in the parameters of a handler.           *)
HandlerSources == {HandleOf(<<p>>) : p \in {"Ident", "Invalid"}} \union Samples

(* A range pattern with blanks around its dots.                            *)
RangeSources == Samples \union {RangePattern(WrittenRange), RangePattern(Blanks(WrittenRange))}
=============================================================================
