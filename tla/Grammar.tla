------------------------------ MODULE Grammar ------------------------------
(***************************************************************************)
(* The recursive-descent procedures of sarif_syntax's parser, written as   *)
(* sequences of parser items.  An item is one call on the Parser (expect,  *)
(* bump, collect_trivia, another parse_ procedure), the start or the end   *)
(* of a node, a branch or a loop.  Parser.tla runs the items.              *)
(*                                                                         *)
(* Token kinds keep their names.  Lexemes matter in a few tokens only:     *)
(* among identifiers "Ident" stands for an ordinary lower-case name,       *)
(* "TypeName" for one that starts with a capital, "with_arena" and         *)
(* "result" for themselves; "HugeInteger" is an Integer that no i64 holds. *)
(***************************************************************************)
EXTENDS Integers, Sequences

Idents == {"Ident", "TypeName", "with_arena", "result"}
IntegerTokens == {"Integer", "HugeInteger"}

(* The calls.  Expect reports a missing token and leaves the cursor where  *)
(* it is; Bump takes whatever is there; Report is a Bump with a diagnostic. *)
Expect(kind) == [op |-> "expect", kind |-> kind]
Trivia == [op |-> "trivia"]
Bump == [op |-> "bump"]
Report(code) == [op |-> "report", code |-> code]
Call(name) == [op |-> "call", name |-> name]

(* Expr(m) is parse_expr_bp(m), Infix(m) its loop over the operators.      *)
Expr(min) == [op |-> "expr", min |-> min]
Infix(min) == [op |-> "infix", min |-> min]

(* Open and Close bracket a node; Wrap opens a node around the last child; *)
(* Adopt puts the modifiers before the children of the item they modify,   *)
(* Spill gives them to the file.                                           *)
Open(kind) == [op |-> "open", kind |-> kind]
Close == [op |-> "close"]
Wrap(kind) == [op |-> "wrap", kind |-> kind]
Adopt == [op |-> "adopt"]
Spill == [op |-> "spill"]

When(test, then, else) == [op |-> "when", test |-> test, then |-> then, else |-> else]
While(test, body) == [op |-> "while", test |-> test, body |-> body]
Again(loop) == [loop EXCEPT !.op = "again"]
Break == [op |-> "break"]

(* Tests: on the token at the cursor, on the next one that is not trivia,  *)
(* or one of the longer look-aheads.                                       *)
At(kinds) == [on |-> "current", kinds |-> kinds]
Away(kinds) == [on |-> "away", kinds |-> kinds]
Peek(kinds) == [on |-> "peek", kinds |-> kinds]
Ahead(name) == [on |-> name, kinds |-> {}]
Forever == Away({})

(* The idioms of the procedures: a node, items with trivia kept between    *)
(* them, an optional token, and the comma-separated list that every *_list *)
(* loop is.                                                                *)
Node(kind, items) == <<Open(kind)>> \o items \o <<Close>>

Spaced(items) == 
    [i \in 1..2 * Len(items) - 1 |-> IF i % 2 = 1 THEN items[(i + 1) \div 2] ELSE Trivia]

Optional(kind) == When(At({kind}), <<Bump>>, <<>>)

CommaOrBreak == When(At({"Comma"}), <<Bump>>, <<Break>>)

Listed(close, element) ==
    While(Away({close, "Eof"}),
          <<Trivia, When(Away({close, "Eof"}), element \o <<Trivia, CommaOrBreak>>, <<Break>>)>>)

----------------------------------------------------------------------------
(* Items.                                                                  *)

ItemKinds == 
    [KwEnum |-> "enum_item", KwStruct |-> "struct_item", KwEffect |-> "effect_item",
     KwExtern |-> "extern_block", KwConst |-> "const_item", KwFn |-> "fn_item",
     KwFrom |-> "import_item"]

parse ==
    Node("SourceFile",
         <<Trivia,
           While(Forever,
                 <<Open("Modifiers"),
                   When(At({"AttrRepr"}), <<Bump, Trivia>>, <<>>),
                   When(At({"KwPub"}), <<Bump, Trivia>>, <<>>),
                   When(At(DOMAIN ItemKinds), <<Call("item"), Adopt, Trivia>>, <<Spill, Break>>)>>),
           When(Away({"Eof"}), <<Report("parse.out-of-order-item")>>, <<>>),
           Optional("Eof")>>)

parse_const_item ==
    Node("ConstItem",
         Spaced(<<Expect("KwConst"), Expect("Ident"), Expect("Colon"), Call("type"),
                  Expect("Eq"), Expr(0), Optional("Semicolon")>>))

ReturnType == 
    When(At({"Arrow"}), Node("ReturnType", <<Bump, Trivia, Call("type")>>), <<>>)

parse_fn_item ==
    Node("FnItem",
         <<Expect("KwFn"), Trivia, Expect("Ident"), Trivia,
           When(At({"LBracket"}), <<Call("generic_params"), Trivia>>, <<>>),
           Expect("LParen"), Call("param_list"), Expect("RParen"), Trivia,
           ReturnType, Trivia,
           When(At({"KwEffects"}), <<Call("effects_clause")>>, <<>>), Trivia,
           When(At({"KwRequires"}), <<Call("requires_clause")>>, <<>>), Trivia,
           When(At({"KwEnsures"}), <<Call("ensures_clause")>>, <<>>), Trivia,
           When(At({"Eq"}), <<Call("inline_expr_body")>>, <<Call("expr_body")>>)>>)

parse_import_item ==
    Node("ImportItem",
         Spaced(<<Expect("KwFrom"), Expect("Ident"), Expect("KwImport"), Expect("Ident"),
                  While(At({"Comma"}), <<Bump, Trivia, Expect("Ident"), Trivia>>)>>)
         \o <<Optional("Semicolon")>>)

Braced(kind, keyword, list) ==
    Node(kind, <<Expect(keyword), Trivia, Expect("Ident"), Trivia, Expect("LBrace"),
                 Call(list), Expect("RBrace")>>)

parse_enum_item == Braced("EnumItem", "KwEnum", "variant_list")

parse_struct_item == Braced("StructItem", "KwStruct", "field_list")

parse_generic_params ==
    Node("GenericParamList",
         <<Expect("LBracket"), Trivia,
           When(Away({"RBracket"}),
                <<While(Forever,
                        Node("GenericParam",
                             <<Expect("Ident"), Trivia,
                               When(At({"Colon"}), <<Bump, Trivia, Expect("Ident"), Trivia>>, <<>>)>>)
                        \o <<When(At({"Comma"}), <<Bump, Trivia>>, <<Break>>)>>)>>,
                <<>>),
           Expect("RBracket")>>)

parse_param_list == Node("ParamList", <<Listed("RParen", <<Call("param")>>)>>)

parse_param_Tight == Node("Param", <<Expect("Ident"), Expect("Colon"), Call("type")>>)

parse_param == Node("Param", Spaced(<<Expect("Ident"), Expect("Colon"), Call("type")>>))

parse_effects_clause ==
    Node("EffectsClause",
         <<Expect("KwEffects"), Trivia, Expect("LBracket")>>
         \o Node("EffectList", <<Listed("RBracket", <<Expect("Ident")>>)>>)
         \o <<Expect("RBracket")>>)

parse_field_list ==
    Node("FieldList",
         <<Listed("RBrace",
                  Node("Field", Spaced(<<Expect("Ident"), Expect("Colon"), Call("type")>>)))>>)

parse_variant_list ==
    Node("VariantList",
         <<Listed("RBrace",
                  Node("Variant",
                       Spaced(<<Expect("Ident"),
                                When(At({"LParen"}),
                                     Spaced(<<Bump, Call("type"), Expect("RParen")>>), <<>>),
                                When(At({"Eq"}), <<Bump, Trivia, Expr(0)>>, <<>>)>>)))>>)

parse_contract_clause(keyword, kind) == Node(kind, <<Expect(keyword), Trivia, Expr(0)>>)

(* The signatures of an effect or of an extern block.                      *)
Signatures ==
    While(At({"KwFn"}),
          Node("FnItem",
               <<Bump, Trivia, Expect("Ident"), Trivia, Expect("LParen"), Call("param_list"),
                 Expect("RParen"), Trivia, ReturnType, Trivia, Expect("Semicolon")>>)
          \o <<Trivia>>)

parse_effect_item ==
    Node("EffectItem",
         Spaced(<<Expect("KwEffect"), Expect("Ident"), Expect("LBrace"), Signatures>>)
         \o <<Expect("RBrace")>>)

parse_extern_block ==
    Node("ExternBlock",
         Spaced(<<Expect("KwExtern"), Expect("LBrace"), Signatures>>) \o <<Expect("RBrace")>>)

----------------------------------------------------------------------------
(* Types.                                                                  *)

parse_type == <<When(At({"LBracket"}), <<Call("array_type")>>, <<Call("type_path")>>)>>

parse_type_path ==
    Node("TypePath",
         <<Expect("Ident"),
           While(Peek({"Dot"}), <<Trivia, Expect("Dot"), Trivia, Expect("Ident")>>),
           When(Peek({"LBracket"}),
                <<Trivia>> \o Spaced(<<Expect("LBracket"), Call("type"), Expect("RBracket")>>),
                <<>>)>>)

parse_array_type ==
    Node("TypeArray",
         Spaced(<<Expect("LBracket"), Call("type"), Expect("Semicolon"),
                  When(Peek({"Ident"}), <<Expect("Ident")>>, <<Expect("Integer")>>),
                  Expect("RBracket")>>))

----------------------------------------------------------------------------
(* Bodies and statements.                                                  *)

starts_expr == 
    {"Integer", "Float", "Minus", "String", "KwTrue", "KwFalse", "Ident", "LBracket",
     "LParen", "KwIf", "KwMatch", "KwRepeat", "KwFor", "KwWhile", "KwComptime", "KwHandle"}

Statement ==
    When(Peek({"KwLet"}), <<Call("let_stmt")>>,
    <<When(Ahead("with_arena"), <<Call("with_arena_stmt")>>,
    <<When(Ahead("assignment"), <<Call("assign_stmt")>>,
    <<When(Ahead("statement"), <<Call("expr_stmt")>>, <<Break>>)>>)>>)>>)

parse_expr_body ==
    Node("Body",
         <<Expect("LBrace"), Trivia, While(Forever, <<Statement, Trivia>>),
           When(Away({"RBrace", "Eof"}),
                <<Expr(0), Trivia,
                  While(Away({"RBrace", "Eof"}), <<Report("parse.unexpected-token"), Trivia>>)>>,
                <<>>),
           Expect("RBrace")>>)

parse_inline_expr_body ==
    Node("Body", Spaced(<<Expect("Eq"), Expr(0), Expect("Semicolon")>>))

parse_let_stmt ==
    Node("LetStmt",
         <<Expect("KwLet"), Trivia,
           When(At({"KwMut"}), <<Bump, Trivia>>, <<>>),
           When(At({"LParen"}), <<Call("tuple_destructure_pattern")>>,
                <<When(At({"Ident", "Underscore"}), <<Bump>>, <<Expect("Ident")>>)>>),
           Trivia>>
         \o Spaced(<<Expect("Eq"), Expr(0), Expect("Semicolon")>>))

parse_tuple_destructure_pattern_UntilParen ==
    <<Expect("LParen"), Trivia,
      While(Away({"RParen", "Eof"}),
            <<Expect("Ident"), Trivia, When(At({"Comma"}), <<Bump, Trivia>>, <<>>)>>),
      Expect("RParen")>>

parse_tuple_destructure_pattern ==
    <<Expect("LParen"), Trivia,
      While(Forever,
            <<Expect("Ident"), Trivia, When(At({"Comma"}), <<Bump, Trivia>>, <<Break>>)>>),
      Expect("RParen")>>

AssignOps == {"Eq", "PlusEq", "MinusEq", "StarEq", "SlashEq"}

parse_assign_stmt ==
    Node("AssignStmt",
         Spaced(<<Call("assign_target_expr"), Call("assign_op"), Expr(0), Expect("Semicolon")>>))

expect_assign_op ==
    <<When(Peek({"PlusEq"}), <<Expect("PlusEq")>>,
      <<When(Peek({"MinusEq"}), <<Expect("MinusEq")>>,
        <<When(Peek({"StarEq"}), <<Expect("StarEq")>>,
          <<When(Peek({"SlashEq"}), <<Expect("SlashEq")>>, <<Expect("Eq")>>)>>)>>)>>)>>

FieldOf == 
    <<Wrap("ExprField"), Trivia, Expect("Dot"), Trivia, Expect("Ident"), Close>>

IndexOf == 
    <<Wrap("ExprIndex"), Trivia>>
    \o Spaced(<<Expect("LBracket"), Expr(0), Expect("RBracket")>>) \o <<Close>>

parse_assign_target_expr ==
    Node("ExprName", <<Trivia, Expect("Ident")>>)
    \o <<While(Forever,
               <<When(Peek({"Dot"}), FieldOf,
                 <<When(Peek({"LBracket"}), IndexOf, <<Break>>)>>)>>)>>

parse_expr_stmt == Node("ExprStmt", <<Expr(0), Trivia, Expect("Semicolon")>>)

parse_with_arena_stmt == Node("WithArenaStmt", <<Bump, Trivia, Call("expr_body")>>)

----------------------------------------------------------------------------
(* Expressions.                                                            *)

infix_binding_power_Flat ==
    [KwOr |-> <<1, 2>>, KwAnd |-> <<3, 4>>, Pipe |-> <<5, 6>>, Caret |-> <<7, 8>>,
     Amp |-> <<9, 10>>, EqEq |-> <<11, 12>>, NotEq |-> <<11, 12>>, Lt |-> <<11, 12>>,
     Le |-> <<11, 12>>, Gt |-> <<11, 12>>, Ge |-> <<11, 12>>, Shl |-> <<13, 14>>,
     Shr |-> <<13, 14>>, Plus |-> <<15, 16>>, Minus |-> <<15, 16>>, Star |-> <<15, 16>>,
     Slash |-> <<15, 16>>, Percent |-> <<15, 16>>]

infix_binding_power ==
    [KwOr |-> <<1, 2>>, KwAnd |-> <<3, 4>>, Pipe |-> <<5, 6>>, Caret |-> <<7, 8>>,
     Amp |-> <<9, 10>>, EqEq |-> <<11, 12>>, NotEq |-> <<11, 12>>, Lt |-> <<11, 12>>,
     Le |-> <<11, 12>>, Gt |-> <<11, 12>>, Ge |-> <<11, 12>>, Shl |-> <<13, 14>>,
     Shr |-> <<13, 14>>, Plus |-> <<15, 16>>, Minus |-> <<15, 16>>, Star |-> <<17, 18>>,
     Slash |-> <<17, 18>>, Percent |-> <<17, 18>>]

CallOf ==
    <<Wrap("ExprCall"), Trivia, Expect("LParen"), Call("arg_list"), Expect("RParen"), Close>>

UpdateOf ==
    <<Wrap("ExprRecordUpdate"), Trivia>>
    \o Spaced(<<Expect("KwWith"), Expect("LBrace"), Call("field_update_list"), Expect("RBrace")>>)
    \o <<Close>>

parse_postfix_expr ==
    <<Call("prefix_expr"),
      While(Forever,
            <<When(Peek({"LParen"}), CallOf,
              <<When(Peek({"Dot"}), FieldOf,
                <<When(Peek({"LBracket"}), IndexOf,
                  <<When(Peek({"KwWith"}), UpdateOf, <<Break>>)>>)>>)>>)>>)>>

parse_prefix_expr ==
    <<When(Peek({"KwNot"}),
           Node("ExprUnary", <<Trivia, Expect("KwNot"), Trivia, Call("postfix_expr")>>),
           <<Call("primary_expr")>>)>>

Literal(node, kind) == Node(node, <<Trivia, Expect(kind)>>)

parse_error_expr == Node("Error", <<Report("parse.expected-expression")>>)

Negative ==
    When(Ahead("negative integer"), Node("ExprInteger", <<Trivia, Expect("Minus"), Trivia, Expect("Integer")>>),
    <<When(Ahead("negative float"), Node("ExprFloat", <<Trivia, Expect("Minus"), Trivia, Expect("Float")>>),
           parse_error_expr)>>)

Named ==
    When(Ahead("result"), Node("ExprContractResult", <<Trivia, Expect("Ident")>>),
    <<When(Ahead("record literal"),
           Node("ExprRecord",
                <<Trivia, Expect("Ident"), Trivia, Expect("LBrace"), Call("field_init_list"),
                  Trivia, Expect("RBrace")>>),
           Literal("ExprName", "Ident"))>>)

(* What parse_primary_expr does on each kind of token.                     *)
Primary ==
    [KwIf |-> <<Call("if_expr")>>, KwMatch |-> <<Call("match_expr")>>,
     KwRepeat |-> <<Call("repeat_expr")>>, KwFor |-> <<Call("for_expr")>>,
     KwWhile |-> <<Call("while_expr")>>, KwPerform |-> <<Call("perform_expr")>>,
     KwComptime |-> <<Call("comptime_expr")>>, KwHandle |-> <<Call("handle_expr")>>,
     LBracket |-> <<Call("array_expr")>>,
     Integer |-> Literal("ExprInteger", "Integer"), Float |-> Literal("ExprFloat", "Float"),
     Minus |-> <<Negative>>, String |-> Literal("ExprString", "String"),
     KwTrue |-> Literal("ExprBool", "KwTrue"), KwFalse |-> Literal("ExprBool", "KwFalse"),
     Ident |-> <<Named>>,
     LParen |-> Node("ExprGroup", <<Trivia, Expect("LParen"), Trivia, Expr(0), Trivia, Expect("RParen")>>)]

parse_primary_expr == <<[op |-> "primary"]>>

parse_comptime_expr == Node("ExprComptime", <<Expect("KwComptime"), Trivia, Call("expr_body")>>)

parse_perform_expr ==
    Node("ExprPerform",
         <<Expect("KwPerform"), Trivia, Call("type_path"), Trivia, Expect("LParen"),
           Call("arg_list"), Expect("RParen")>>)

HandleArm ==
    Node("HandleArm",
         <<Expect("Ident"), Trivia, Expect("LParen"), Trivia,
           While(Away({"RParen", "Eof"}),
                 <<Expect("Ident"), Trivia, When(At({"Comma"}), <<Bump, Trivia>>, <<>>)>>)>>
         \o Spaced(<<Expect("RParen"), Expect("FatArrow"), Call("expr_body")>>))

parse_handle_expr ==
    Node("ExprHandle",
         Spaced(<<Expect("KwHandle"), Call("expr_body"), Expect("KwWith"), Expect("LBrace"),
                  While(Away({"RBrace", "Eof"}), HandleArm \o <<Trivia>>)>>)
         \o <<Expect("RBrace")>>)

(* `else if` nests the second if in a Body of its own.                     *)
parse_if_expr ==
    Node("ExprIf",
         <<Trivia, Expect("KwIf"), Trivia, Expr(0), Trivia, Call("expr_body"),
           When(Peek({"KwElse"}),
                <<Trivia, Expect("KwElse"), Trivia,
                  When(At({"KwIf"}), Node("Body", <<Call("if_expr")>>), <<Call("expr_body")>>)>>,
                <<>>)>>)

starts_match_pattern == {"Ident", "Integer", "String", "KwTrue", "KwFalse", "Underscore"}

parse_match_expr ==
    Node("ExprMatch",
         <<Trivia>>
         \o Spaced(<<Expect("KwMatch"), Expr(0), Expect("LBrace"),
                     While(Peek(starts_match_pattern),
                           <<Call("match_arm"), Trivia,
                             When(At({"Comma"}), <<Bump, Trivia>>, <<Break>>)>>)>>)
         \o <<Expect("RBrace")>>)

parse_match_arm ==
    Node("MatchArm",
         Spaced(<<Call("match_pattern"), Expect("FatArrow"),
                  When(At({"LBrace"}), <<Call("expr_body")>>, Node("Body", <<Expr(0)>>))>>))

parse_match_pattern ==
    Node("MatchPattern",
         <<Trivia, Call("match_pattern_atom"), Trivia,
           While(At({"Pipe"}), <<Bump, Trivia, Call("match_pattern_atom"), Trivia>>)>>)

parse_match_pattern_atom ==
    Node("MatchPattern",
         <<Trivia,
           When(Peek({"Ident"}),
                <<Call("type_path"), Trivia,
                  When(At({"LParen"}), Spaced(<<Bump, Expect("Ident"), Expect("RParen")>>),
                  <<When(At({"LBrace"}), <<Bump, Trivia, Expect("RBrace")>>, <<>>)>>)>>,
           <<When(Peek({"Integer"}),
                  <<Expect("Integer"), Trivia,
                    When(At({"DotDot"}), <<Expect("DotDot"), Trivia, Expect("Integer")>>, <<>>)>>,
                  <<Bump>>)>>)>>)

parse_repeat_expr ==
    Node("ExprRepeat",
         <<Trivia, Expect("KwRepeat"), Trivia,
           When(Ahead("binding"), <<Bump, Trivia, Expect("KwIn"), Trivia>>, <<>>),
           Expr(0), Trivia, Call("expr_body")>>)

parse_for_expr ==
    Node("ExprFor",
         <<Trivia>>
         \o Spaced(<<Expect("KwFor"), Expect("Ident"), Expect("KwIn"), Expr(0), Expect("DotDot"),
                     Expr(0), Call("expr_body")>>))

parse_while_expr ==
    Node("ExprWhile", <<Trivia>> \o Spaced(<<Expect("KwWhile"), Expr(0), Call("expr_body")>>))

parse_array_expr ==
    Node("ExprArray",
         <<Trivia, Expect("LBracket"),
           While(Away({"RBracket", "Eof"}),
                 <<Trivia,
                   When(Away({"RBracket", "Eof"}),
                        <<Expr(0), Trivia,
                          When(At({"Semicolon"}),
                               <<Bump, Trivia,
                                 When(Peek({"Ident"}), <<Expect("Ident")>>, <<Expect("Integer")>>),
                                 Trivia, Break>>,
                               <<CommaOrBreak>>)>>,
                        <<Break>>)>>),
           Expect("RBracket")>>)

parse_arg_list == Node("ArgList", <<Listed("RParen", <<Expr(0)>>)>>)

parse_field_init_list ==
    Node("FieldInitList",
         <<Listed("RBrace",
                  Node("FieldInit",
                       <<Trivia, Expect("Ident"), Trivia,
                         When(At({"Colon"}), <<Bump, Trivia, Expr(0)>>, <<>>)>>))>>)

parse_field_update_list ==
    Node("FieldUpdateList",
         <<Listed("RBrace",
                  Node("FieldUpdate",
                       <<Trivia>>
                       \o Spaced(<<Expect("Dot"), Expect("Ident"), Expect("Eq"), Expr(0)>>)))>>)

(* The procedure a Call names.                                             *)
Procedure ==
    [const_item |-> parse_const_item, fn_item |-> parse_fn_item,
     import_item |-> parse_import_item, enum_item |-> parse_enum_item,
     struct_item |-> parse_struct_item, generic_params |-> parse_generic_params,
     param_list |-> parse_param_list, param |-> parse_param,
     effects_clause |-> parse_effects_clause, field_list |-> parse_field_list,
     variant_list |-> parse_variant_list,
     requires_clause |-> parse_contract_clause("KwRequires", "RequiresClause"),
     ensures_clause |-> parse_contract_clause("KwEnsures", "EnsuresClause"),
     effect_item |-> parse_effect_item, extern_block |-> parse_extern_block,
     type |-> parse_type, type_path |-> parse_type_path, array_type |-> parse_array_type,
     expr_body |-> parse_expr_body, inline_expr_body |-> parse_inline_expr_body,
     let_stmt |-> parse_let_stmt,
     tuple_destructure_pattern |-> parse_tuple_destructure_pattern,
     assign_stmt |-> parse_assign_stmt, assign_op |-> expect_assign_op,
     assign_target_expr |-> parse_assign_target_expr, expr_stmt |-> parse_expr_stmt,
     with_arena_stmt |-> parse_with_arena_stmt, postfix_expr |-> parse_postfix_expr,
     prefix_expr |-> parse_prefix_expr, primary_expr |-> parse_primary_expr,
     comptime_expr |-> parse_comptime_expr, perform_expr |-> parse_perform_expr,
     handle_expr |-> parse_handle_expr, if_expr |-> parse_if_expr,
     match_expr |-> parse_match_expr, match_arm |-> parse_match_arm,
     match_pattern |-> parse_match_pattern, match_pattern_atom |-> parse_match_pattern_atom,
     repeat_expr |-> parse_repeat_expr, for_expr |-> parse_for_expr,
     while_expr |-> parse_while_expr, array_expr |-> parse_array_expr,
     arg_list |-> parse_arg_list, field_init_list |-> parse_field_init_list,
     field_update_list |-> parse_field_update_list]
=============================================================================
