------------------------------- MODULE Parser -------------------------------
(***************************************************************************)
(* sarif_syntax::parser.  The Parser holds the token stream, a cursor into *)
(* it and the diagnostics; the Rust call stack is the sequence todo of     *)
(* items still to run, and the nodes under construction are the frames of  *)
(* nodes, outermost first.                                                 *)
(*                                                                         *)
(* The token that expect makes up for a missing one has an empty lexeme    *)
(* and is left out of the tree here: the tree holds source tokens only.    *)
(* Whitespace, newlines and comments are one kind of trivia.               *)
(***************************************************************************)
EXTENDS Grammar, FiniteSets, SequencesExt

CONSTANT Sources    \* the token streams to parse, without their Eof

VARIABLES tokens, cursor, todo, nodes, diagnostics

vars == <<tokens, cursor, todo, nodes, diagnostics>>

KindOf(token) ==
    IF token \in Idents THEN "Ident" ELSE IF token \in IntegerTokens THEN "Integer" ELSE token

is_trivia(kind) == kind = "Whitespace"

current == KindOf(tokens[cursor])

Significant(i) == ~is_trivia(tokens[i])

(* The position of the nth token from i on that is not trivia; the Eof     *)
(* position when there are fewer.                                          *)
Nth(i, n) ==
    LET nth == {j \in i..Len(tokens) :
                   Significant(j) /\ Cardinality({k \in i..j : Significant(k)}) = n}
    IN  IF nth = {} THEN Len(tokens) ELSE CHOOSE j \in nth : TRUE

NthKind(i, n) == KindOf(tokens[Nth(i, n)])

peek_non_trivia_kind == NthKind(cursor, 1)

----------------------------------------------------------------------------
(* The longer look-aheads.                                                 *)

Opening == {"LParen", "LBracket", "LBrace"}
Closing == {"RParen", "RBracket", "RBrace"}

(* Brackets open in tokens[i..j].                                          *)
Depth(i, j) == 
    Cardinality({k \in i..j : tokens[k] \in Opening}) - Cardinality({k \in i..j : tokens[k] \in Closing})

next_expr_is_statement ==
    \E i \in cursor..Len(tokens) :
        /\ tokens[i] = "Semicolon"
        /\ Depth(cursor, i) = 0
        /\ \A j \in cursor..i : Depth(cursor, j) >= 0

(* The position after the index that opens at i, 0 if it does not close.   *)
AfterIndex(i) ==
    LET Square(j) == Cardinality({k \in i..j : tokens[k] = "LBracket"})
                     - Cardinality({k \in i..j : tokens[k] = "RBracket"})
        ends == {j \in i..Len(tokens) : Square(j) = 0}
    IN  IF ends = {} THEN 0 ELSE (CHOOSE j \in ends : \A k \in ends : j <= k) + 1

(* Whether an assignment operator follows the fields and indices at i.     *)
RECURSIVE AssignsAfter(_)
AssignsAfter(i) ==
    \E j \in {Nth(i, 1)} :
        CASE tokens[j] = "Dot" ->
                NthKind(j + 1, 1) = "Ident" /\ AssignsAfter(Nth(j + 1, 1) + 1)
          [] tokens[j] = "LBracket" ->
                AfterIndex(j) # 0 /\ AssignsAfter(AfterIndex(j))
          [] OTHER -> tokens[j] \in AssignOps

next_name_is_assign_statement ==
    peek_non_trivia_kind = "Ident" /\ AssignsAfter(Nth(cursor, 1) + 1)

next_non_trivia_kind_is_numeric_literal(kind) == 
    NthKind(cursor, 1) = "Minus" /\ NthKind(cursor + 1, 1) = kind

starts_record_literal ==
    /\ tokens[Nth(cursor, 1)] = "TypeName"
    /\ NthKind(cursor, 2) = "LBrace"
    /\ \/ NthKind(cursor, 3) = "RBrace"
       \/ NthKind(cursor, 3) = "Ident" /\ NthKind(cursor, 4) \in {"Colon", "Comma", "RBrace"}

repeat_has_binding == current = "Ident" /\ NthKind(cursor, 2) = "KwIn"

Holds(test) ==
    CASE test.on = "current" -> current \in test.kinds
      [] test.on = "away" -> current \notin test.kinds
      [] test.on = "peek" -> peek_non_trivia_kind \in test.kinds
      [] test.on = "with_arena" -> tokens[cursor] = "with_arena"
      [] test.on = "assignment" -> next_name_is_assign_statement
      [] test.on = "statement" -> peek_non_trivia_kind \in starts_expr /\ next_expr_is_statement
      [] test.on = "negative integer" -> next_non_trivia_kind_is_numeric_literal("Integer")
      [] test.on = "negative float" -> next_non_trivia_kind_is_numeric_literal("Float")
      [] test.on = "result" -> tokens[Nth(cursor, 1)] = "result"
      [] test.on = "record literal" -> starts_record_literal
      [] test.on = "binding" -> repeat_has_binding

----------------------------------------------------------------------------
(* Nodes.                                                                  *)

Leaf(i) == [kind |-> "Token", at |-> i, children |-> <<>>]
Branch(kind, children) == [kind |-> kind, at |-> 0, children |-> children]

Top == nodes[Len(nodes)]

(* The frames with more children in the innermost one.                     *)
Push(frames, children) == [frames EXCEPT ![Len(frames)].children = @ \o children]

item == Head(todo)

(* The items that replace the one just run.                                *)
Then(items) == todo' = items \o Tail(todo)

Init ==
    /\ tokens = <<"Eof">>
    /\ cursor = 1
    /\ todo = <<>>
    /\ nodes = <<Branch("Root", <<>>)>>
    /\ diagnostics = {}

(* Parser::new on the output of the lexer.                                 *)
Start ==
    /\ tokens = <<"Eof">> /\ todo = <<>> /\ Top.children = <<>>
    /\ \E source \in Sources : tokens' = source \o <<"Eof">>
    /\ todo' = parse
    /\ UNCHANGED <<cursor, nodes, diagnostics>>

Running(op) == todo # <<>> /\ item.op = op

(* bump: the cursor never passes the Eof.                                  *)
Advanced == IF cursor < Len(tokens) THEN cursor + 1 ELSE cursor

bump ==
    /\ Running("bump")
    /\ nodes' = Push(nodes, <<Leaf(cursor)>>)
    /\ cursor' = Advanced
    /\ Then(<<>>)
    /\ UNCHANGED <<tokens, diagnostics>>

report_Dropped ==
    /\ Running("report")
    /\ diagnostics' = diagnostics \union {<<item.code, cursor>>}
    /\ cursor' = Advanced
    /\ Then(<<>>)
    /\ UNCHANGED <<tokens, nodes>>

report ==
    /\ Running("report")
    /\ nodes' = Push(nodes, <<Leaf(cursor)>>)
    /\ diagnostics' = diagnostics \union {<<item.code, cursor>>}
    /\ cursor' = Advanced
    /\ Then(<<>>)
    /\ UNCHANGED tokens

collect_trivia ==
    /\ Running("trivia")
    /\ nodes' = Push(nodes, [i \in 1..Nth(cursor, 1) - cursor |-> Leaf(cursor + i - 1)])
    /\ cursor' = Nth(cursor, 1)
    /\ Then(<<>>)
    /\ UNCHANGED <<tokens, diagnostics>>

expect_Silent ==
    /\ Running("expect")
    /\ LET here == Nth(cursor, 1) IN
       /\ nodes' = IF KindOf(tokens[here]) = item.kind THEN Push(nodes, <<Leaf(here)>>) ELSE nodes
       /\ cursor' = IF KindOf(tokens[here]) = item.kind /\ here < Len(tokens) THEN here + 1 ELSE here
    /\ Then(<<>>)
    /\ UNCHANGED <<tokens, diagnostics>>

(* expect drops trivia, takes the token or reports it missing.             *)
expect ==
    /\ Running("expect")
    /\ LET here == Nth(cursor, 1) IN
       IF KindOf(tokens[here]) = item.kind
       THEN /\ nodes' = Push(nodes, <<Leaf(here)>>)
            /\ cursor' = IF here < Len(tokens) THEN here + 1 ELSE here
            /\ UNCHANGED diagnostics
       ELSE /\ cursor' = here
            /\ diagnostics' = diagnostics \union {<<"parse.expected-token", here>>}
            /\ UNCHANGED nodes
    /\ Then(<<>>)
    /\ UNCHANGED tokens

(* A procedure starts: its items replace the call.                         *)
call ==
    /\ \/ Running("call") /\ item.name = "item" /\ Then(Procedure[ItemKinds[current]])
       \/ Running("call") /\ item.name # "item" /\ Then(Procedure[item.name])
       \/ /\ Running("primary")
          /\ Then(IF peek_non_trivia_kind \in DOMAIN Primary
                  THEN Primary[peek_non_trivia_kind] ELSE parse_error_expr)
    /\ UNCHANGED <<tokens, cursor, nodes, diagnostics>>

(* parse_expr_bp: an operand, then the operators that bind at least as     *)
(* tightly as min.                                                         *)
parse_expr_bp ==
    /\ \/ Running("expr") /\ Then(<<Call("postfix_expr"), Infix(item.min)>>)
       \/ /\ Running("infix")
          /\ LET op == peek_non_trivia_kind IN
             IF op \in DOMAIN infix_binding_power /\ infix_binding_power[op][1] >= item.min
             THEN Then(<<Wrap("ExprBinary"), Trivia, Expect(op), Trivia,
                         Expr(infix_binding_power[op][2]), Close, item>>)
             ELSE Then(<<>>)
    /\ UNCHANGED <<tokens, cursor, nodes, diagnostics>>

(* Node::new: the children gathered so far become one node.                *)
build ==
    /\ \/ Running("open") /\ nodes' = Append(nodes, Branch(item.kind, <<>>))
       \/ Running("close") /\ nodes' = Push(Front(nodes), <<Top>>)
       \/ /\ Running("wrap")
          /\ nodes' = Append([nodes EXCEPT ![Len(nodes)].children = Front(@)],
                             Branch(item.kind, <<Last(Top.children)>>))
       \/ /\ Running("adopt")
          /\ nodes' = Push(Front(nodes),
                           <<[Last(Top.children) EXCEPT !.children = Front(Top.children) \o @]>>)
       \/ Running("spill") /\ nodes' = Push(Front(nodes), Top.children)
    /\ Then(<<>>)
    /\ UNCHANGED <<tokens, cursor, diagnostics>>

branch ==
    /\ \/ Running("when") /\ Then(IF Holds(item.test) THEN item.then ELSE item.else)
       \/ /\ Running("while") \/ Running("again")
          /\ Then(IF Holds(item.test) THEN item.body \o <<Again(item)>> ELSE <<>>)
       \/ /\ Running("break")
          /\ todo' = LET i == CHOOSE i \in 1..Len(todo) :
                                /\ todo[i].op = "again"
                                /\ \A j \in 1..i - 1 : todo[j].op # "again"
                     IN  SubSeq(todo, i + 1, Len(todo))
    /\ UNCHANGED <<tokens, cursor, nodes, diagnostics>>

Step == bump \/ report \/ collect_trivia \/ expect \/ call \/ parse_expr_bp \/ build \/ branch

Next == Start \/ Step

(* The parser is one thread that runs until it returns.                    *)
Spec == Init /\ [][Next]_vars /\ WF_vars(Step)

----------------------------------------------------------------------------
(* Properties.                                                             *)

Done == Len(tokens) > 1 /\ todo = <<>>

root == nodes[1].children[1]

(* The source positions under a sequence of elements, in order.            *)
RECURSIVE Positions(_)
Positions(elements) ==
    IF elements = <<>> THEN <<>>
    ELSE (IF Head(elements).kind = "Token" THEN <<Head(elements).at>>
          ELSE Positions(Head(elements).children)) \o Positions(Tail(elements))

(* The tree under construction holds the tokens behind the cursor, each    *)
(* once and in source order: neither a Wrap around an operand nor the      *)
(* recovery from a missing token loses or repeats one.  Trivia that expect *)
(* skips and the Eof, which bump may return again, are not counted.        *)
TokensInOrder ==
    LET Kept(i) == Significant(i) /\ i < Len(tokens)
        behind == SelectSeq([i \in 1..cursor - 1 |-> i], Kept)
    IN  SelectSeq(Positions(nodes), Kept) = behind

(* "Lossless": the tree of a source accepted without a diagnostic holds    *)
(* every token, trivia included, so the source can be printed from it.     *)
AcceptedIsLossless ==
    Done /\ diagnostics = {} => Positions(<<root>>) = [i \in 1..Len(tokens) |-> i]

(* The brackets of tokens[lo..hi] are properly nested: every closing one   *)
(* meets the nearest one still open, of its own kind.                      *)
Partner == [RParen |-> "LParen", RBracket |-> "LBracket", RBrace |-> "LBrace"]

Nested(lo, hi) ==
    /\ Depth(lo, hi) = 0
    /\ \A j \in lo..hi : tokens[j] \in Closing =>
          \E i \in lo..j : /\ Depth(i, j) = 0
                          /\ tokens[i] = Partner[tokens[j]]
                          /\ \A k \in i + 1..j : Depth(k, j) < 0

RECURSIVE Subnodes(_)
Subnodes(node) == 
    {node} \union UNION {Subnodes(node.children[i]) : 
                         i \in {j \in DOMAIN node.children : node.children[j].kind # "Token"}}

(* A source accepted without a diagnostic has properly nested brackets,    *)
(* and so has the text of every node: no procedure returns in the middle   *)
(* of a bracket that it or one of its callees opened.                      *)
AcceptedIsNested ==
    Done /\ diagnostics = {} => 
        \A node \in Subnodes(root) : 
            LET covered == Positions(<<node>>)
            IN  covered # <<>> => Nested(Head(covered), Last(covered))

(* The levels of the binary operators, loosest first.                      *)
Levels ==
    <<{"KwOr"}, {"KwAnd"}, {"Pipe"}, {"Caret"}, {"Amp"},
      {"EqEq", "NotEq", "Lt", "Le", "Gt", "Ge"}, {"Shl", "Shr"}, {"Plus", "Minus"},
      {"Star", "Slash", "Percent"}>>

(* The operator of a binary expression: the child between the operands.    *)
Operator(node) == 
    tokens[SelectSeq(node.children, LAMBDA c : c.kind = "Token" /\ Significant(c.at))[1].at]

Level(op) == CHOOSE l \in DOMAIN Levels : op \in Levels[l]

(* Binary operators associate to the left and bind by level: under an      *)
(* operator, the left operand is a binary expression of the same or of a   *)
(* tighter level, the right operand one of a tighter level.                *)
BindsByLevel ==
    Done /\ diagnostics = {} =>
        \A node \in Subnodes(root) : node.kind = "ExprBinary" =>
            LET level == Level(Operator(node))
                left == Head(node.children)
                right == Last(node.children)
            IN  /\ left.kind = "ExprBinary" => Level(Operator(left)) >= level
                /\ right.kind = "ExprBinary" => Level(Operator(right)) > level

(* The parser returns on every source.                                     *)
ParseEnds == (tokens # <<"Eof">>) ~> Done
=============================================================================
