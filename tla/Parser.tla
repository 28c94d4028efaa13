------------------------------- MODULE Parser -------------------------------
(***************************************************************************)
(* The parser of cero (cero/syntax/parser.cc): recursive descent over the  *)
(* token list, operator precedence for expressions, and two levels of      *)
(* error recovery.                                                         *)
(*                                                                         *)
(* The call stack is explicit: a frame is a function that waits for a      *)
(* callee, with the node it is filling in.  mode tells whether the top     *)
(* frame goes on, receives the node its callee returns, or is left by a    *)
(* ParseError.  Only the two functions that catch ParseError, run and      *)
(* parse_block, stop the unwinding.                                        *)
(*                                                                         *)
(* Nodes live in an arena and refer to their children by index.  Names and *)
(* lengths are left out.                                                   *)
(*                                                                         *)
(* Definitions with an underscore suffix (Name_Mistake) are mistakes the   *)
(* code does not make; no specification uses them.                         *)
(***************************************************************************)
EXTENDS Token

CONSTANT Inputs   \* the token lists to parse

(* Every list ends with its only end_of_file token, as the lexer leaves it. *)
ASSUME InputsAssumption ==
  /\ Inputs \subseteq Seq(TokenType)
  /\ \A list \in Inputs :
       /\ Len(list) > 0
       /\ \A i \in 1..Len(list) : list[i].kind = "end_of_file" <=> i = Len(list)

VARIABLES
  tokens,       \* the token list
  it,           \* index of the token the cursor is at
  stack,        \* the call stack, innermost frame first
  mode,         \* what the top frame is about to do
  value,        \* the node that is being returned, 0 when none is
  nodes,        \* the AST nodes in the arena
  definitions,  \* ast_.root_->definitions
  reports       \* what the reporter has received: message and index of the token

vars == <<tokens, it, stack, mode, value, nodes, definitions, reports>>

NodeKind == {"function_def", "function_parameter", "function_output", "ident_expr",
             "literal_expr", "block_expr", "return_expr", "unary_expr", "binary_expr",
             "call_expr"}

Message == {"expect_function_struct_or_enum", "expect_paren_after_function_name",
            "expect_parameter_type", "expect_parameter_name", "expect_paren_after_parameters",
            "expect_return_type", "expect_brace_before_function_body", "expect_semicolon",
            "expect_expression", "expect_closing_paren_in_call"}

(* enum class Precedence, from loosest to tightest. *)
statement       == 0
assignment      == 1
logical         == 2
comparison      == 3
additive_or_bit == 4
multiplicative  == 5
prefix          == 6
postfix         == 7

-----------------------------------------------------------------------------
(* Tables *)

LiteralKind == NumericKind \cup QuotedKind

PrefixOperator ==
  [ampersand |-> "addr_of", minus |-> "negate", tilde |-> "bit_not", bang |-> "logic_not",
   plus_plus |-> "pre_increment", minus_minus |-> "pre_decrement"]

PostfixOperator ==
  [caret |-> "deref", plus_plus |-> "post_increment", minus_minus |-> "post_decrement"]

(* The kinds for which lookup_head_parse_fn has a function. *)
HeadKind == {"identifier", "l_brace", "kw_return"} \cup LiteralKind \cup DOMAIN PrefixOperator

AssignOperator ==
  [eq |-> "assign", plus_eq |-> "add_assign", minus_eq |-> "sub_assign",
   star_eq |-> "mul_assign", slash_eq |-> "div_assign", percent_eq |-> "rem_assign",
   ampersand_eq |-> "bit_and_assign", pipe_eq |-> "bit_or_assign", tilde_eq |-> "xor_assign",
   l_angle_angle_eq |-> "shl_assign", r_angle_angle_eq |-> "shr_assign",
   and_and_eq |-> "logic_and_assign", pipe_pipe_eq |-> "logic_or_assign"]

LogicalOperator == [and_and |-> "logic_and", pipe_pipe |-> "logic_or"]

ComparisonOperator ==
  [eq_eq |-> "eq", bang_eq |-> "neq", l_angle |-> "less", l_angle_eq |-> "less_eq",
   r_angle_eq |-> "greater_eq"]

AdditiveOperator ==
  [plus |-> "add", minus |-> "sub", ampersand |-> "bit_and", pipe |-> "bit_or",
   tilde |-> "bit_xor", l_angle_angle |-> "shl"]

MultiplicativeOperator == [star |-> "mul", slash |-> "div", percent |-> "rem"]

(* Mistake: the table that lookup_tail_parse_rule uses puts the bit operators elsewhere. *)
lookup_precedence_for_associativity_BitAsComparison(op) ==
  CASE op \in {"add", "sub"} -> additive_or_bit
    [] op \in {"mul", "div", "rem"} -> multiplicative
    [] op \in {"logic_and", "logic_or"} -> logical
    [] op \in {"eq", "neq", "less", "less_eq", "greater", "greater_eq",
               "bit_and", "bit_or", "bit_xor", "shl", "shr"} -> comparison
    [] OTHER -> assignment

(* lookup_precedence_for_associativity: what the right operand must bind tighter than. *)
lookup_precedence_for_associativity(op) ==
  CASE op \in {"add", "sub", "bit_and", "bit_or", "bit_xor", "shl", "shr"} -> additive_or_bit
    [] op \in {"mul", "div", "rem"} -> multiplicative
    [] op \in {"eq", "neq", "less", "less_eq", "greater", "greater_eq"} -> comparison
    [] op \in {"logic_and", "logic_or"} -> logical
    [] OTHER -> assignment

-----------------------------------------------------------------------------
(* The cursor (token_cursor.hh): it stops at the end_of_file token. *)

peek == tokens[it].kind

(* The index after p, or p itself at the end. *)
After(p) == IF tokens[p].kind = "end_of_file" THEN p ELSE p + 1

Advance == it' = After(it)

(* Mistake: any two > in a row are a shift. *)
ShiftAt_AnyGap(p) == tokens[p].kind = "r_angle" /\ tokens[After(p)].kind = "r_angle"

(* The token at p is the first of two > without anything between them. *)
ShiftAt(p) ==
  LET next == tokens[After(p)]
  IN  tokens[p].kind = "r_angle" /\ next.kind = "r_angle" /\ next.offset = tokens[p].offset + 1

(* lookup_tail_parse_rule for the token at p: its precedence and, for a binary operator, which. *)
TailRule(p) ==
  LET kind == tokens[p].kind
      rule(precedence, op) == [precedence |-> precedence, op |-> op]
  IN  CASE kind \in DOMAIN AssignOperator -> rule(assignment, AssignOperator[kind])
        [] kind \in DOMAIN LogicalOperator -> rule(logical, LogicalOperator[kind])
        [] kind \in DOMAIN ComparisonOperator -> rule(comparison, ComparisonOperator[kind])
        [] kind \in DOMAIN AdditiveOperator -> rule(additive_or_bit, AdditiveOperator[kind])
        [] kind \in DOMAIN MultiplicativeOperator -> rule(multiplicative, MultiplicativeOperator[kind])
        [] kind \in DOMAIN PostfixOperator -> rule(postfix, PostfixOperator[kind])
        [] kind = "l_paren" -> rule(postfix, "call")
        [] kind = "r_angle" -> IF ShiftAt(p) THEN rule(additive_or_bit, "shr")
                                             ELSE rule(comparison, "greater")
        [] OTHER -> rule(statement, "none")

-----------------------------------------------------------------------------
(* The stack and the arena. *)

Frame(fn, node, precedence) == [fn |-> fn, node |-> node, precedence |-> precedence]

Top == Head(stack)

At(fn) == mode = "go" /\ Top.fn = fn

(* The callee of a frame waiting in fn returns its node to it. *)
Receives(fn) == mode = "return" /\ Top.fn = fn

(* The top frame goes on at another point of its function. *)
Become(fn) == stack' = <<[Top EXCEPT !.fn = fn]>> \o Tail(stack)

Call(frame) == stack' = <<frame>> \o stack

(* The top frame goes on at fn once the callee has returned. *)
BecomeAndCall(fn, frame) == stack' = <<frame, [Top EXCEPT !.fn = fn]>> \o Tail(stack)

Return(node) == stack' = Tail(stack) /\ mode' = "return" /\ value' = node

Continue == mode' = "go" /\ value' = 0

Node(kind, op, offset, children) ==
  [kind |-> kind, op |-> op, offset |-> offset, children |-> children]

NewId == Len(nodes) + 1

Create(node) == nodes' = Append(nodes, node)

(* put: the list of children of node id grows by child. *)
WithChild(arena, id, child) == [arena EXCEPT ![id].children = Append(@, child)]

ReportAt(message, p) == reports' = Append(reports, [message |-> message, at |-> p])

(* report_expected for the token at p, reached with this arena, and throw ParseError. *)
FailAt(message, p, arena) ==
  /\ it' = p
  /\ nodes' = arena
  /\ ReportAt(message, p)
  /\ mode' = "throw"
  /\ value' = 0
  /\ UNCHANGED <<tokens, stack, definitions>>

Fail(message) == FailAt(message, it, nodes)

(* expect: match the kind and go on at fn, or fail. *)
Expect(kind, message, fn) ==
  \/ /\ peek = kind
     /\ Advance
     /\ Become(fn)
     /\ UNCHANGED <<tokens, mode, value, nodes, definitions, reports>>
  \/ peek # kind /\ Fail(message)

Expression(precedence) == Frame("expression", 0, precedence)

-----------------------------------------------------------------------------
(* Definitions *)

FinishRun ==
  /\ At("run")
  /\ peek = "end_of_file"
  /\ mode' = "done"
  /\ UNCHANGED <<tokens, it, stack, value, nodes, definitions, reports>>

Modifier == [kw_private |-> "private", kw_public |-> "public"]

(* parse_definition: an optional access modifier, then the name of a function. *)
parse_definition ==
  /\ At("run")
  /\ peek # "end_of_file"
  /\ LET named == IF peek \in DOMAIN Modifier THEN After(it) ELSE it
         access == IF peek \in DOMAIN Modifier THEN Modifier[peek] ELSE "none"
     IN  \/ /\ tokens[named].kind = "identifier"
            /\ Create(Node("function_def", access, tokens[it].offset, <<>>))
            /\ it' = After(named)
            /\ Call(Frame("signature", NewId, statement))
            /\ UNCHANGED <<tokens, mode, value, definitions, reports>>
         \/ /\ tokens[named].kind # "identifier"
            /\ FailAt("expect_function_struct_or_enum", named, nodes)

PutDefinition ==
  /\ Receives("run")
  /\ definitions' = Append(definitions, value)
  /\ Continue
  /\ UNCHANGED <<tokens, it, stack, nodes, reports>>

ExpectParen ==
  /\ At("signature")
  /\ Expect("l_paren", "expect_paren_after_function_name", "parameters")

NoParameters ==
  /\ At("parameters")
  /\ peek = "r_paren"
  /\ Advance
  /\ Become("outputs")
  /\ UNCHANGED <<tokens, mode, value, nodes, definitions, reports>>

SomeParameters ==
  /\ At("parameters")
  /\ peek # "r_paren"
  /\ Become("parameter")
  /\ UNCHANGED <<tokens, it, mode, value, nodes, definitions, reports>>

(* The arena after the node of a parameter or output, and after its type, have been created. *)
WithNode(kind) == Append(nodes, Node(kind, "none", tokens[it].offset, <<>>))

WithType(kind) == nodes \o <<Node(kind, "none", tokens[it].offset, <<NewId + 1>>),
                             Node("ident_expr", "none", tokens[it].offset, <<>>)>>

(* A missing type or name aborts the definition; the nodes created so far stay behind, unused. *)
parse_function_definition_parameter ==
  /\ At("parameter")
  /\ \/ /\ peek # "identifier"
        /\ FailAt("expect_parameter_type", it, WithNode("function_parameter"))
     \/ /\ peek = "identifier"
        /\ tokens[After(it)].kind # "identifier"
        /\ FailAt("expect_parameter_name", After(it), WithType("function_parameter"))
     \/ /\ peek = "identifier"
        /\ tokens[After(it)].kind = "identifier"
        /\ nodes' = WithChild(WithType("function_parameter"), Top.node, NewId)
        /\ it' = After(After(it))
        /\ Become("more_parameters")
        /\ UNCHANGED <<tokens, mode, value, definitions, reports>>

MoreParameters ==
  /\ At("more_parameters")
  /\ \/ /\ peek = "comma"
        /\ Advance
        /\ Become("parameter")
        /\ UNCHANGED <<tokens, mode, value, nodes, definitions, reports>>
     \/ /\ peek # "comma"
        /\ Expect("r_paren", "expect_paren_after_parameters", "outputs")

parse_function_definition_outputs ==
  /\ At("outputs")
  /\ IF peek = "thin_arrow" THEN Advance /\ Become("output") ELSE UNCHANGED it /\ Become("body")
  /\ UNCHANGED <<tokens, mode, value, nodes, definitions, reports>>

parse_function_definition_output ==
  /\ At("output")
  /\ \/ /\ peek # "identifier"
        /\ FailAt("expect_return_type", it, WithNode("function_output"))
     \/ /\ peek = "identifier"
        /\ nodes' = WithChild(WithType("function_output"), Top.node, NewId)
        /\ Advance
        /\ Become("more_outputs")
        /\ UNCHANGED <<tokens, mode, value, definitions, reports>>

MoreOutputs ==
  /\ At("more_outputs")
  /\ IF peek = "comma" THEN Advance /\ Become("output") ELSE UNCHANGED it /\ Become("body")
  /\ UNCHANGED <<tokens, mode, value, nodes, definitions, reports>>

ExpectBody ==
  /\ At("body")
  /\ \/ /\ peek = "l_brace"
        /\ Advance
        /\ BecomeAndCall("defined", Frame("block", Top.node, statement))
        /\ UNCHANGED <<tokens, mode, value, nodes, definitions, reports>>
     \/ peek # "l_brace" /\ Fail("expect_brace_before_function_body")

ReturnDefinition ==
  /\ Receives("defined")
  /\ Return(Top.node)
  /\ UNCHANGED <<tokens, it, nodes, definitions, reports>>

(* Mistake: definitions that begin with a modifier are not recovered at. *)
recovery_tokens_NoModifiers == {"kw_struct", "kw_enum", "end_of_file"}

recovery_tokens == {"kw_public", "kw_private", "kw_struct", "kw_enum", "end_of_file"}

(* One round of the do-while loop: the token of the error itself is always passed. *)
recover_at_definition_level ==
  /\ mode = "throw"
  /\ Top.fn = "run"
  /\ Advance
  /\ mode' = IF tokens[After(it)].kind \in recovery_tokens THEN "go" ELSE "throw"
  /\ UNCHANGED <<tokens, stack, value, nodes, definitions, reports>>

-----------------------------------------------------------------------------
(* Statements: the frame "block" is the loop of parse_block. *)

CloseBlock ==
  /\ At("block")
  /\ peek = "r_brace"
  /\ Advance
  /\ Return(Top.node)
  /\ UNCHANGED <<tokens, nodes, definitions, reports>>

(* A block in place of a statement needs no semicolon; any other statement does. *)
parse_statement ==
  /\ At("block")
  /\ \/ /\ peek = "l_brace"
        /\ Create(Node("block_expr", "none", tokens[it].offset, <<>>))
        /\ Advance
        /\ Call(Frame("block", NewId, statement))
     \/ /\ peek \notin {"l_brace", "r_brace"}
        /\ stack' = <<Expression(statement), Frame("statement", 0, statement)>> \o stack
        /\ UNCHANGED <<it, nodes>>
  /\ UNCHANGED <<tokens, mode, value, definitions, reports>>

ExpectSemicolon ==
  /\ Receives("statement")
  /\ \/ /\ peek = "semicolon"
        /\ Advance
        /\ Return(value)
        /\ UNCHANGED <<tokens, nodes, definitions, reports>>
     \/ peek # "semicolon" /\ Fail("expect_semicolon")

(* Mistake: the statement that was parsed is not put into the block. *)
PutStatement_Forgotten ==
  /\ Receives("block")
  /\ Continue
  /\ UNCHANGED <<tokens, it, stack, nodes, definitions, reports>>

PutStatement ==
  /\ Receives("block")
  /\ nodes' = WithChild(nodes, Top.node, value)
  /\ Continue
  /\ UNCHANGED <<tokens, it, stack, definitions, reports>>

(* Mistake: the semicolon at which recovery stops is left for the next statement. *)
recover_at_statement_level_KeepsSemicolon ==
  /\ mode = "throw"
  /\ Top.fn = "block"
  /\ \/ peek = "end_of_file" /\ Return(Top.node) /\ UNCHANGED it
     \/ peek \in {"semicolon", "r_brace"} /\ mode' = "go" /\ UNCHANGED <<it, stack, value>>
     \/ peek \notin {"end_of_file", "semicolon", "r_brace"} /\ Advance /\ UNCHANGED <<mode, stack, value>>
  /\ UNCHANGED <<tokens, nodes, definitions, reports>>

(* Mistake: the end of the file does not stop recovery. *)
recover_at_statement_level_IgnoresEnd ==
  /\ mode = "throw"
  /\ Top.fn = "block"
  /\ \/ peek = "semicolon" /\ Advance /\ mode' = "go"
     \/ peek = "r_brace" /\ mode' = "go" /\ UNCHANGED it
     \/ peek \notin {"semicolon", "r_brace"} /\ Advance /\ UNCHANGED mode
  /\ UNCHANGED <<tokens, stack, value, nodes, definitions, reports>>

(* One round of the loop; at the end of the file the block is left as it is. *)
recover_at_statement_level ==
  /\ mode = "throw"
  /\ Top.fn = "block"
  /\ \/ peek = "end_of_file" /\ Return(Top.node) /\ UNCHANGED it
     \/ peek = "semicolon" /\ Advance /\ mode' = "go" /\ UNCHANGED <<stack, value>>
     \/ peek = "r_brace" /\ mode' = "go" /\ UNCHANGED <<it, stack, value>>
     \/ peek \notin {"end_of_file", "semicolon", "r_brace"} /\ Advance /\ UNCHANGED <<mode, stack, value>>
  /\ UNCHANGED <<tokens, nodes, definitions, reports>>

(* Mistake: run does not catch ParseError. *)
Unwind_Run ==
  /\ mode = "throw"
  /\ Top.fn # "block"
  /\ stack' = Tail(stack)
  /\ UNCHANGED <<tokens, it, mode, value, nodes, definitions, reports>>

(* A function that does not catch ParseError is left. *)
Unwind ==
  /\ mode = "throw"
  /\ Top.fn \notin {"run", "block"}
  /\ stack' = Tail(stack)
  /\ UNCHANGED <<tokens, it, mode, value, nodes, definitions, reports>>

-----------------------------------------------------------------------------
(***************************************************************************)
(* Expressions: the frame "expression" is parse_expression before its head *)
(* and "tail" its loop, with the expression parsed so far as its node.     *)
(***************************************************************************)

ExpressionMissing ==
  /\ At("expression")
  /\ peek \notin HeadKind
  /\ Fail("expect_expression")

(* The head is a node of its own: the loop goes on with it. *)
HeadIs(id) == stack' = <<[Top EXCEPT !.fn = "tail", !.node = id]>> \o Tail(stack)

(* on_identifier and on_literal *)
on_leaf ==
  /\ At("expression")
  /\ peek \in {"identifier"} \cup LiteralKind
  /\ Create(IF peek = "identifier" THEN Node("ident_expr", "none", tokens[it].offset, <<>>)
            ELSE Node("literal_expr", peek, tokens[it].offset, <<>>))
  /\ Advance
  /\ HeadIs(NewId)
  /\ UNCHANGED <<tokens, mode, value, definitions, reports>>

on_prefix_left_brace ==
  /\ At("expression")
  /\ peek = "l_brace"
  /\ Create(Node("block_expr", "none", tokens[it].offset, <<>>))
  /\ Advance
  /\ BecomeAndCall("tail", Frame("block", NewId, statement))
  /\ UNCHANGED <<tokens, mode, value, definitions, reports>>

on_kw_return ==
  /\ At("expression")
  /\ peek = "kw_return"
  /\ Create(Node("return_expr", "none", tokens[it].offset, <<>>))
  /\ Advance
  /\ IF tokens[After(it)].kind \in HeadKind
     THEN stack' = <<Expression(statement), Frame("return_values", NewId, statement),
                     [Top EXCEPT !.fn = "tail"]>> \o Tail(stack)
     ELSE HeadIs(NewId)
  /\ UNCHANGED <<tokens, mode, value, definitions, reports>>

on_prefix_operator ==
  /\ At("expression")
  /\ peek \in DOMAIN PrefixOperator
  /\ Create(Node("unary_expr", PrefixOperator[peek], tokens[it].offset, <<>>))
  /\ Advance
  /\ stack' = <<Expression(prefix), Frame("operand", NewId, statement),
                [Top EXCEPT !.fn = "tail"]>> \o Tail(stack)
  /\ UNCHANGED <<tokens, mode, value, definitions, reports>>

(* The loop of parse_expression receives the expression a head or tail function returns. *)
GoOnWith ==
  /\ Receives("tail")
  /\ HeadIs(value)
  /\ Continue
  /\ UNCHANGED <<tokens, it, nodes, definitions, reports>>

(* The token at the cursor continues the expression at the top. *)
TailFollows == Top.precedence < TailRule(it).precedence

EndExpression ==
  /\ At("tail")
  /\ ~TailFollows
  /\ Return(Top.node)
  /\ UNCHANGED <<tokens, it, nodes, definitions, reports>>

on_binary_operator ==
  /\ At("tail")
  /\ TailFollows
  /\ peek \notin DOMAIN PostfixOperator \cup {"l_paren"}
  /\ LET op == TailRule(it).op
     IN  /\ it' = IF op = "shr" THEN After(After(it)) ELSE After(it)
         /\ Create(Node("binary_expr", op, nodes[Top.node].offset, <<Top.node>>))
         /\ stack' = <<Expression(lookup_precedence_for_associativity(op)),
                       Frame("operand", NewId, statement)>> \o stack
  /\ UNCHANGED <<tokens, mode, value, definitions, reports>>

(* Mistake: the operand is returned in place of the new node. *)
on_postfix_operator_DropsNode ==
  /\ At("tail")
  /\ TailFollows
  /\ peek \in DOMAIN PostfixOperator
  /\ Advance
  /\ Create(Node("unary_expr", PostfixOperator[peek], nodes[Top.node].offset, <<Top.node>>))
  /\ UNCHANGED <<tokens, stack, mode, value, definitions, reports>>

on_postfix_operator ==
  /\ At("tail")
  /\ TailFollows
  /\ peek \in DOMAIN PostfixOperator
  /\ Advance
  /\ Create(Node("unary_expr", PostfixOperator[peek], nodes[Top.node].offset, <<Top.node>>))
  /\ HeadIs(NewId)
  /\ UNCHANGED <<tokens, mode, value, definitions, reports>>

on_infix_left_paren ==
  /\ At("tail")
  /\ TailFollows
  /\ peek = "l_paren"
  /\ Create(Node("call_expr", "none", nodes[Top.node].offset, <<Top.node>>))
  /\ IF tokens[After(it)].kind = "r_paren"
     THEN it' = After(After(it)) /\ HeadIs(NewId)
     ELSE /\ Advance
          /\ stack' = <<Expression(statement), Frame("arguments", NewId, statement)>> \o stack
  /\ UNCHANGED <<tokens, mode, value, definitions, reports>>

TakeOperand ==
  /\ Receives("operand")
  /\ nodes' = WithChild(nodes, Top.node, value)
  /\ Return(Top.node)
  /\ UNCHANGED <<tokens, it, definitions, reports>>

(* Mistake: the last value is not put into the list. *)
TakeReturnValue_DropsLast ==
  /\ Receives("return_values")
  /\ IF peek = "comma"
     THEN Advance /\ Call(Expression(statement)) /\ Continue /\ nodes' = WithChild(nodes, Top.node, value)
     ELSE UNCHANGED <<it, nodes>> /\ Return(Top.node)
  /\ UNCHANGED <<tokens, definitions, reports>>

(* A comma asks for another value. *)
TakeReturnValue ==
  /\ Receives("return_values")
  /\ nodes' = WithChild(nodes, Top.node, value)
  /\ IF peek = "comma"
     THEN Advance /\ Call(Expression(statement)) /\ Continue
     ELSE UNCHANGED it /\ Return(Top.node)
  /\ UNCHANGED <<tokens, definitions, reports>>

TakeArgument ==
  /\ Receives("arguments")
  /\ LET arena == WithChild(nodes, Top.node, value)
     IN  \/ /\ peek = "comma"
            /\ nodes' = arena
            /\ Advance
            /\ Call(Expression(statement))
            /\ Continue
            /\ UNCHANGED <<tokens, definitions, reports>>
         \/ /\ peek = "r_paren"
            /\ nodes' = arena
            /\ Advance
            /\ Return(Top.node)
            /\ UNCHANGED <<tokens, definitions, reports>>
         \/ /\ peek \notin {"comma", "r_paren"}
            /\ FailAt("expect_closing_paren_in_call", it, arena)

-----------------------------------------------------------------------------
(* run_parser has returned. *)
Returned == mode = "done" /\ UNCHANGED vars

Init ==
  /\ tokens \in Inputs
  /\ it = 1
  /\ stack = <<Frame("run", 0, statement)>>
  /\ mode = "go"
  /\ value = 0
  /\ nodes = <<>>
  /\ definitions = <<>>
  /\ reports = <<>>

DefinitionStep ==
  \/ FinishRun \/ parse_definition \/ PutDefinition \/ ExpectParen
  \/ NoParameters \/ SomeParameters \/ parse_function_definition_parameter \/ MoreParameters
  \/ parse_function_definition_outputs \/ parse_function_definition_output \/ MoreOutputs
  \/ ExpectBody \/ ReturnDefinition

StatementStep ==
  CloseBlock \/ parse_statement \/ ExpectSemicolon \/ PutStatement

RecoveryStep ==
  recover_at_definition_level \/ recover_at_statement_level \/ Unwind

HeadStep ==
  ExpressionMissing \/ on_leaf \/ on_prefix_left_brace \/ on_kw_return \/ on_prefix_operator

TailStep ==
  \/ GoOnWith \/ EndExpression \/ on_binary_operator \/ on_postfix_operator
  \/ on_infix_left_paren \/ TakeOperand \/ TakeReturnValue \/ TakeArgument

Next == DefinitionStep \/ StatementStep \/ RecoveryStep \/ HeadStep \/ TailStep \/ Returned

(* run_parser is a sequential call: it keeps executing until it returns. *)
Spec == Init /\ [][Next]_vars /\ WF_vars(Next)
=============================================================================
