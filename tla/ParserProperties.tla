-------------------------- MODULE ParserProperties --------------------------
(***************************************************************************)
(* What is expected of the tree and of the reports the parser leaves.      *)
(***************************************************************************)
EXTENDS Parser, FiniteSets, Integers

LOCAL INSTANCE SequencesExt

FrameType == [fn : {"run", "signature", "parameters", "parameter", "more_parameters", "outputs",
                    "output", "more_outputs", "body", "defined", "block", "statement",
                    "expression", "tail", "return_values", "operand", "arguments"},
              node : 0..Len(nodes),
              precedence : statement..postfix]

Operators(table) == {table[kind] : kind \in DOMAIN table}

NodeOp ==
  {"none", "private", "public", "shr", "greater"} \cup LiteralKind
    \cup Operators(PrefixOperator) \cup Operators(PostfixOperator)
    \cup Operators(AssignOperator) \cup Operators(LogicalOperator) \cup Operators(ComparisonOperator)
    \cup Operators(AdditiveOperator) \cup Operators(MultiplicativeOperator)

NodeType == [kind : NodeKind, op : NodeOp, offset : 0..source_size_max,
             children : Seq(1..Len(nodes))]

(***************************************************************************)
(* The types of the variables: the cursor stays in the list, the bottom of *)
(* the stack is run, and every pointer is to a node that exists.           *)
(***************************************************************************)
TypeOK ==
  /\ tokens \in Seq(TokenType)
  /\ it \in 1..Len(tokens)
  /\ stack \in Seq(FrameType)
  /\ Len(stack) > 0
  /\ mode \in {"go", "return", "throw", "done"}
  /\ value \in 0..Len(nodes)
  /\ nodes \in Seq(NodeType)
  /\ definitions \in Seq(1..Len(nodes))
  /\ reports \in Seq([message : Message, at : 1..Len(tokens)])

-----------------------------------------------------------------------------
(* The grammar, written as what each node stands for in the token list. *)

BinarySpelling ==
  [add |-> "plus", sub |-> "minus", mul |-> "star", div |-> "slash", rem |-> "percent",
   bit_and |-> "ampersand", bit_or |-> "pipe", bit_xor |-> "tilde", shl |-> "l_angle_angle",
   eq |-> "eq_eq", neq |-> "bang_eq", less |-> "l_angle", less_eq |-> "l_angle_eq",
   greater |-> "r_angle", greater_eq |-> "r_angle_eq", logic_and |-> "and_and",
   logic_or |-> "pipe_pipe", assign |-> "eq", add_assign |-> "plus_eq",
   sub_assign |-> "minus_eq", mul_assign |-> "star_eq", div_assign |-> "slash_eq",
   rem_assign |-> "percent_eq", bit_and_assign |-> "ampersand_eq", bit_or_assign |-> "pipe_eq",
   xor_assign |-> "tilde_eq", shl_assign |-> "l_angle_angle_eq",
   shr_assign |-> "r_angle_angle_eq", logic_and_assign |-> "and_and_eq",
   logic_or_assign |-> "pipe_pipe_eq"]

BinaryTokens(op) == IF op = "shr" THEN <<"r_angle", "r_angle">> ELSE <<BinarySpelling[op]>>

PrefixSpelling ==
  [addr_of |-> "ampersand", negate |-> "minus", bit_not |-> "tilde", logic_not |-> "bang",
   pre_increment |-> "plus_plus", pre_decrement |-> "minus_minus"]

PostfixSpelling ==
  [deref |-> "caret", post_increment |-> "plus_plus", post_decrement |-> "minus_minus"]

PrefixNode(n) == nodes[n].kind = "unary_expr" /\ nodes[n].op \in DOMAIN PrefixSpelling

ChildrenOf(n, kinds) == SelectSeq(nodes[n].children, LAMBDA c : nodes[c].kind \in kinds)

SeparatedBy(separator, lists) ==
  FoldLeft(LAMBDA all, list : IF all = <<>> THEN list ELSE all \o <<separator>> \o list, <<>>, lists)

(* The kinds of the tokens that node n was parsed from, if it was parsed without a report. *)
Unparse ==
  LET unparse[n \in 1..Len(nodes)] ==
        LET node == nodes[n]
            each(list) == [i \in 1..Len(list) |-> unparse[list[i]]]
            statements(list) ==
              FoldLeft(LAMBDA all, c :
                         all \o unparse[c] \o (IF nodes[c].kind = "block_expr" THEN <<>> ELSE <<"semicolon">>),
                       <<>>, list)
        IN  CASE node.kind = "ident_expr" -> <<"identifier">>
              [] node.kind = "literal_expr" -> <<node.op>>
              [] node.kind = "function_parameter" -> <<"identifier", "identifier">>
              [] node.kind = "function_output" -> <<"identifier">>
              [] node.kind = "block_expr" -> <<"l_brace">> \o statements(node.children) \o <<"r_brace">>
              [] node.kind = "return_expr" ->
                   <<"kw_return">> \o SeparatedBy("comma", each(node.children))
              [] node.kind = "unary_expr" ->
                   IF PrefixNode(n) THEN <<PrefixSpelling[node.op]>> \o unparse[node.children[1]]
                   ELSE unparse[node.children[1]] \o <<PostfixSpelling[node.op]>>
              [] node.kind = "binary_expr" ->
                   unparse[node.children[1]] \o BinaryTokens(node.op) \o unparse[node.children[2]]
              [] node.kind = "call_expr" ->
                   unparse[node.children[1]] \o <<"l_paren">>
                     \o SeparatedBy("comma", each(Tail(node.children))) \o <<"r_paren">>
              [] node.kind = "function_def" ->
                   LET parameters == ChildrenOf(n, {"function_parameter"})
                       outputs == ChildrenOf(n, {"function_output"})
                       body == ChildrenOf(n, NodeKind \ {"function_parameter", "function_output"})
                   IN  (CASE node.op = "private" -> <<"kw_private">>
                          [] node.op = "public" -> <<"kw_public">>
                          [] OTHER -> <<>>)
                         \o <<"identifier", "l_paren">>
                         \o SeparatedBy("comma", each(parameters)) \o <<"r_paren">>
                         \o (IF outputs = <<>> THEN <<>>
                             ELSE <<"thin_arrow">> \o SeparatedBy("comma", each(outputs)))
                         \o <<"l_brace">> \o statements(body) \o <<"r_brace">>
  IN  unparse

(***************************************************************************)
(* When nothing was reported, the tree holds the whole list: writing its   *)
(* definitions out again gives the tokens that were parsed, so no token    *)
(* was skipped, taken twice or moved, and no error went unnoticed.         *)
(***************************************************************************)
RoundTrip ==
  mode = "done" /\ reports = <<>> =>
    FoldLeft(LAMBDA all, n : all \o Unparse[n], <<>>, definitions)
      = [i \in 1..(Len(tokens) - 1) |-> tokens[i].kind]

-----------------------------------------------------------------------------
(* The operators of each level, from loosest to tightest. *)
Levels == <<{"assign", "add_assign", "sub_assign", "mul_assign", "div_assign", "rem_assign",
             "bit_and_assign", "bit_or_assign", "xor_assign", "shl_assign", "shr_assign",
             "logic_and_assign", "logic_or_assign"},
            {"logic_and", "logic_or"},
            {"eq", "neq", "less", "less_eq", "greater", "greater_eq"},
            {"add", "sub", "bit_and", "bit_or", "bit_xor", "shl", "shr"},
            {"mul", "div", "rem"}>>

Level(n) == CHOOSE i \in 1..Len(Levels) : nodes[n].op \in Levels[i]

BinaryNode(n) == nodes[n].kind = "binary_expr"

ReturnsValues(n) == nodes[n].kind = "return_expr" /\ nodes[n].children # <<>>

(* The expressions that a postfix operator or a call can directly follow. *)
Tight(n) == ~BinaryNode(n) /\ ~PrefixNode(n) /\ ~ReturnsValues(n)

(***************************************************************************)
(* Trees group as the precedence levels say: a binary operator has to its  *)
(* left nothing looser and to its right only what binds tighter (operators *)
(* of one level group to the left), prefix operators bind tighter than     *)
(* binary ones and postfix operators tightest, and a return takes all of   *)
(* the expression that follows it.  With RoundTrip this fixes the tree of  *)
(* every expression.  (A return without a value is an operand like any     *)
(* other: no kind that continues an expression only can begin a value.)    *)
(***************************************************************************)
PrecedenceRespected ==
  \A n \in 1..Len(nodes) :
    LET child == nodes[n].children IN
    /\ nodes[n].kind = "binary_expr" =>
         /\ ~ReturnsValues(child[1])
         /\ BinaryNode(child[1]) => Level(child[1]) >= Level(n)
         /\ Len(child) = 2 /\ BinaryNode(child[2]) => Level(child[2]) > Level(n)
    /\ PrefixNode(n) /\ Len(child) = 1 => ~BinaryNode(child[1])
    /\ nodes[n].kind = "unary_expr" /\ ~PrefixNode(n) => Tight(child[1])
    /\ nodes[n].kind = "call_expr" => Tight(child[1])

(* The token at p is a > and another one follows it without a byte between them. *)
Adjacent(p) ==
  /\ p < Len(tokens)
  /\ tokens[p].kind = "r_angle" /\ tokens[p + 1].kind = "r_angle"
  /\ tokens[p + 1].offset - tokens[p].offset = Len(Lexeme["r_angle"])

(***************************************************************************)
(* Two > are a shift exactly when nothing stands between them: there are   *)
(* as many shr nodes as adjacent pairs when nothing was reported.          *)
(***************************************************************************)
ShiftsAreAdjacent ==
  mode = "done" /\ reports = <<>> =>
    Cardinality({n \in 1..Len(nodes) : nodes[n].op = "shr"})
      = Cardinality({p \in 1..Len(tokens) : Adjacent(p)})

-----------------------------------------------------------------------------
(***************************************************************************)
(* Errors do not pile up: each report is about a token after the one       *)
(* before it, except at the end of the file, where each block that is      *)
(* still open may complain once.                                           *)
(***************************************************************************)
ReportsInOrder ==
  /\ \A i \in 1..Len(reports), j \in 1..Len(reports) :
       i < j => \/ reports[i].at < reports[j].at
                \/ reports[i].at = Len(tokens) /\ reports[j].at = Len(tokens)
  /\ LET atEnd == {i \in 1..Len(reports) : reports[i].at = Len(tokens)}
         braces == {p \in 1..Len(tokens) : tokens[p].kind = "l_brace"}
     IN  Cardinality(atEnd) <= Cardinality(braces) + 1

PlainDefinition == <<"kw_private", "identifier", "l_paren", "r_paren", "l_brace", "r_brace">>

(* The indices at which the list spells  private name ( ) { } *)
PlainDefinitions ==
  {p \in 1..(Len(tokens) - 6) : \A i \in 1..6 : tokens[p + i - 1].kind = PlainDefinition[i]}

IsDefined(p) == \E i \in 1..Len(definitions) : nodes[definitions[i]].offset = tokens[p].offset

(* From index q, p is reached without passing a token at which a statement can end. *)
Unbroken(q, p) == q <= p /\ \A k \in q..(p - 1) : tokens[k].kind \notin {"semicolon", "r_brace"}

(* The report that explains why the definition at p is missing. *)
Explained(p) == \E i \in 1..Len(reports) : Unbroken(reports[i].at, p)

(***************************************************************************)
(* Recovery loses little: a well-formed private definition that is not in  *)
(* the tree was lost to an error at its own modifier, or before it in the  *)
(* same statement.  Each report costs at most the definition that follows  *)
(* it, whatever the nesting in which the error is met.                     *)
(***************************************************************************)
RecoveryLosesLittle ==
  mode = "done" => \A p \in PlainDefinitions : ~IsDefined(p) => Explained(p)

(***************************************************************************)
(* run_parser returns for every list: each catch of a ParseError moves the *)
(* cursor on or leaves the loop.                                           *)
(***************************************************************************)
Termination == <>(mode = "done")

(***************************************************************************)
(* A parameter without a name makes the parser "abort parsing and recover  *)
(* at the next definition": a well-formed definition that begins at or     *)
(* after the token of the error is in the tree.                            *)
(***************************************************************************)
RecoversAtNextDefinition ==
  mode = "done" =>
    \A i \in 1..Len(reports) : reports[i].message = "expect_parameter_name" =>
      \A p \in PlainDefinitions : p >= reports[i].at => IsDefined(p)
=============================================================================
