-------------------------- MODULE ParserTreeProofs --------------------------
(***************************************************************************)
(* Proofs about trees, for token lists of every length: they group by      *)
(* precedence, shifts are the pairs of angle brackets without a gap, and   *)
(* what recovery loses is explained by a report.                           *)
(*                                                                         *)
(* The code never looks at a tree to decide how to group: parse_expression *)
(* compares the next token with the precedence it was called with.  The    *)
(* invariant relates the two: what a waiting parse_expression was called   *)
(* with is what the operator below it on the stack demands, and no token   *)
(* at the cursor binds tighter than the expression before it allows.       *)
(***************************************************************************)
EXTENDS ParserProofs

LevelOf(op) == CHOOSE i \in 1..Len(Levels) : op \in Levels[i]

IsPrefix(node) == node.kind = "unary_expr" /\ node.op \in DOMAIN PrefixSpelling

(* The nodes whose first child is an expression that they continue. *)
Continues(node) ==
  node.kind \in {"binary_expr", "call_expr"} \/ (node.kind = "unary_expr" /\ ~IsPrefix(node))

(* The nodes that take what follows them as an operand. *)
IsOperator(node) == node.kind = "binary_expr" \/ IsPrefix(node)

(* The tightest precedence that a token can continue the expression with. *)
Ceiling(node) ==
  CASE node.kind = "binary_expr" -> LevelOf(node.op)
    [] IsPrefix(node) -> prefix
    [] node.kind = "return_expr" /\ node.children # <<>> -> statement
    [] OTHER -> postfix

(* Node v is not too loose for an operand of a prefix operator, or right operand, with this ceiling. *)
Binds(arena, v, ceiling) == arena[v].kind = "binary_expr" => Ceiling(arena[v]) > ceiling

FirstOperand(node) == IF IsPrefix(node) THEN 1 ELSE 2

NodeOK(arena, n) ==
  LET node == arena[n] IN
  /\ node.kind = "binary_expr" => LevelOf(node.op) \in assignment..multiplicative
  /\ Continues(node) =>
       Len(node.children) > 0 /\ Ceiling(arena[node.children[1]]) >= Ceiling(node)
  /\ IsOperator(node) =>
       \A c \in FirstOperand(node)..Len(node.children) : Binds(arena, node.children[c], Ceiling(node))

TreeOK(arena) == \A n \in 1..Len(arena) : NodeOK(arena, n)

TreeInv == TreeOK(nodes)

(* The node a frame fills in is of the kind its function creates. *)
FrameKind(arena, frame) ==
  /\ frame.fn \in SignatureFn \cup {"defined"} => arena[frame.node].kind = "function_def"
  /\ frame.fn = "block" => arena[frame.node].kind \in {"function_def", "block_expr"}
  /\ frame.fn = "return_values" => arena[frame.node].kind = "return_expr"
  /\ frame.fn = "arguments" => arena[frame.node].kind = "call_expr"
  /\ frame.fn = "operand" => IsOperator(arena[frame.node])

(* Which function calls which, and with which precedence. *)
Link(arena, below, above) ==
  /\ above.fn \in {"expression", "tail"} =>
       /\ below.fn \in {"statement", "operand", "arguments", "return_values"}
       /\ below.fn = "operand" => above.precedence = Ceiling(arena[below.node])
       /\ below.fn = "return_values" => above.precedence = statement
  /\ above.fn \in {"operand", "arguments", "return_values"} => below.fn = "tail"
  /\ above.fn = "operand" => Binds(arena, above.node, below.precedence)
  /\ above.fn = "block" => below.fn \in {"defined", "block", "tail"}
  /\ above.fn = "statement" => below.fn = "block"
  /\ above.fn \in SignatureFn \cup {"defined"} => below.fn = "run"

FramesInv ==
  /\ \A d \in 1..Len(stack) : FrameKind(nodes, FrameAt(stack, d))
  /\ \A d \in 1..Len(stack) : d > 1 => Link(nodes, FrameAt(stack, d - 1), FrameAt(stack, d))

(***************************************************************************)
(* A return that still takes values is part of nothing else yet, so that   *)
(* what was true of it while it had no values cannot have been relied on.  *)
(***************************************************************************)
Loose(s, keep, n) ==
  \A d \in 1..keep : FrameAt(s, d).fn = "return_values" => FrameAt(s, d).node # n

PendingInv ==
  /\ \A d \in 1..Len(stack) : FrameAt(stack, d).fn = "return_values" =>
       \A e \in 1..Len(stack) : e # d => FrameAt(stack, e).node # FrameAt(stack, d).node
  /\ \A n \in 1..Len(nodes) : \A c \in 1..Len(nodes[n].children) :
       Loose(stack, Len(stack), nodes[n].children[c])
  /\ mode = "return" => Loose(stack, Len(stack), value)

(* How tightly the token at the cursor binds, and what the expression before it allows. *)
Pull == TailRule(it).precedence

CursorOK ==
  /\ At("tail") => Pull <= Ceiling(nodes[Top.node]) /\ Binds(nodes, Top.node, Top.precedence)
  /\ Receives("tail") => Pull <= Ceiling(nodes[value]) /\ Binds(nodes, value, Top.precedence)
  /\ Receives("operand") =>
       Pull <= Ceiling(nodes[Top.node]) /\ Binds(nodes, value, Ceiling(nodes[Top.node]))
  /\ Receives("return_values") => Pull = statement

TInv == TreeInv /\ FramesInv /\ PendingInv /\ CursorOK

-----------------------------------------------------------------------------
(* The tables *)

(* Every binary operator is of one level. *)
LEMMA LevelIs ==
  ASSUME NEW i \in 1..5, NEW op \in Levels[i]
  PROVE  LevelOf(op) = i
<1>1. Len(Levels) = 5
  BY DEF Levels
<1>2. \A j \in 1..5 : op \in Levels[j] => j = i
  <2>1. CASE i = 1
    BY <2>1 DEF Levels
  <2>2. CASE i = 2
    BY <2>2 DEF Levels
  <2>3. CASE i = 3
    BY <2>3 DEF Levels
  <2>4. CASE i = 4
    BY <2>4 DEF Levels
  <2>5. CASE i = 5
    BY <2>5 DEF Levels
  <2> QED
    BY <2>1, <2>2, <2>3, <2>4, <2>5
<1> QED
  BY <1>1, <1>2 DEF LevelOf

(***************************************************************************)
(* The two tables of the code agree with each other and with Levels: the   *)
(* precedence with which a binary operator continues an expression is the  *)
(* one its right operand must bind tighter than.                           *)
(***************************************************************************)
LEMMA TablesAgree ==
  ASSUME NEW p
  PROVE  LET rule == TailRule(p) IN
         \/ tokens[p].kind \in DOMAIN PostfixOperator \cup {"l_paren"} /\ rule.precedence = postfix
         \/ /\ tokens[p].kind \notin DOMAIN PostfixOperator \cup {"l_paren"}
            /\ \/ rule.precedence = statement
               \/ /\ rule.precedence \in assignment..multiplicative
                  /\ LevelOf(rule.op) = rule.precedence
                  /\ lookup_precedence_for_associativity(rule.op) = rule.precedence
<1> DEFINE kind == tokens[p].kind
           rule == TailRule(p)
           Agrees(level) == /\ rule.precedence = level /\ LevelOf(rule.op) = level
                            /\ lookup_precedence_for_associativity(rule.op) = level
                            /\ kind \notin DOMAIN PostfixOperator \cup {"l_paren"}
<1> USE DEF AssignOperator, LogicalOperator, ComparisonOperator, AdditiveOperator,
            MultiplicativeOperator, PostfixOperator
<1>1. ASSUME kind \in DOMAIN AssignOperator PROVE Agrees(assignment)
  <2>1. rule.op = AssignOperator[kind] /\ rule.precedence = assignment
    BY <1>1 DEF TailRule
  <2>2. rule.op \in Levels[1]
    BY <1>1, <2>1 DEF Levels
  <2>3. LevelOf(rule.op) = assignment
    BY <2>2, LevelIs DEF assignment
  <2>4. lookup_precedence_for_associativity(rule.op) = assignment
    BY <2>2 DEF lookup_precedence_for_associativity, Levels
  <2> QED
    BY <1>1, <2>1, <2>3, <2>4
<1>2. ASSUME kind \in DOMAIN LogicalOperator PROVE Agrees(logical)
  <2>1. rule.op = LogicalOperator[kind] /\ rule.precedence = logical
    BY <1>2 DEF TailRule
  <2>2. rule.op \in Levels[2]
    BY <1>2, <2>1 DEF Levels
  <2>3. LevelOf(rule.op) = logical
    BY <2>2, LevelIs DEF logical
  <2>4. lookup_precedence_for_associativity(rule.op) = logical
    BY <2>2 DEF lookup_precedence_for_associativity, Levels
  <2> QED
    BY <1>2, <2>1, <2>3, <2>4
<1>3. ASSUME kind \in DOMAIN ComparisonOperator PROVE Agrees(comparison)
  <2>1. rule.op = ComparisonOperator[kind] /\ rule.precedence = comparison
    BY <1>3 DEF TailRule
  <2>2. rule.op \in Levels[3]
    BY <1>3, <2>1 DEF Levels
  <2>3. LevelOf(rule.op) = comparison
    BY <2>2, LevelIs DEF comparison
  <2>4. lookup_precedence_for_associativity(rule.op) = comparison
    BY <2>2 DEF lookup_precedence_for_associativity, Levels
  <2> QED
    BY <1>3, <2>1, <2>3, <2>4
<1>4. ASSUME kind \in DOMAIN AdditiveOperator PROVE Agrees(additive_or_bit)
  <2>1. rule.op = AdditiveOperator[kind] /\ rule.precedence = additive_or_bit
    BY <1>4 DEF TailRule
  <2>2. rule.op \in Levels[4]
    BY <1>4, <2>1 DEF Levels
  <2>3. LevelOf(rule.op) = additive_or_bit
    BY <2>2, LevelIs DEF additive_or_bit
  <2>4. lookup_precedence_for_associativity(rule.op) = additive_or_bit
    BY <2>2 DEF lookup_precedence_for_associativity, Levels
  <2> QED
    BY <1>4, <2>1, <2>3, <2>4
<1>5. ASSUME kind \in DOMAIN MultiplicativeOperator PROVE Agrees(multiplicative)
  <2>1. rule.op = MultiplicativeOperator[kind] /\ rule.precedence = multiplicative
    BY <1>5 DEF TailRule
  <2>2. rule.op \in Levels[5]
    BY <1>5, <2>1 DEF Levels
  <2>3. LevelOf(rule.op) = multiplicative
    BY <2>2, LevelIs DEF multiplicative
  <2>4. lookup_precedence_for_associativity(rule.op) = multiplicative
    BY <2>2 DEF lookup_precedence_for_associativity, Levels
  <2> QED
    BY <1>5, <2>1, <2>3, <2>4
<1>6. ASSUME kind = "r_angle" PROVE Agrees(comparison) \/ Agrees(additive_or_bit)
  <2>1. \/ rule.op = "shr" /\ rule.precedence = additive_or_bit
        \/ rule.op = "greater" /\ rule.precedence = comparison
    BY <1>6 DEF TailRule
  <2>2. "shr" \in Levels[4] /\ "greater" \in Levels[3]
    BY DEF Levels
  <2>3. LevelOf("shr") = additive_or_bit /\ LevelOf("greater") = comparison
    BY <2>2, LevelIs DEF additive_or_bit, comparison
  <2>4. /\ lookup_precedence_for_associativity("shr") = additive_or_bit
        /\ lookup_precedence_for_associativity("greater") = comparison
    BY DEF lookup_precedence_for_associativity
  <2> QED
    BY <1>6, <2>1, <2>3, <2>4
<1>7. ASSUME kind \in DOMAIN PostfixOperator \cup {"l_paren"} PROVE rule.precedence = postfix
  BY <1>7 DEF TailRule
<1>8. ASSUME kind \notin DOMAIN AssignOperator, kind \notin DOMAIN LogicalOperator,
             kind \notin DOMAIN ComparisonOperator, kind \notin DOMAIN AdditiveOperator,
             kind \notin DOMAIN MultiplicativeOperator, kind # "r_angle",
             kind \notin DOMAIN PostfixOperator \cup {"l_paren"}
      PROVE  rule.precedence = statement
  BY <1>8 DEF TailRule
<1> HIDE DEF kind, rule
<1>9. \A level \in assignment..multiplicative : Agrees(level) =>
        /\ kind \notin DOMAIN PostfixOperator \cup {"l_paren"}
        /\ rule.precedence \in assignment..multiplicative
        /\ LevelOf(rule.op) = rule.precedence
        /\ lookup_precedence_for_associativity(rule.op) = rule.precedence
  OBVIOUS
<1>10. /\ assignment \in assignment..multiplicative /\ logical \in assignment..multiplicative
       /\ comparison \in assignment..multiplicative /\ additive_or_bit \in assignment..multiplicative
       /\ multiplicative \in assignment..multiplicative
  BY DEF assignment, logical, comparison, additive_or_bit, multiplicative
<1> HIDE DEF Agrees, AssignOperator, LogicalOperator, ComparisonOperator, AdditiveOperator,
             MultiplicativeOperator, PostfixOperator
<1> QED
  BY <1>1, <1>2, <1>3, <1>4, <1>5, <1>6, <1>7, <1>8, <1>9, <1>10 DEF kind, rule

-----------------------------------------------------------------------------
(* Ceilings *)

(* What the ceilings are. *)
LEMMA Ceilings ==
  ASSUME NEW node
  PROVE  /\ node.kind = "binary_expr" => Ceiling(node) = LevelOf(node.op)
         /\ IsPrefix(node) => Ceiling(node) = prefix
         /\ node.kind = "return_expr" /\ node.children # <<>> => Ceiling(node) = statement
         /\ \/ node.kind = "binary_expr" \/ IsPrefix(node)
            \/ node.kind = "return_expr" /\ node.children # <<>>
            \/ Ceiling(node) = postfix
BY DEF Ceiling, IsPrefix

(* A node keeps its ceiling, unless it is a return that gets values. *)
LEMMA CeilingKept ==
  ASSUME NEW old, NEW new, new.kind = old.kind, new.op = old.op,
         old.kind # "return_expr" \/ new.children = old.children
  PROVE  /\ Ceiling(new) = Ceiling(old)
         /\ IsPrefix(new) <=> IsPrefix(old)
BY DEF Ceiling, IsPrefix

(* The ceilings are precedences. *)
LEMMA CeilingTyped ==
  ASSUME NEW arena, TreeOK(arena), NEW n \in 1..Len(arena)
  PROVE  /\ Ceiling(arena[n]) \in statement..postfix
         /\ arena[n].kind = "binary_expr" => Ceiling(arena[n]) \in assignment..multiplicative
<1>1. arena[n].kind = "binary_expr" => LevelOf(arena[n].op) \in assignment..multiplicative
  BY DEF TreeOK, NodeOK
<1> QED
  BY <1>1, Ceilings DEF statement, assignment, multiplicative, prefix, postfix

-----------------------------------------------------------------------------
(* Trees that grow *)

(* The nodes of an arena. *)
LEMMA NodeTyped ==
  ASSUME NEW arena, ArenaOK(arena), NEW n \in 1..Len(arena)
  PROVE  /\ Len(arena) \in Nat /\ arena[n] \in AnyNode
         /\ arena[n].children \in Seq(Nat) /\ Len(arena[n].children) \in Nat
         /\ \A c \in 1..Len(arena[n].children) : arena[n].children[c] \in 1..Len(arena)
<1>1. arena \in Seq(AnyNode)
  BY DEF ArenaOK
<1>2. arena[n] \in AnyNode
  BY <1>1, ElementOfSeq
<1>3. arena[n].children \in Seq(Nat)
  BY <1>2 DEF AnyNode
<1> QED
  BY <1>1, <1>2, <1>3 DEF ArenaOK

(* The nodes that exist stay as they are, and the new ones are as they should be. *)
LEMMA TreeExtended ==
  ASSUME NEW arena, ArenaOK(arena), TreeOK(arena), NEW more, Len(more) \in Nat,
         Len(arena) <= Len(more), \A n \in 1..Len(arena) : more[n] = arena[n],
         \A n \in (Len(arena) + 1)..Len(more) : NodeOK(more, n)
  PROVE  TreeOK(more)
<1>1. Len(arena) \in Nat
  BY DEF ArenaOK
<1>2. ASSUME NEW n \in 1..Len(arena) PROVE NodeOK(more, n)
  <2>1. more[n] = arena[n] /\ NodeOK(arena, n)
    BY DEF TreeOK
  <2> DEFINE node == arena[n]
  <2>2. \A c \in 1..Len(node.children) : node.children[c] \in 1..Len(arena)
    BY NodeTyped
  <2>3. node.children \in Seq(Nat)
    BY NodeTyped
  <2>4. \A c \in 1..Len(node.children) : more[node.children[c]] = arena[node.children[c]]
    BY <2>2
  <2>5. Continues(node) => Len(node.children) > 0 /\ Ceiling(more[node.children[1]]) >= Ceiling(node)
    BY <2>1, <2>3, <2>4 DEF NodeOK
  <2>6. FirstOperand(node) \in {1, 2}
    BY DEF FirstOperand
  <2>7. ASSUME IsOperator(node), NEW c \in FirstOperand(node)..Len(node.children)
        PROVE  Binds(more, node.children[c], Ceiling(node))
    <3>1. c \in 1..Len(node.children)
      BY <2>3, <2>6
    <3> QED
      BY <2>1, <2>4, <2>7, <3>1 DEF NodeOK, Binds
  <2> QED
    BY <2>1, <2>5, <2>7 DEF NodeOK
<1> QED
  BY <1>1, <1>2 DEF TreeOK

(* A node gets one more child. *)
LEMMA TreePut ==
  ASSUME NEW arena, ArenaOK(arena), TreeOK(arena),
         NEW id \in 1..Len(arena), NEW child \in 1..Len(arena),
         IsOperator(arena[id]) => Binds(arena, child, Ceiling(arena[id])),
         arena[id].kind = "return_expr" =>
           \A n \in 1..Len(arena) : \A c \in 1..Len(arena[n].children) : arena[n].children[c] # id
  PROVE  TreeOK(WithChild(arena, id, child))
<1> DEFINE grown == WithChild(arena, id, child)
<1>1. /\ ArenaOK(grown) /\ Len(grown) = Len(arena)
      /\ \A n \in 1..Len(arena) : n # id => grown[n] = arena[n]
      /\ grown[id].kind = arena[id].kind /\ grown[id].op = arena[id].op
      /\ grown[id].children = Append(arena[id].children, child)
  BY ChildPut
<1> HIDE DEF grown
<1>2. \A n \in 1..Len(arena) : grown[n].kind = arena[n].kind /\ grown[n].op = arena[n].op
  BY <1>1
<1>3. \A n \in 1..Len(arena) : n # id \/ arena[id].kind # "return_expr" =>
        Ceiling(grown[n]) = Ceiling(arena[n])
  BY <1>1, CeilingKept
<1>4. \A n \in 1..Len(arena) : IsPrefix(grown[n]) <=> IsPrefix(arena[n])
  BY <1>2 DEF IsPrefix
<1>5. \A n \in 1..Len(arena) : \A c \in 1..Len(arena[n].children) :
        /\ arena[n].children[c] \in 1..Len(arena)
        /\ Ceiling(grown[arena[n].children[c]]) = Ceiling(arena[arena[n].children[c]])
  BY <1>3 DEF ArenaOK
<1>6. ASSUME NEW n \in 1..Len(arena) PROVE NodeOK(grown, n)
  <2> DEFINE old == arena[n].children
  <2>1. old \in Seq(Nat) /\ NodeOK(arena, n) /\ \A c \in 1..Len(old) : old[c] \in 1..Len(arena)
    BY NodeTyped DEF TreeOK
  <2>2. FirstOperand(grown[n]) = FirstOperand(arena[n]) /\ FirstOperand(arena[n]) \in {1, 2}
    BY <1>4 DEF FirstOperand
  <2>3. /\ Continues(grown[n]) <=> Continues(arena[n])
        /\ IsOperator(grown[n]) <=> IsOperator(arena[n])
    BY <1>2, <1>4 DEF Continues, IsOperator
  <2>4. Continues(arena[n]) \/ IsOperator(arena[n]) => Ceiling(grown[n]) = Ceiling(arena[n])
    BY <1>3 DEF Continues, IsOperator, IsPrefix
  <2>5. \A v \in 1..Len(arena) : \A ceiling :
          Ceiling(grown[v]) = Ceiling(arena[v]) /\ Binds(arena, v, ceiling) => Binds(grown, v, ceiling)
    BY <1>2 DEF Binds
  <2>6. grown[n].kind = "binary_expr" => LevelOf(grown[n].op) \in assignment..multiplicative
    BY <1>2, <2>1 DEF NodeOK
  <2>7. CASE n # id
    <3>1. grown[n].children = old
      BY <1>1, <2>7
    <3>2. ASSUME Continues(grown[n])
          PROVE  Len(old) > 0 /\ Ceiling(grown[old[1]]) >= Ceiling(grown[n])
      <4>1. Len(old) > 0 /\ Ceiling(arena[old[1]]) >= Ceiling(arena[n])
        BY <2>1, <2>3, <3>2 DEF NodeOK
      <4>2. 1 \in 1..Len(old)
        BY <2>1, <4>1
      <4> QED
        BY <1>5, <2>3, <2>4, <3>2, <4>1, <4>2
    <3>3. ASSUME IsOperator(grown[n]), NEW c \in FirstOperand(grown[n])..Len(old)
          PROVE  Binds(grown, old[c], Ceiling(grown[n]))
      <4>1. c \in 1..Len(old) /\ Binds(arena, old[c], Ceiling(arena[n]))
        BY <2>1, <2>2, <2>3, <3>3 DEF NodeOK
      <4> QED
        BY <1>5, <2>1, <2>3, <2>4, <2>5, <3>3, <4>1
    <3> QED
      BY <2>6, <3>1, <3>2, <3>3 DEF NodeOK
  <2>8. CASE n = id
    <3> DEFINE new == grown[n].children
    <3>1. new = Append(old, child)
      BY <1>1, <2>8
    <3> HIDE DEF old
    <3>2. Len(new) = Len(old) + 1 /\ new[Len(old) + 1] = child /\ \A c \in 1..Len(old) : new[c] = old[c]
      BY <2>1, <3>1
    <3> HIDE DEF new
    <3>3. ASSUME Continues(grown[n])
          PROVE  Len(new) > 0 /\ Ceiling(grown[new[1]]) >= Ceiling(grown[n])
      <4>1. Len(old) > 0 /\ Ceiling(arena[old[1]]) >= Ceiling(arena[n])
        BY <2>1, <2>3, <3>3 DEF NodeOK, old
      <4>2. 1 \in 1..Len(old)
        BY <2>1, <4>1
      <4>3. Ceiling(grown[old[1]]) = Ceiling(arena[old[1]])
        BY <1>5, <4>2 DEF old
      <4>4. Len(new) > 0 /\ new[1] = old[1]
        <5>1. Len(old) \in Nat
          BY <2>1
        <5> QED
          BY <3>2, <4>2, <5>1
      <4> QED
        BY <2>3, <2>4, <3>3, <4>1, <4>3, <4>4
    <3>4. ASSUME IsOperator(grown[n]), NEW c \in FirstOperand(grown[n])..Len(new)
          PROVE  Binds(grown, new[c], Ceiling(grown[n]))
      <4>1. c \in 1..Len(old) \/ c = Len(old) + 1
        BY <2>1, <2>2, <3>2
      <4>2. CASE c \in 1..Len(old)
        <5>1. Binds(arena, old[c], Ceiling(arena[n]))
          BY <2>1, <2>2, <2>3, <3>4, <4>2 DEF NodeOK, old
        <5> QED
          BY <1>5, <2>1, <2>3, <2>4, <2>5, <3>2, <3>4, <4>2, <5>1 DEF old
      <4>3. CASE c = Len(old) + 1
        <5>1. Ceiling(grown[child]) = Ceiling(arena[child])
          BY <1>3, <2>3, <2>8, <3>4 DEF IsOperator, IsPrefix
        <5> QED
          BY <2>3, <2>4, <2>5, <2>8, <3>2, <3>4, <4>3, <5>1
      <4> QED
        BY <4>1, <4>2, <4>3
    <3> QED
      BY <2>6, <3>3, <3>4 DEF NodeOK, new
  <2> QED
    BY <2>7, <2>8
<1> QED
  BY <1>1, <1>6 DEF TreeOK, grown

-----------------------------------------------------------------------------
(* What the steps do to the arena *)

(***************************************************************************)
(* Nodes are added and get children; a child that is new where it is is    *)
(* none of the returns that the lowest keep frames are waiting to fill in. *)
(***************************************************************************)
Grew(keep, grafts) ==
  /\ Len(nodes') \in Nat /\ Len(nodes) <= Len(nodes')
  /\ \A n \in 1..Len(nodes) : nodes'[n].kind = nodes[n].kind /\ nodes'[n].op = nodes[n].op
  /\ \A n \in 1..Len(nodes') : \A c \in 1..Len(nodes'[n].children) :
       \/ /\ n \in 1..Len(nodes) /\ c \in 1..Len(nodes[n].children)
          /\ nodes'[n].children[c] = nodes[n].children[c]
       \/ grafts /\ Loose(stack, keep, nodes'[n].children[c])
  /\ TreeOK(nodes')

(* The nodes at hand. *)
LEMMA NodesHere ==
  ASSUME IInv
  PROVE  /\ ArenaOK(nodes) /\ nodes \in Seq(AnyNode) /\ Len(nodes) \in Nat
         /\ NewId = Len(nodes) + 1 /\ NewId \in Nat
BY DEF IInv, NodesInv, ArenaOK, NewId

(* An arena that stays the same has grown. *)
LEMMA GrewSame ==
  ASSUME IInv, TInv, nodes' = nodes, NEW keep, NEW grafts \in BOOLEAN
  PROVE  Grew(keep, grafts)
BY NodesHere DEF Grew, TInv, TreeInv

(* The new node of an Append. *)
LEMMA NewNode ==
  ASSUME IInv, NEW kind, NEW op, NEW offset, NEW children,
         nodes' = Append(nodes, Node(kind, op, offset, children))
  PROVE  /\ Len(nodes') = Len(nodes) + 1 /\ Len(nodes') \in Nat /\ NewId \in 1..Len(nodes')
         /\ nodes'[NewId].kind = kind /\ nodes'[NewId].op = op /\ nodes'[NewId].children = children
         /\ \A n \in 1..Len(nodes) : nodes'[n] = nodes[n]
         /\ \A n \in 1..Len(nodes') : n \in 1..Len(nodes) \/ n = NewId
<1> DEFINE node == Node(kind, op, offset, children)
<1>1. node.kind = kind /\ node.op = op /\ node.children = children
  BY DEF Node
<1> HIDE DEF node
<1>2. /\ Len(nodes') = Len(nodes) + 1 /\ nodes'[Len(nodes) + 1] = node
      /\ \A n \in 1..Len(nodes) : nodes'[n] = nodes[n]
  BY NodesHere DEF node
<1>3. /\ Len(nodes) \in Nat /\ NewId = Len(nodes) + 1
  BY NodesHere
<1> QED
  BY <1>1, <1>2, <1>3

(* A node that has no children yet. *)
LEMMA GrewLeaf ==
  ASSUME IInv, TInv, NEW kind, NEW op, NEW offset,
         nodes' = Append(nodes, Node(kind, op, offset, <<>>)),
         kind \notin {"binary_expr", "call_expr"},
         kind = "unary_expr" => op \in DOMAIN PrefixSpelling,
         NEW keep
  PROVE  Grew(keep, FALSE)
<1>1. /\ Len(nodes') = Len(nodes) + 1 /\ Len(nodes') \in Nat /\ NewId \in 1..Len(nodes')
      /\ nodes'[NewId].kind = kind /\ nodes'[NewId].op = op /\ nodes'[NewId].children = <<>>
      /\ \A n \in 1..Len(nodes) : nodes'[n] = nodes[n]
      /\ \A n \in 1..Len(nodes') : n \in 1..Len(nodes) \/ n = NewId
  BY NewNode
<1>2. NodeOK(nodes', NewId)
  BY <1>1 DEF NodeOK, Continues, IsPrefix, IsOperator, FirstOperand
<1>3. TreeOK(nodes')
  <2>1. ArenaOK(nodes) /\ TreeOK(nodes) /\ Len(nodes) <= Len(nodes')
    BY <1>1, NodesHere DEF TInv, TreeInv
  <2>2. ASSUME NEW n \in (Len(nodes) + 1)..Len(nodes') PROVE NodeOK(nodes', n)
    <3>1. n = NewId
      BY <1>1, NodesHere
    <3> QED
      BY <1>2, <3>1
  <2> QED
    BY <1>1, <2>1, <2>2, TreeExtended
<1>4. ASSUME NEW n \in 1..Len(nodes'), NEW c \in 1..Len(nodes'[n].children)
      PROVE  /\ n \in 1..Len(nodes) /\ c \in 1..Len(nodes[n].children)
             /\ nodes'[n].children[c] = nodes[n].children[c]
  <2>1. n # NewId
    BY <1>1
  <2> QED
    BY <1>1, <2>1
<1> QED
  BY <1>1, <1>3, <1>4, NodesHere DEF Grew

(* A node that continues the expression m. *)
LEMMA ContinuesOK ==
  ASSUME NEW arena, NEW id, NEW m, NEW ceiling,
         Continues(arena[id]), Len(arena[id].children) = 1, arena[id].children[1] = m,
         arena[id].kind = "binary_expr" => LevelOf(arena[id].op) \in assignment..multiplicative,
         Ceiling(arena[id]) = ceiling, Ceiling(arena[m]) >= ceiling
  PROVE  NodeOK(arena, id)
<1>1. ~IsPrefix(arena[id])
  BY DEF Continues, IsPrefix
<1>2. FirstOperand(arena[id]) = 2
  BY <1>1 DEF FirstOperand
<1>3. Len(arena[id].children) > 0 /\ Ceiling(arena[arena[id].children[1]]) >= Ceiling(arena[id])
  OBVIOUS
<1>4. \A c \in FirstOperand(arena[id])..Len(arena[id].children) : FALSE
  BY <1>2
<1> QED
  BY <1>3, <1>4 DEF NodeOK

(* A node is put on top of an expression that can be continued. *)
LEMMA GrewOn ==
  ASSUME IInv, TInv, NEW kind \in {"binary_expr", "call_expr", "unary_expr"}, NEW op, NEW offset,
         NEW m \in 1..Len(nodes), nodes' = Append(nodes, Node(kind, op, offset, <<m>>)),
         kind = "unary_expr" => op \notin DOMAIN PrefixSpelling,
         kind = "binary_expr" =>
           LevelOf(op) \in assignment..multiplicative /\ Ceiling(nodes[m]) >= LevelOf(op),
         kind # "binary_expr" => Ceiling(nodes[m]) = postfix,
         NEW keep, Loose(stack, keep, m)
  PROVE  Grew(keep, TRUE)
<1>1. /\ Len(nodes') = Len(nodes) + 1 /\ Len(nodes') \in Nat /\ NewId \in 1..Len(nodes')
      /\ nodes'[NewId].kind = kind /\ nodes'[NewId].op = op /\ nodes'[NewId].children = <<m>>
      /\ \A n \in 1..Len(nodes) : nodes'[n] = nodes[n]
      /\ \A n \in 1..Len(nodes') : n \in 1..Len(nodes) \/ n = NewId
  BY NewNode
<1>2. Len(nodes'[NewId].children) = 1 /\ nodes'[NewId].children[1] = m
  BY <1>1
<1>3. ~IsPrefix(nodes'[NewId]) /\ Continues(nodes'[NewId]) /\ nodes'[m] = nodes[m]
  BY <1>1 DEF IsPrefix, Continues
<1>4. NodeOK(nodes', NewId)
  <2>1. CASE kind = "binary_expr"
    <3>1. Ceiling(nodes'[NewId]) = LevelOf(op) /\ nodes'[NewId].kind = "binary_expr"
      BY <1>1, <2>1, Ceilings
    <3>2. Ceiling(nodes'[m]) >= LevelOf(op) /\ LevelOf(nodes'[NewId].op) \in assignment..multiplicative
      BY <1>1, <1>3, <2>1
    <3> QED
      BY <1>2, <1>3, <3>1, <3>2, ContinuesOK
  <2>2. CASE kind # "binary_expr"
    <3>1. Ceiling(nodes'[NewId]) = postfix /\ nodes'[NewId].kind # "binary_expr"
      BY <1>1, <1>3, <2>2, Ceilings
    <3>2. Ceiling(nodes'[m]) = postfix
      BY <1>3, <2>2
    <3>3. postfix >= postfix
      BY DEF postfix
    <3>4. Ceiling(nodes'[m]) >= postfix
      BY <3>2, <3>3, Zenon
    <3> QED
      BY <1>2, <1>3, <3>1, <3>4, ContinuesOK
  <2> QED
    BY <2>1, <2>2
<1>5. TreeOK(nodes')
  <2>1. ArenaOK(nodes) /\ TreeOK(nodes) /\ Len(nodes) <= Len(nodes')
    BY <1>1, NodesHere DEF TInv, TreeInv
  <2>2. ASSUME NEW n \in (Len(nodes) + 1)..Len(nodes') PROVE NodeOK(nodes', n)
    <3>1. n = NewId
      BY <1>1, NodesHere
    <3> QED
      BY <1>4, <3>1
  <2> QED
    BY <1>1, <2>1, <2>2, TreeExtended
<1>6. ASSUME NEW n \in 1..Len(nodes'), NEW c \in 1..Len(nodes'[n].children)
      PROVE  \/ /\ n \in 1..Len(nodes) /\ c \in 1..Len(nodes[n].children)
                /\ nodes'[n].children[c] = nodes[n].children[c]
             \/ Loose(stack, keep, nodes'[n].children[c])
  <2>1. CASE n = NewId
    <3>1. c \in 1..1
      BY <1>2, <2>1
    <3>2. nodes'[n].children[c] = m
      BY <1>2, <2>1, <3>1
    <3> QED
      BY <3>2
  <2>2. CASE n # NewId
    BY <1>1, <2>2
  <2> QED
    BY <2>1, <2>2
<1> QED
  BY <1>1, <1>5, <1>6, NodesHere, SMTT(30) DEF Grew

(* Node t gets the child v. *)
LEMMA GrewPut ==
  ASSUME IInv, TInv, NEW t \in 1..Len(nodes), NEW v \in 1..Len(nodes),
         nodes' = WithChild(nodes, t, v),
         IsOperator(nodes[t]) => Binds(nodes, v, Ceiling(nodes[t])),
         nodes[t].kind = "return_expr" =>
           \A n \in 1..Len(nodes) : \A c \in 1..Len(nodes[n].children) : nodes[n].children[c] # t,
         NEW keep, Loose(stack, keep, v)
  PROVE  Grew(keep, TRUE) /\ Len(nodes') = Len(nodes)
<1>0. ArenaOK(nodes) /\ TreeOK(nodes) /\ Len(nodes) \in Nat
  BY NodesHere DEF TInv, TreeInv
<1>1. /\ ArenaOK(nodes) /\ TreeOK(nodes) /\ Len(nodes) \in Nat
      /\ nodes[t].children \in Seq(Nat) /\ Len(nodes[t].children) \in Nat
  BY <1>0, NodeTyped
<1>2. /\ Len(nodes') = Len(nodes)
      /\ \A n \in 1..Len(nodes) : n # t => nodes'[n] = nodes[n]
      /\ nodes'[t].kind = nodes[t].kind /\ nodes'[t].op = nodes[t].op
      /\ nodes'[t].children = Append(nodes[t].children, v)
  <2> DEFINE grown == WithChild(nodes, t, v)
  <2>1. /\ Len(grown) = Len(nodes)
        /\ \A n \in 1..Len(nodes) : n # t => grown[n] = nodes[n]
        /\ grown[t].kind = nodes[t].kind /\ grown[t].op = nodes[t].op
        /\ grown[t].children = Append(nodes[t].children, v)
    BY <1>0, ChildPut
  <2>2. nodes' = grown
    OBVIOUS
  <2> HIDE DEF grown
  <2> QED
    BY <2>1, <2>2
<1>3. TreeOK(nodes')
  BY <1>1, TreePut
<1>4. ASSUME NEW n \in 1..Len(nodes'), NEW c \in 1..Len(nodes'[n].children)
      PROVE  \/ /\ n \in 1..Len(nodes) /\ c \in 1..Len(nodes[n].children)
                /\ nodes'[n].children[c] = nodes[n].children[c]
             \/ Loose(stack, keep, nodes'[n].children[c])
  <2>1. CASE n = t
    <3> DEFINE old == nodes[t].children
               new == nodes'[n].children
    <3>1. new = Append(old, v) /\ old \in Seq(Nat) /\ c \in 1..Len(new)
      BY <1>1, <1>2, <2>1
    <3> HIDE DEF old, new
    <3>2. (c \in 1..Len(old) /\ new[c] = old[c]) \/ new[c] = v
      BY <3>1
    <3> QED
      BY <2>1, <3>2 DEF old, new
  <2>2. CASE n # t
    BY <1>2, <2>2
  <2> QED
    BY <2>1, <2>2
<1>5. \A n \in 1..Len(nodes) : nodes'[n].kind = nodes[n].kind /\ nodes'[n].op = nodes[n].op
  BY <1>2
<1> QED
  BY <1>1, <1>2, <1>3, <1>4, <1>5 DEF Grew

(* The nodes that do not exist yet are not those of any frame. *)
LEMMA LooseNew ==
  ASSUME IInv, NEW n \in Nat, n > Len(nodes), NEW keep \in 0..Len(stack)
  PROVE  Loose(stack, keep, n)
<1>1. Len(stack) \in Nat /\ Len(nodes) \in Nat
  BY NodesHere DEF IInv, StackInv
<1>2. ASSUME NEW d \in 1..keep PROVE FrameAt(stack, d).node # n
  <2>1. d \in 1..Len(stack)
    BY <1>1
  <2>2. FrameAt(stack, d).node <= Len(nodes)
    BY <2>1 DEF IInv, StackInv, FrameOK
  <2>3. FrameAt(stack, d).node \in Nat
    BY <2>1, FramesTyped DEF IInv, AnyFrame
  <2> QED
    BY <1>1, <2>2, <2>3
<1> QED
  BY <1>2 DEF Loose

(* A parameter or output and its type. *)
LEMMA TypeNodes ==
  ASSUME IInv, NEW kind
  PROVE  /\ Len(WithType(kind)) = Len(nodes) + 2
         /\ WithType(kind)[Len(nodes) + 1].kind = kind
         /\ WithType(kind)[Len(nodes) + 1].children = <<NewId + 1>>
         /\ WithType(kind)[Len(nodes) + 2].kind = "ident_expr"
         /\ WithType(kind)[Len(nodes) + 2].children = <<>>
         /\ \A n \in 1..Len(nodes) : WithType(kind)[n] = nodes[n]
<1> DEFINE typed == Node(kind, "none", tokens[it].offset, <<NewId + 1>>)
           type == Node("ident_expr", "none", tokens[it].offset, <<>>)
<1>1. /\ typed.kind = kind /\ typed.children = <<NewId + 1>>
      /\ type.kind = "ident_expr" /\ type.children = <<>>
  BY DEF Node
<1>2. WithType(kind) = nodes \o <<typed, type>>
  BY DEF WithType
<1> HIDE DEF typed, type
<1>3. /\ Len(WithType(kind)) = Len(nodes) + 2
      /\ WithType(kind)[Len(nodes) + 1] = typed /\ WithType(kind)[Len(nodes) + 2] = type
      /\ \A n \in 1..Len(nodes) : WithType(kind)[n] = nodes[n]
  BY <1>2, NodesHere
<1> QED
  BY <1>1, <1>3

(* The arena with them is still well grouped, and they are part of no frame. *)
LEMMA TypeNodesOK ==
  ASSUME IInv, TInv, NEW kind \in {"function_parameter", "function_output"}, NEW keep \in 0..Len(stack)
  PROVE  /\ ArenaOK(WithType(kind)) /\ TreeOK(WithType(kind)) /\ Len(WithType(kind)) = Len(nodes) + 2
         /\ \A n \in 1..Len(nodes) : WithType(kind)[n] = nodes[n]
         /\ \A n \in (Len(nodes) + 1)..Len(WithType(kind)) :
              \A c \in 1..Len(WithType(kind)[n].children) :
                Loose(stack, keep, WithType(kind)[n].children[c])
<1> DEFINE wide == WithType(kind)
<1>1. kind \in NodeKind /\ Len(nodes) \in Nat /\ NewId = Len(nodes) + 1
  BY NodesHere DEF NodeKind
<1>2. ArenaOK(wide) /\ Len(wide) = Len(nodes) + 2
  BY <1>1, WithNodes
<1>3. /\ wide[Len(nodes) + 1].kind = kind
      /\ wide[Len(nodes) + 1].children = <<NewId + 1>>
      /\ wide[Len(nodes) + 2].kind = "ident_expr"
      /\ wide[Len(nodes) + 2].children = <<>>
      /\ \A n \in 1..Len(nodes) : wide[n] = nodes[n]
  BY TypeNodes
<1> HIDE DEF wide
<1>4. \A n \in (Len(nodes) + 1)..Len(wide) : n = Len(nodes) + 1 \/ n = Len(nodes) + 2
  BY <1>1, <1>2
<1>5. ASSUME NEW n \in (Len(nodes) + 1)..Len(wide) PROVE NodeOK(wide, n)
  <2>1. wide[n].kind \in {"function_parameter", "function_output", "ident_expr"}
    BY <1>3, <1>4
  <2> QED
    BY <2>1 DEF NodeOK, Continues, IsOperator, IsPrefix
<1>6. TreeOK(wide)
  <2>1. ArenaOK(nodes) /\ TreeOK(nodes) /\ Len(nodes) <= Len(wide) /\ Len(wide) \in Nat
    BY <1>1, <1>2, NodesHere DEF TInv, TreeInv
  <2> QED
    BY <1>3, <1>5, <2>1, TreeExtended
<1>7. ASSUME NEW n \in (Len(nodes) + 1)..Len(wide), NEW c \in 1..Len(wide[n].children)
      PROVE  Loose(stack, keep, wide[n].children[c])
  <2>1. n = Len(nodes) + 1
    BY <1>3, <1>4
  <2>2. wide[n].children[c] = NewId + 1
    BY <1>3, <2>1
  <2>3. NewId + 1 \in Nat /\ NewId + 1 > Len(nodes)
    BY <1>1
  <2> QED
    BY <2>2, <2>3, LooseNew
<1> QED
  BY <1>2, <1>3, <1>6, <1>7 DEF wide

(* They stay behind unused, or become part of the function definition t. *)
LEMMA GrewType ==
  ASSUME IInv, TInv, NEW kind \in {"function_parameter", "function_output"}, NEW keep \in 0..Len(stack),
         \/ nodes' = WithType(kind)
         \/ \E t \in 1..Len(nodes) :
              nodes[t].kind = "function_def" /\ nodes' = WithChild(WithType(kind), t, NewId)
  PROVE  Grew(keep, TRUE)
<1> DEFINE wide == WithType(kind)
<1>1. /\ ArenaOK(wide) /\ TreeOK(wide) /\ Len(wide) = Len(nodes) + 2
      /\ \A n \in 1..Len(nodes) : wide[n] = nodes[n]
      /\ \A n \in (Len(nodes) + 1)..Len(wide) : \A c \in 1..Len(wide[n].children) :
           Loose(stack, keep, wide[n].children[c])
  BY TypeNodesOK
<1>2. Len(nodes) \in Nat /\ NewId = Len(nodes) + 1
  BY NodesHere
<1> HIDE DEF wide
<1>3. \A n \in 1..Len(wide) : n \in 1..Len(nodes) \/ n \in (Len(nodes) + 1)..Len(wide)
  BY <1>1, <1>2
<1>4. CASE nodes' = wide
  <2>1. ASSUME NEW n \in 1..Len(wide), NEW c \in 1..Len(wide[n].children)
        PROVE  \/ /\ n \in 1..Len(nodes) /\ c \in 1..Len(nodes[n].children)
                  /\ wide[n].children[c] = nodes[n].children[c]
               \/ Loose(stack, keep, wide[n].children[c])
    BY <1>1, <1>3
  <2>2. Len(wide) \in Nat /\ Len(nodes) <= Len(wide)
    BY <1>1, <1>2
  <2> QED
    BY <1>1, <1>4, <2>1, <2>2 DEF Grew
<1>5. ASSUME NEW t \in 1..Len(nodes), nodes[t].kind = "function_def", nodes' = WithChild(wide, t, NewId)
      PROVE  Grew(keep, TRUE)
  <2>1. /\ t \in 1..Len(wide) /\ NewId \in 1..Len(wide) /\ wide[t].kind = "function_def"
        /\ wide[t] = nodes[t] /\ Loose(stack, keep, NewId) /\ Len(wide) \in Nat
    BY <1>1, <1>2, <1>5, LooseNew
  <2> DEFINE grown == WithChild(wide, t, NewId)
  <2>2. TreeOK(grown)
    BY <1>1, <2>1, TreePut DEF IsOperator, IsPrefix
  <2>3. /\ Len(grown) = Len(wide)
        /\ \A n \in 1..Len(wide) : n # t => grown[n] = wide[n]
        /\ grown[t].kind = wide[t].kind /\ grown[t].op = wide[t].op
        /\ grown[t].children = Append(wide[t].children, NewId)
    BY <1>1, <2>1, ChildPut
  <2>4. nodes' = grown
    BY <1>5
  <2> HIDE DEF grown
  <2>5. wide[t].children \in Seq(Nat)
    BY <1>1, <2>1, NodeTyped
  <2>6. ASSUME NEW n \in 1..Len(grown), NEW c \in 1..Len(grown[n].children)
        PROVE  \/ /\ n \in 1..Len(nodes) /\ c \in 1..Len(nodes[n].children)
                  /\ grown[n].children[c] = nodes[n].children[c]
               \/ Loose(stack, keep, grown[n].children[c])
    <3>1. CASE n = t
      <4> DEFINE old == nodes[t].children
                 new == grown[n].children
      <4>1. new = Append(old, NewId) /\ old \in Seq(Nat) /\ c \in 1..Len(new)
        BY <2>1, <2>3, <2>5, <3>1
      <4> HIDE DEF old, new
      <4>2. (c \in 1..Len(old) /\ new[c] = old[c]) \/ new[c] = NewId
        BY <4>1
      <4> QED
        BY <2>1, <3>1, <4>2 DEF old, new
    <3>2. CASE n # t
      <4>1. grown[n] = wide[n]
        BY <2>3, <3>2
      <4> QED
        BY <1>1, <1>3, <2>3, <4>1
    <3> QED
      BY <3>1, <3>2
  <2>7. \A n \in 1..Len(nodes) : grown[n].kind = nodes[n].kind /\ grown[n].op = nodes[n].op
    BY <1>1, <1>2, <2>1, <2>3, SMTT(30)
  <2>8. Len(grown) \in Nat /\ Len(nodes) <= Len(grown)
    BY <1>1, <1>2, <2>3
  <2> QED
    BY <2>2, <2>4, <2>6, <2>7, <2>8 DEF Grew
<1> QED
  BY <1>4, <1>5 DEF wide

-----------------------------------------------------------------------------
(* What the steps do to the frames *)

(* Frames keep being what they should be while the arena grows. *)
LEMMA FrameKept ==
  ASSUME IInv, NEW keep, NEW grafts, Grew(keep, grafts),
         NEW below \in AnyFrame, FrameOK(below, Len(nodes)), FrameKind(nodes, below),
         NEW above \in AnyFrame, FrameOK(above, Len(nodes)), FrameKind(nodes, above)
  PROVE  /\ FrameKind(nodes', above)
         /\ Link(nodes, below, above) => Link(nodes', below, above)
<1>1. Len(nodes) \in Nat
  BY NodesHere
<1>2. ASSUME NEW frame \in AnyFrame, FrameOK(frame, Len(nodes)), frame.fn \in FillingFn
      PROVE  /\ nodes'[frame.node].kind = nodes[frame.node].kind
             /\ nodes'[frame.node].op = nodes[frame.node].op
  <2>1. frame.node \in 1..Len(nodes)
    BY <1>1, <1>2 DEF FrameOK, AnyFrame
  <2> QED
    BY <2>1 DEF Grew
<1>3. FrameKind(nodes', above)
  BY <1>2 DEF FrameKind, FillingFn, IsOperator, IsPrefix
<1>4. ASSUME NEW frame \in AnyFrame, FrameOK(frame, Len(nodes)), FrameKind(nodes, frame), frame.fn = "operand"
      PROVE  Ceiling(nodes'[frame.node]) = Ceiling(nodes[frame.node])
  <2>1. /\ nodes'[frame.node].kind = nodes[frame.node].kind
        /\ nodes'[frame.node].op = nodes[frame.node].op
    BY <1>2, <1>4 DEF FillingFn
  <2>2. nodes[frame.node].kind # "return_expr"
    BY <1>4 DEF FrameKind, IsOperator, IsPrefix
  <2> QED
    BY <2>1, <2>2, CeilingKept
<1>5. above.fn = "operand" =>
        (Binds(nodes, above.node, below.precedence) => Binds(nodes', above.node, below.precedence))
  BY <1>2, <1>4 DEF Binds, FillingFn
<1>6. Link(nodes, below, above) => Link(nodes', below, above)
  BY <1>4, <1>5 DEF Link
<1> QED
  BY <1>3, <1>6

(* The frame at depth d of the new stack is kept or new. *)
LEMMA KeptOrNew ==
  ASSUME StackInv, NEW keep, NEW new, Rebuilt(keep, new), NEW d \in 1..Len(stack')
  PROVE  /\ keep \in 1..Len(stack) /\ keep \in Nat /\ Len(new) \in Nat /\ d \in Nat /\ Len(stack) \in Nat
         /\ \/ d \in 1..keep /\ d \in 1..Len(stack) /\ FrameAt(stack', d) = FrameAt(stack, d)
            \/ d > keep /\ d - keep \in 1..Len(new) /\ FrameAt(stack', d) = new[d - keep]
<1>1. Len(stack) \in Nat /\ keep \in Nat /\ Len(new) \in Nat /\ d \in Nat
  BY DEF StackInv, Rebuilt
<1>2. CASE d <= keep
  BY <1>1, <1>2 DEF Rebuilt
<1>3. CASE d > keep
  <2>1. d - keep \in 1..Len(new) /\ keep + (d - keep) = d
    BY <1>1, <1>3 DEF Rebuilt
  <2>2. FrameAt(stack', keep + (d - keep)) = new[d - keep]
    BY <2>1 DEF Rebuilt
  <2> QED
    BY <1>1, <1>3, <2>1, <2>2 DEF Rebuilt
<1> QED
  BY <1>1, <1>2, <1>3

(* What a frame of the new part has below it. *)
Under(keep, new, i) == IF i = 1 THEN FrameAt(stack, keep) ELSE new[i - 1]

(* The new frames are of the right kind and rightly placed. *)
LEMMA FramesStep ==
  ASSUME IInv, TInv, NEW keep, NEW new, Rebuilt(keep, new), NEW grafts, Grew(keep, grafts),
         \A i \in 1..Len(new) :
           FrameKind(nodes', new[i]) /\ Link(nodes', Under(keep, new, i), new[i])
  PROVE  FramesInv'
<1>1. StackInv
  BY DEF IInv
<1>2. ASSUME NEW d \in 1..Len(stack) PROVE
        /\ FrameAt(stack, d) \in AnyFrame /\ FrameOK(FrameAt(stack, d), Len(nodes))
        /\ FrameKind(nodes, FrameAt(stack, d))
  BY <1>1, FramesTyped DEF StackInv, TInv, FramesInv
<1>3. ASSUME NEW d \in 1..Len(stack') PROVE FrameKind(nodes', FrameAt(stack', d))
  <2>1. CASE d \in 1..Len(stack) /\ FrameAt(stack', d) = FrameAt(stack, d)
    BY <1>2, <2>1, FrameKept
  <2>2. CASE d - keep \in 1..Len(new) /\ FrameAt(stack', d) = new[d - keep]
    BY <2>2
  <2> QED
    BY <1>1, <2>1, <2>2, KeptOrNew
<1>4. ASSUME NEW d \in 1..Len(stack'), d > 1
      PROVE  Link(nodes', FrameAt(stack', d - 1), FrameAt(stack', d))
  <2>1. keep \in 1..Len(stack) /\ keep \in Nat /\ d \in Nat /\ Len(stack) \in Nat /\ Len(new) \in Nat
    BY <1>1, KeptOrNew
  <2>2. Len(stack') = keep + Len(new)
    BY DEF Rebuilt
  <2>3. d - 1 \in 1..Len(stack')
    BY <1>4, <2>1, <2>2
  <2>4. CASE d \in 1..keep /\ FrameAt(stack', d) = FrameAt(stack, d)
    <3>1. d - 1 \in 1..keep /\ d - 1 \in 1..Len(stack) /\ d \in 1..Len(stack)
      BY <1>4, <2>1, <2>4
    <3>2. FrameAt(stack', d - 1) = FrameAt(stack, d - 1)
      BY <3>1 DEF Rebuilt
    <3>3. Link(nodes, FrameAt(stack, d - 1), FrameAt(stack, d))
      BY <1>4, <3>1 DEF TInv, FramesInv
    <3> QED
      BY <1>2, <2>4, <3>1, <3>2, <3>3, FrameKept
  <2>5. CASE d > keep /\ d - keep \in 1..Len(new) /\ FrameAt(stack', d) = new[d - keep]
    <3>1. FrameAt(stack', d - 1) = Under(keep, new, d - keep)
      <4>1. CASE d - keep = 1
        <5>1. d - 1 = keep
          BY <2>1, <4>1
        <5>2. FrameAt(stack', keep) = FrameAt(stack, keep)
          BY <2>1 DEF Rebuilt
        <5> QED
          BY <4>1, <5>1, <5>2 DEF Under
      <4>2. CASE d - keep # 1
        <5>1. /\ d - 1 > keep /\ (d - 1) - keep = (d - keep) - 1
              /\ ~(d - 1 \in 1..keep)
          BY <2>1, <2>5, <4>2
        <5>2. FrameAt(stack', d - 1) = new[(d - 1) - keep]
          BY <1>1, <2>3, <5>1, KeptOrNew
        <5> QED
          BY <4>2, <5>1, <5>2 DEF Under
      <4> QED
        BY <4>1, <4>2
    <3> QED
      BY <2>5, <3>1
  <2> QED
    BY <1>1, <2>4, <2>5, KeptOrNew
<1> QED
  BY <1>3, <1>4 DEF FramesInv

(***************************************************************************)
(* No frame is added for a return that takes values already, and a new     *)
(* frame that takes values is for a return that did not exist.             *)
(***************************************************************************)
Fresh(keep, new) ==
  \A i \in 1..Len(new) :
    /\ Loose(stack, keep, new[i].node)
    /\ new[i].fn = "return_values" =>
         new[i].node > Len(nodes) /\ \A j \in 1..Len(new) : j # i => new[j].node # new[i].node

NoValues(new) == \A i \in 1..Len(new) : new[i].fn # "return_values"

(* A return that takes values stays part of nothing. *)
LEMMA PendingStep ==
  ASSUME IInv, TInv, NEW keep, NEW new, Rebuilt(keep, new), NEW grafts, Grew(keep, grafts),
         Fresh(keep, new), grafts => NoValues(new),
         mode' = "return" => Loose(stack, keep, value') /\ NoValues(new)
  PROVE  PendingInv'
<1>1. StackInv /\ Len(nodes) \in Nat
  BY NodesHere DEF IInv
<1>2. ASSUME NEW d \in 1..Len(stack) PROVE
        FrameAt(stack, d).node \in Nat /\ FrameAt(stack, d).node <= Len(nodes)
  BY <1>1, FramesTyped DEF StackInv, FrameOK, AnyFrame
<1>3. ASSUME NEW d \in 1..Len(stack'), NEW e \in 1..Len(stack'), e # d,
             FrameAt(stack', d).fn = "return_values"
      PROVE  FrameAt(stack', e).node # FrameAt(stack', d).node
  <2>1. CASE d \in 1..keep /\ d \in 1..Len(stack) /\ FrameAt(stack', d) = FrameAt(stack, d)
    <3>1. CASE e \in 1..Len(stack) /\ FrameAt(stack', e) = FrameAt(stack, e)
      BY <1>3, <2>1, <3>1 DEF TInv, PendingInv
    <3>2. CASE e - keep \in 1..Len(new) /\ FrameAt(stack', e) = new[e - keep]
      <4>1. Loose(stack, keep, new[e - keep].node)
        BY <3>2 DEF Fresh
      <4> QED
        BY <1>3, <2>1, <3>2, <4>1 DEF Loose
    <3> QED
      BY <1>1, <3>1, <3>2, KeptOrNew
  <2>2. CASE d - keep \in 1..Len(new) /\ FrameAt(stack', d) = new[d - keep]
    <3>1. /\ new[d - keep].node > Len(nodes)
          /\ \A j \in 1..Len(new) : j # d - keep => new[j].node # new[d - keep].node
      BY <1>3, <2>2 DEF Fresh
    <3>2. CASE e \in 1..Len(stack) /\ FrameAt(stack', e) = FrameAt(stack, e)
      <4>1. FrameAt(stack, e).node \in Nat /\ FrameAt(stack, e).node <= Len(nodes)
        BY <1>2, <3>2
      <4>2. new[d - keep] \in AnyFrame
        BY <2>2 DEF Rebuilt
      <4> QED
        BY <1>1, <2>2, <3>1, <3>2, <4>1, <4>2 DEF AnyFrame
    <3>3. CASE e - keep \in 1..Len(new) /\ FrameAt(stack', e) = new[e - keep]
      <4>1. e - keep # d - keep
        BY <1>1, <1>3, KeptOrNew
      <4> QED
        BY <2>2, <3>1, <3>3, <4>1
    <3> QED
      BY <1>1, <3>2, <3>3, KeptOrNew
  <2> QED
    BY <1>1, <2>1, <2>2, KeptOrNew
<1>4. ASSUME NEW v, Loose(stack, keep, v), NoValues(new) PROVE Loose(stack', Len(stack'), v)
  <2>1. ASSUME NEW d \in 1..Len(stack'), FrameAt(stack', d).fn = "return_values"
        PROVE  FrameAt(stack', d).node # v
    <3>1. CASE d \in 1..keep /\ FrameAt(stack', d) = FrameAt(stack, d)
      BY <1>4, <2>1, <3>1 DEF Loose
    <3>2. CASE d - keep \in 1..Len(new) /\ FrameAt(stack', d) = new[d - keep]
      BY <1>4, <2>1, <3>2 DEF NoValues
    <3> QED
      BY <1>1, <3>1, <3>2, KeptOrNew
  <2> QED
    BY <2>1 DEF Loose
<1>5. ASSUME NEW n \in 1..Len(nodes'), NEW c \in 1..Len(nodes'[n].children)
      PROVE  Loose(stack', Len(stack'), nodes'[n].children[c])
  <2> DEFINE v == nodes'[n].children[c]
  <2>1. CASE n \in 1..Len(nodes) /\ c \in 1..Len(nodes[n].children) /\ v = nodes[n].children[c]
    <3>1. v \in 1..Len(nodes)
      BY <2>1, NodesHere, NodeTyped
    <3>2. Loose(stack, Len(stack), v)
      BY <2>1 DEF TInv, PendingInv
    <3> HIDE DEF v
    <3>3. ASSUME NEW d \in 1..Len(stack'), FrameAt(stack', d).fn = "return_values"
          PROVE  FrameAt(stack', d).node # v
      <4>1. CASE d \in 1..Len(stack) /\ FrameAt(stack', d) = FrameAt(stack, d)
        BY <3>2, <3>3, <4>1 DEF Loose
      <4>2. CASE d - keep \in 1..Len(new) /\ FrameAt(stack', d) = new[d - keep]
        <5>1. new[d - keep].node > Len(nodes) /\ new[d - keep] \in AnyFrame
          BY <3>3, <4>2 DEF Fresh, Rebuilt
        <5> QED
          BY <1>1, <3>1, <4>2, <5>1 DEF AnyFrame
      <4> QED
        BY <1>1, <4>1, <4>2, KeptOrNew
    <3>4. Loose(stack', Len(stack'), v)
      BY <3>3 DEF Loose
    <3> QED
      BY <3>4 DEF v
  <2>2. CASE grafts /\ Loose(stack, keep, v)
    BY <1>4, <2>2
  <2> QED
    BY <2>1, <2>2 DEF Grew
<1>6. mode' = "return" => Loose(stack', Len(stack'), value')
  BY <1>4
<1> QED
  BY <1>3, <1>5, <1>6 DEF PendingInv

(* Most points of the code ask nothing of the cursor. *)
LEMMA CursorQuiet ==
  ASSUME \/ mode' \in {"throw", "done"}
         \/ mode' = "go" /\ Top'.fn # "tail"
         \/ mode' = "return" /\ Top'.fn \notin {"tail", "operand", "return_values"}
  PROVE  CursorOK'
BY DEF CursorOK, At, Receives

(* A step that adds no frame. *)
LEMMA TreeNone ==
  ASSUME IInv, TInv, NEW keep, Rebuilt(keep, <<>>), NEW grafts, Grew(keep, grafts),
         mode' = "return" => Loose(stack, keep, value'), CursorOK'
  PROVE  TInv'
<1>1. FramesInv'
  BY FramesStep
<1>2. Fresh(keep, <<>>) /\ NoValues(<<>>)
  BY DEF Fresh, NoValues
<1>3. PendingInv'
  BY <1>2, PendingStep
<1> QED
  BY <1>1, <1>3 DEF TInv, TreeInv, Grew

(* A step that adds one. *)
LEMMA TreeOne ==
  ASSUME IInv, TInv, mode' # "return", CursorOK', NEW keep, NEW grafts, Grew(keep, grafts),
         NEW f, Rebuilt(keep, <<f>>),
         FrameKind(nodes', f), Link(nodes', FrameAt(stack, keep), f),
         Loose(stack, keep, f.node), f.fn # "return_values"
  PROVE  TInv'
<1> DEFINE new == <<f>>
<1>1. Rebuilt(keep, new) /\ Len(new) = 1 /\ new[1] = f
  OBVIOUS
<1> HIDE DEF new
<1>2. \A i \in 1..Len(new) : i = 1
  BY <1>1
<1>3. Under(keep, new, 1) = FrameAt(stack, keep)
  BY DEF Under
<1>4. FramesInv'
  BY <1>1, <1>2, <1>3, FramesStep
<1>5. Fresh(keep, new) /\ NoValues(new)
  BY <1>1, <1>2 DEF Fresh, NoValues
<1>6. PendingInv'
  BY <1>1, <1>5, PendingStep
<1> QED
  BY <1>4, <1>6 DEF TInv, TreeInv, Grew

(* A step that adds two, g above f. *)
LEMMA TreeTwo ==
  ASSUME IInv, TInv, mode' # "return", CursorOK', NEW keep, NEW grafts, Grew(keep, grafts),
         NEW f, NEW g, Rebuilt(keep, <<f, g>>),
         FrameKind(nodes', f), Link(nodes', FrameAt(stack, keep), f),
         FrameKind(nodes', g), Link(nodes', f, g),
         Loose(stack, keep, f.node), f.fn # "return_values",
         Loose(stack, keep, g.node), g.fn # "return_values"
  PROVE  TInv'
<1> DEFINE new == <<f, g>>
<1>1. Rebuilt(keep, new) /\ Len(new) = 2 /\ new[1] = f /\ new[2] = g
  OBVIOUS
<1> HIDE DEF new
<1>2. \A i \in 1..Len(new) : i = 1 \/ i = 2
  BY <1>1
<1>3. Under(keep, new, 1) = FrameAt(stack, keep) /\ Under(keep, new, 2) = f
  BY <1>1 DEF Under
<1>4. FramesInv'
  <2>1. \A i \in 1..Len(new) : FrameKind(nodes', new[i]) /\ Link(nodes', Under(keep, new, i), new[i])
    BY <1>1, <1>2, <1>3
  <2> QED
    BY <1>1, <2>1, FramesStep
<1>5. Fresh(keep, new) /\ NoValues(new)
  BY <1>1, <1>2 DEF Fresh, NoValues
<1>6. PendingInv'
  BY <1>1, <1>5, PendingStep
<1> QED
  BY <1>4, <1>6 DEF TInv, TreeInv, Grew

(* A step that adds three, h above g above f, where g may be for a return that is new. *)
LEMMA TreeThree ==
  ASSUME IInv, TInv, mode' = "go", CursorOK', NEW keep, Grew(keep, FALSE),
         NEW f, NEW g, NEW h, Rebuilt(keep, <<f, g, h>>),
         FrameKind(nodes', f), Link(nodes', FrameAt(stack, keep), f),
         FrameKind(nodes', g), Link(nodes', f, g),
         FrameKind(nodes', h), Link(nodes', g, h),
         Loose(stack, keep, f.node), f.fn # "return_values", f.node # g.node,
         Loose(stack, keep, g.node), g.node > Len(nodes),
         Loose(stack, keep, h.node), h.fn # "return_values", h.node # g.node
  PROVE  TInv'
<1> DEFINE new == <<f, g, h>>
<1>1. Rebuilt(keep, new) /\ Len(new) = 3 /\ new[1] = f /\ new[2] = g /\ new[3] = h
  OBVIOUS
<1> HIDE DEF new
<1>2. \A i \in 1..Len(new) : i = 1 \/ i = 2 \/ i = 3
  BY <1>1
<1>3. Under(keep, new, 1) = FrameAt(stack, keep) /\ Under(keep, new, 2) = f /\ Under(keep, new, 3) = g
  BY <1>1 DEF Under
<1>4. FramesInv'
  <2>1. \A i \in 1..Len(new) : FrameKind(nodes', new[i]) /\ Link(nodes', Under(keep, new, i), new[i])
    BY <1>1, <1>2, <1>3
  <2> QED
    BY <1>1, <2>1, FramesStep
<1>5. Fresh(keep, new)
  BY <1>1, <1>2 DEF Fresh
<1>6. PendingInv'
  BY <1>1, <1>5, PendingStep
<1> QED
  BY <1>4, <1>6 DEF TInv, TreeInv, Grew

-----------------------------------------------------------------------------
(* Steps of one shape *)

(* The frame at the top, the one below it, and what is known of them. *)
LEMMA TopFrame ==
  ASSUME IInv, TInv
  PROVE  /\ Top \in AnyFrame /\ FrameOK(Top, Len(nodes)) /\ FrameKind(nodes, Top)
         /\ Len(stack) \in Nat /\ Len(stack) \in 1..Len(stack) /\ Len(stack) \in 0..Len(stack)
         /\ Top = FrameAt(stack, Len(stack))
         /\ Top.fn \in FillingFn => Top.node \in 1..Len(nodes)
<1>1. /\ Top = FrameAt(stack, Len(stack)) /\ Top \in AnyFrame /\ FrameOK(Top, Len(nodes))
      /\ Len(stack) \in Nat /\ Len(stack) \in 1..Len(stack)
  BY BelowTop DEF IInv, StackInv
<1>2. FrameKind(nodes, Top)
  BY <1>1 DEF TInv, FramesInv
<1> QED
  BY <1>1, <1>2, NodeHere

(* What is known of the caller of the top frame. *)
LEMMA CallerFrame ==
  ASSUME IInv, TInv, Top.fn # "run", NEW below, below = FrameAt(stack, Len(stack) - 1)
  PROVE  /\ Len(stack) - 1 \in 1..Len(stack) /\ Len(stack) - 1 \in 0..Len(stack)
         /\ below \in AnyFrame /\ FrameOK(below, Len(nodes)) /\ FrameKind(nodes, below)
         /\ Link(nodes, below, Top)
         /\ Loose(stack, Len(stack) - 1, Top.node)
         /\ Top.fn # "return_values" => Loose(stack, Len(stack), Top.node)
<1>1. Len(stack) > 1 /\ Len(stack) \in Nat /\ Top = FrameAt(stack, Len(stack)) /\ StackInv
  BY TopFrame, BelowTop DEF IInv
<1>2. Len(stack) - 1 \in 1..Len(stack) /\ Len(stack) - 1 \in 0..Len(stack) /\ Len(stack) \in 1..Len(stack)
  BY <1>1
<1>3. below \in AnyFrame /\ FrameOK(below, Len(nodes)) /\ FrameKind(nodes, below)
  BY <1>1, <1>2, FramesTyped DEF StackInv, TInv, FramesInv
<1>4. Link(nodes, below, Top)
  BY <1>1, <1>2 DEF TInv, FramesInv
<1>5. ASSUME NEW d \in 1..Len(stack), d # Len(stack), FrameAt(stack, d).fn = "return_values"
      PROVE  FrameAt(stack, d).node # Top.node
  BY <1>1, <1>2, <1>5 DEF TInv, PendingInv
<1>6. \A d \in 1..(Len(stack) - 1) : d \in 1..Len(stack) /\ d # Len(stack)
  BY <1>1
<1>7. Loose(stack, Len(stack) - 1, Top.node)
  BY <1>5, <1>6 DEF Loose
<1>8. Top.fn # "return_values" => Loose(stack, Len(stack), Top.node)
  BY <1>1, <1>5 DEF Loose
<1> QED
  BY <1>2, <1>3, <1>4, <1>7, <1>8

(* No return that takes values is node 0. *)
LEMMA LooseZero ==
  ASSUME IInv, NEW keep \in 0..Len(stack)
  PROVE  Loose(stack, keep, 0)
<1>1. ASSUME NEW d \in 1..keep, FrameAt(stack, d).fn = "return_values" PROVE FrameAt(stack, d).node # 0
  <2>1. d \in 1..Len(stack)
    BY DEF IInv, StackInv
  <2> QED
    BY <1>1, <2>1 DEF IInv, StackInv, FrameOK, FillingFn
<1> QED
  BY <1>1 DEF Loose

(* The top frame was replaced or a frame put on it. *)
LEMMA TopOfOne ==
  ASSUME IInv, NEW keep, NEW f, Rebuilt(keep, <<f>>)
  PROVE  Top' = f
<1> DEFINE new == <<f>>
<1>1. new # <<>> /\ new[Len(new)] = f
  OBVIOUS
<1> QED
  BY <1>1, NewTop DEF IInv

(* The second of two new frames is on top. *)
LEMMA TopOfTwo ==
  ASSUME IInv, NEW keep, NEW f, NEW g, Rebuilt(keep, <<f, g>>)
  PROVE  Top' = g
<1> DEFINE new == <<f, g>>
<1>1. new # <<>> /\ new[Len(new)] = g
  OBVIOUS
<1> QED
  BY <1>1, NewTop DEF IInv

(* And the third of three. *)
LEMMA TopOfThree ==
  ASSUME IInv, NEW keep, NEW f, NEW g, NEW h, Rebuilt(keep, <<f, g, h>>)
  PROVE  Top' = h
<1> DEFINE new == <<f, g, h>>
<1>1. new # <<>> /\ new[Len(new)] = h
  OBVIOUS
<1> QED
  BY <1>1, NewTop DEF IInv

(* The top frame is left: the one below it is next. *)
LEMMA Leaves ==
  ASSUME IInv, Top.fn # "run", stack' = Tail(stack)
  PROVE  Rebuilt(Len(stack) - 1, <<>>) /\ Top' = FrameAt(stack, Len(stack) - 1)
<1>1. Rebuilt(Len(stack) - 1, <<>>)
  BY Popped DEF IInv
<1> QED
  BY <1>1, NewTop DEF IInv

(* The stack stays: at an error, for instance, or when the top frame goes on. *)
LEMMA StayTree ==
  ASSUME IInv, TInv, stack' = stack, mode' # "return", NEW grafts, Grew(Len(stack), grafts), CursorOK'
  PROVE  TInv'
<1>1. Rebuilt(Len(stack), <<>>)
  BY Same DEF IInv
<1> QED
  BY <1>1, TreeNone

(* A failure keeps the trees, whatever arena it leaves. *)
LEMMA FailTree ==
  ASSUME IInv, TInv, NEW message, NEW p, NEW arena, FailAt(message, p, arena),
         NEW grafts, nodes' = arena => Grew(Len(stack), grafts)
  PROVE  TInv'
<1>1. nodes' = arena /\ stack' = stack /\ mode' = "throw"
  BY DEF FailAt
<1>2. CursorOK'
  BY <1>1, CursorQuiet
<1> QED
  BY <1>1, <1>2, StayTree

(* The same for a failure at the cursor. *)
LEMMA FailHereTree ==
  ASSUME IInv, TInv, NEW message, Fail(message)
  PROVE  TInv'
<1>1. nodes' = nodes => Grew(Len(stack), TRUE)
  BY GrewSame
<1> QED
  BY <1>1, FailTree DEF Fail

(* A function definition goes on. *)
LEMMA RelabelTree ==
  ASSUME IInv, TInv, Top.fn \in SignatureFn, NEW fn \in SignatureFn, Become(fn), mode' = "go",
         NEW grafts, Grew(Len(stack) - 1, grafts)
  PROVE  TInv'
<1> DEFINE f == [Top EXCEPT !.fn = fn]
           below == FrameAt(stack, Len(stack) - 1)
<1>1. Top \in AnyFrame /\ FrameKind(nodes, Top) /\ Top.fn # "run"
  BY TopFrame DEF SignatureFn
<1>2. f \in AnyFrame /\ f.fn = fn /\ f.node = Top.node
  BY <1>1 DEF AnyFrame, SignatureFn, Fn
<1>3. stack' = <<f>> \o Tail(stack)
  BY DEF Become
<1>4. Top.node \in 1..Len(nodes)
  BY TopFrame DEF FillingFn
<1> HIDE DEF f
<1>5. Rebuilt(Len(stack) - 1, <<f>>)
  BY <1>1, <1>2, <1>3, Replaced DEF IInv
<1>6. below.fn = "run" /\ Loose(stack, Len(stack) - 1, Top.node)
  BY <1>1, CallerFrame DEF Link
<1>7. nodes'[Top.node].kind = "function_def"
  BY <1>1, <1>4 DEF FrameKind, Grew
<1>8. FrameKind(nodes', f)
  BY <1>2, <1>7 DEF FrameKind, SignatureFn
<1>9. Link(nodes', below, f)
  BY <1>2, <1>6 DEF Link, SignatureFn
<1>10. Top' = f
  BY <1>5, TopOfOne
<1>11. CursorOK'
  BY <1>2, <1>10, CursorQuiet DEF SignatureFn
<1> QED
  BY <1>2, <1>5, <1>6, <1>8, <1>9, <1>11, TreeOne DEF SignatureFn

(* expect in a signature. *)
LEMMA ExpectTree ==
  ASSUME IInv, TInv, mode = "go", Top.fn \in SignatureFn, NEW fn \in SignatureFn,
         NEW kind, NEW message, Expect(kind, message, fn)
  PROVE  TInv'
<1>1. CASE Fail(message)
  BY <1>1, FailHereTree
<1>2. CASE Become(fn) /\ nodes' = nodes /\ mode' = "go"
  <2>1. Grew(Len(stack) - 1, TRUE)
    BY <1>2, GrewSame
  <2> QED
    BY <1>2, <2>1, RelabelTree
<1> QED
  BY <1>1, <1>2 DEF Expect

-----------------------------------------------------------------------------
(* Definitions *)

(* A new function has no children. *)
LEMMA ParseDefinitionTree ==
  ASSUME IInv, TInv, parse_definition
  PROVE  TInv'
<1>1. Top.fn = "run"
  BY DEF parse_definition, At
<1>2. ASSUME NEW access, NEW offset, Create(Node("function_def", access, offset, <<>>)),
             Call(Frame("signature", NewId, statement)), mode' = "go"
      PROVE  TInv'
  <2> DEFINE f == Frame("signature", NewId, statement)
  <2>1. nodes' = Append(nodes, Node("function_def", access, offset, <<>>))
    BY <1>2 DEF Create
  <2>2. Grew(Len(stack), FALSE)
    <3>1. "function_def" \notin {"binary_expr", "call_expr"} /\ "function_def" # "unary_expr"
      OBVIOUS
    <3> QED
      BY <2>1, <3>1, GrewLeaf, Zenon
  <2>3. nodes'[NewId].kind = "function_def" /\ NewId \in Nat /\ NewId > Len(nodes) /\ NewId \in 1..Len(nodes')
    BY <2>1, NewNode, NodesHere
  <2>4. f \in AnyFrame /\ f.fn = "signature" /\ f.node = NewId
    BY <2>3 DEF Frame, AnyFrame, Fn, statement, postfix
  <2>5. stack' = <<f>> \o stack
    BY <1>2 DEF Call
  <2> HIDE DEF f
  <2>6. Rebuilt(Len(stack), <<f>>)
    BY <2>4, <2>5, Pushed DEF IInv
  <2>7. FrameKind(nodes', f)
    BY <2>3, <2>4 DEF FrameKind, SignatureFn
  <2>8. Link(nodes', FrameAt(stack, Len(stack)), f)
    <3>1. FrameAt(stack, Len(stack)).fn = "run"
      BY <1>1, TopFrame
    <3> QED
      BY <2>4, <3>1 DEF Link, SignatureFn
  <2>9. Loose(stack, Len(stack), NewId)
    BY <2>3, LooseNew, TopFrame
  <2>10. CursorOK'
    BY <1>2, <2>4, <2>6, TopOfOne, CursorQuiet
  <2> QED
    BY <1>2, <2>2, <2>4, <2>6, <2>7, <2>8, <2>9, <2>10, TreeOne
<1>3. ASSUME NEW message, NEW p, FailAt(message, p, nodes) PROVE TInv'
  <2>1. nodes' = nodes => Grew(Len(stack), TRUE)
    BY GrewSame
  <2> QED
    BY <1>3, <2>1, FailTree
<1>4. mode = "go"
  BY DEF parse_definition, At
<1> QED
  BY <1>2, <1>3, <1>4 DEF parse_definition

(* The parameters and outputs of a function become its children. *)
LEMMA SignatureTree ==
  ASSUME IInv, TInv,
         \/ ExpectParen \/ NoParameters \/ SomeParameters \/ parse_function_definition_parameter
         \/ MoreParameters \/ parse_function_definition_outputs \/ parse_function_definition_output
         \/ MoreOutputs
  PROVE  TInv'
<1>1. /\ {"signature", "parameters", "parameter", "more_parameters", "outputs", "output",
          "more_outputs", "body"} = SignatureFn
  BY DEF SignatureFn
<1>2. ASSUME Top.fn \in SignatureFn, NEW fn \in SignatureFn, Become(fn), mode' = "go", nodes' = nodes
      PROVE  TInv'
  <2>1. Grew(Len(stack) - 1, TRUE)
    BY <1>2, GrewSame
  <2> QED
    BY <1>2, <2>1, RelabelTree
<1>3. ASSUME Top.fn \in SignatureFn, NEW fn \in SignatureFn, Become(fn), mode' = "go",
             NEW kind \in {"function_parameter", "function_output"},
             nodes' = WithChild(WithType(kind), Top.node, NewId)
      PROVE  TInv'
  <2>1. Top.node \in 1..Len(nodes) /\ nodes[Top.node].kind = "function_def" /\ Top.fn # "run"
    BY <1>3, TopFrame DEF FillingFn, FrameKind, SignatureFn
  <2>2. Len(stack) - 1 \in 0..Len(stack)
    BY <2>1, CallerFrame
  <2>3. Grew(Len(stack) - 1, TRUE)
    BY <1>3, <2>1, <2>2, GrewType
  <2> QED
    BY <1>3, <2>3, RelabelTree
<1>4. ASSUME NEW kind \in {"function_parameter", "function_output"}, NEW message, NEW p,
             FailAt(message, p, WithNode(kind)) \/ FailAt(message, p, WithType(kind))
      PROVE  TInv'
  <2>1. nodes' = WithNode(kind) => Grew(Len(stack), FALSE)
    BY GrewLeaf DEF WithNode
  <2>2. nodes' = WithType(kind) => Grew(Len(stack), TRUE)
    BY GrewType, TopFrame
  <2> QED
    BY <1>4, <2>1, <2>2, FailTree
<1>5. CASE ExpectParen
  BY <1>1, <1>5, ExpectTree DEF ExpectParen, At
<1>6. CASE NoParameters
  BY <1>1, <1>2, <1>6 DEF NoParameters, At
<1>7. CASE SomeParameters
  BY <1>1, <1>2, <1>7 DEF SomeParameters, At
<1>8. CASE parse_function_definition_parameter
  <2>1. Top.fn \in SignatureFn /\ mode = "go"
    BY <1>1, <1>8 DEF parse_function_definition_parameter, At
  <2> QED
    BY <1>1, <1>3, <1>4, <1>8, <2>1 DEF parse_function_definition_parameter
<1>9. CASE MoreParameters
  <2>1. Top.fn \in SignatureFn /\ mode = "go"
    BY <1>1, <1>9 DEF MoreParameters, At
  <2> QED
    <3>1. CASE Expect("r_paren", "expect_paren_after_parameters", "outputs")
      BY <1>1, <2>1, <3>1, ExpectTree
    <3>2. CASE Become("parameter") /\ nodes' = nodes /\ mode' = "go"
      BY <1>1, <1>2, <2>1, <3>2
    <3> QED
      BY <1>9, <2>1, <3>1, <3>2 DEF MoreParameters
<1>10. CASE parse_function_definition_outputs
  BY <1>1, <1>2, <1>10 DEF parse_function_definition_outputs, At
<1>11. CASE parse_function_definition_output
  <2>1. Top.fn \in SignatureFn /\ mode = "go"
    BY <1>1, <1>11 DEF parse_function_definition_output, At
  <2> QED
    BY <1>1, <1>3, <1>4, <1>11, <2>1 DEF parse_function_definition_output
<1>12. CASE MoreOutputs
  BY <1>1, <1>2, <1>12 DEF MoreOutputs, At
<1> QED
  BY <1>5, <1>6, <1>7, <1>8, <1>9, <1>10, <1>11, <1>12

(* A new frame for node n. *)
LEMMA NewFrame ==
  ASSUME NEW fn \in Fn, NEW n \in Nat, NEW precedence \in statement..postfix
  PROVE  /\ Frame(fn, n, precedence) \in AnyFrame /\ Frame(fn, n, precedence).fn = fn
         /\ Frame(fn, n, precedence).node = n /\ Frame(fn, n, precedence).precedence = precedence
BY DEF Frame, AnyFrame

(* The body of a function. *)
LEMMA BodyTree ==
  ASSUME IInv, TInv, ExpectBody \/ ReturnDefinition
  PROVE  TInv'
<1> DEFINE below == FrameAt(stack, Len(stack) - 1)
<1>1. CASE ExpectBody
  <2>1. mode = "go" /\ Top.fn = "body" /\ Top.fn # "run"
    BY <1>1 DEF ExpectBody, At
  <2>2. CASE Fail("expect_brace_before_function_body")
    BY <2>2, FailHereTree
  <2>3. CASE /\ BecomeAndCall("defined", Frame("block", Top.node, statement))
             /\ UNCHANGED <<mode, nodes>>
    <3> DEFINE f == [Top EXCEPT !.fn = "defined"]
               g == Frame("block", Top.node, statement)
    <3>1. Top \in AnyFrame /\ Top.node \in 1..Len(nodes) /\ nodes[Top.node].kind = "function_def"
      BY <2>1, TopFrame DEF FrameKind, FillingFn, SignatureFn
    <3>2. f \in AnyFrame /\ f.fn = "defined" /\ f.node = Top.node
      BY <3>1 DEF AnyFrame, Fn
    <3>3. g \in AnyFrame /\ g.fn = "block" /\ g.node = Top.node
      <4>1. "block" \in Fn /\ Top.node \in Nat /\ statement \in statement..postfix
        BY <3>1 DEF Fn, statement, postfix
      <4> QED
        BY <4>1, NewFrame
    <3>4. stack' = <<g, f>> \o Tail(stack)
      BY <2>3 DEF BecomeAndCall
    <3> HIDE DEF f, g
    <3>5. Rebuilt(Len(stack) - 1, <<f, g>>)
      BY <2>1, <3>2, <3>3, <3>4, ReplacedTwo DEF IInv
    <3>6. below.fn = "run" /\ Loose(stack, Len(stack) - 1, Top.node)
      <4>1. Link(nodes, below, Top) /\ Loose(stack, Len(stack) - 1, Top.node)
        BY <2>1, CallerFrame
      <4> QED
        BY <2>1, <4>1 DEF Link, SignatureFn
    <3>7. Grew(Len(stack) - 1, TRUE)
      BY <2>3, GrewSame
    <3>8. FrameKind(nodes', f) /\ FrameKind(nodes', g)
      BY <2>3, <3>1, <3>2, <3>3 DEF FrameKind, SignatureFn
    <3>9. Link(nodes', below, f) /\ Link(nodes', f, g)
      BY <3>2, <3>3, <3>6 DEF Link, SignatureFn
    <3>10. CursorOK' /\ mode' # "return"
      BY <2>1, <2>3, <3>3, <3>5, TopOfTwo, CursorQuiet
    <3> QED
      BY <3>2, <3>3, <3>5, <3>6, <3>7, <3>8, <3>9, <3>10, TreeTwo
  <2> QED
    BY <1>1, <2>2, <2>3 DEF ExpectBody
<1>2. CASE ReturnDefinition
  <2>1. /\ Top.fn = "defined" /\ Top.fn # "run" /\ stack' = Tail(stack) /\ nodes' = nodes
        /\ mode' = "return" /\ value' = Top.node
    BY <1>2 DEF ReturnDefinition, Receives, Return
  <2>2. Rebuilt(Len(stack) - 1, <<>>) /\ Top' = below
    BY <2>1, Leaves
  <2>3. below.fn = "run" /\ Loose(stack, Len(stack) - 1, value')
    BY <2>1, CallerFrame DEF Link
  <2>4. Grew(Len(stack) - 1, TRUE)
    BY <2>1, GrewSame
  <2>5. CursorOK'
    BY <2>1, <2>2, <2>3, CursorQuiet
  <2> QED
    BY <2>2, <2>3, <2>4, <2>5, TreeNone
<1> QED
  BY <1>1, <1>2

(* Every step of a definition. *)
LEMMA DefinitionTree ==
  ASSUME IInv, TInv, DefinitionStep
  PROVE  TInv'
<1>1. CASE FinishRun \/ PutDefinition
  <2>1. /\ stack' = stack /\ nodes' = nodes /\ Top.fn = "run"
        /\ mode' = "done" \/ mode' = "go"
    BY <1>1 DEF FinishRun, PutDefinition, At, Receives, Continue
  <2>2. Top'.fn = "run"
    BY <2>1 DEF Top
  <2>3. CursorOK' /\ mode' # "return"
    BY <2>1, <2>2, CursorQuiet
  <2>4. Grew(Len(stack), TRUE)
    BY <2>1, GrewSame
  <2> QED
    BY <2>1, <2>3, <2>4, StayTree
<1> QED
  BY <1>1, ParseDefinitionTree, SignatureTree, BodyTree DEF DefinitionStep

-----------------------------------------------------------------------------
(* Statements and recovery *)

(* No token binds tighter than postfix. *)
LEMMA PullTyped ==
  ASSUME NEW p
  PROVE  TailRule(p).precedence \in statement..postfix
BY TablesAgree DEF statement, assignment, multiplicative, postfix

(* How tightly the token at the next position of the cursor binds. *)
LEMMA PullNext ==
  ASSUME tokens' = tokens
  PROVE  Pull' = TailRule(it').precedence
BY DEF Pull, TailRule, ShiftAt, After

(* Whatever follows may continue a node of these kinds. *)
LEMMA Opens7 ==
  ASSUME tokens' = tokens, NEW n, NEW precedence,
         \/ nodes'[n].kind \in {"function_def", "block_expr", "call_expr", "ident_expr", "literal_expr"}
         \/ nodes'[n].kind = "return_expr" /\ nodes'[n].children = <<>>
         \/ nodes'[n].kind = "unary_expr" /\ ~IsPrefix(nodes'[n])
  PROVE  Pull' <= Ceiling(nodes'[n]) /\ Binds(nodes', n, precedence)
<1>1. Ceiling(nodes'[n]) = postfix
  BY Ceilings DEF IsPrefix
<1>2. Pull' \in statement..postfix
  BY PullNext, PullTyped
<1>3. nodes'[n].kind # "binary_expr"
  OBVIOUS
<1> QED
  BY <1>1, <1>2, <1>3 DEF Binds, statement, postfix

(* A block returns its node, which anything may follow. *)
LEMMA BlockEnds ==
  ASSUME IInv, TInv, Top.fn = "block", Return(Top.node), UNCHANGED <<tokens, nodes>>
  PROVE  TInv'
<1> DEFINE below == FrameAt(stack, Len(stack) - 1)
<1>1. Top.fn # "run" /\ stack' = Tail(stack) /\ nodes' = nodes /\ mode' = "return" /\ value' = Top.node
  BY DEF Return
<1>2. Rebuilt(Len(stack) - 1, <<>>) /\ Top' = below
  BY <1>1, Leaves
<1>3. below.fn \in {"defined", "block", "tail"} /\ Loose(stack, Len(stack) - 1, value')
  BY <1>1, CallerFrame DEF Link
<1>4. Grew(Len(stack) - 1, TRUE)
  BY <1>1, GrewSame
<1>5. nodes'[value'].kind \in {"function_def", "block_expr"}
  BY <1>1, TopFrame DEF FrameKind
<1>6. Pull' <= Ceiling(nodes'[value']) /\ Binds(nodes', value', Top'.precedence)
  BY <1>5, Opens7
<1>7. CursorOK'
  BY <1>1, <1>2, <1>3, <1>6 DEF CursorOK, At, Receives
<1> QED
  BY <1>2, <1>3, <1>4, <1>7, TreeNone

(* Every step of a statement. *)
LEMMA StatementTree ==
  ASSUME IInv, TInv, StatementStep
  PROVE  TInv'
<1> DEFINE below == FrameAt(stack, Len(stack) - 1)
<1>1. statement \in statement..postfix /\ "block" \in Fn /\ "statement" \in Fn
  BY DEF statement, postfix, Fn
<1>2. CASE CloseBlock
  BY <1>2, BlockEnds DEF CloseBlock, At
<1>3. CASE parse_statement
  <2>1. Top.fn = "block" /\ Top = FrameAt(stack, Len(stack)) /\ mode' = "go"
    BY <1>3, TopFrame DEF parse_statement, At
  <2>2. CASE /\ Create(Node("block_expr", "none", tokens[it].offset, <<>>))
             /\ Call(Frame("block", NewId, statement))
    <3> DEFINE f == Frame("block", NewId, statement)
    <3>1. nodes' = Append(nodes, Node("block_expr", "none", tokens[it].offset, <<>>))
      BY <2>2 DEF Create
    <3>2. Grew(Len(stack), FALSE)
      <4>1. "block_expr" \notin {"binary_expr", "call_expr"} /\ "block_expr" # "unary_expr"
        OBVIOUS
      <4> QED
        BY <3>1, <4>1, GrewLeaf, Zenon
    <3>3. nodes'[NewId].kind = "block_expr" /\ NewId \in Nat /\ NewId > Len(nodes)
      BY <3>1, NewNode, NodesHere
    <3>4. f \in AnyFrame /\ f.fn = "block" /\ f.node = NewId
      BY <1>1, <3>3, NewFrame
    <3>5. stack' = <<f>> \o stack
      BY <2>2 DEF Call
    <3> HIDE DEF f
    <3>6. Rebuilt(Len(stack), <<f>>)
      BY <3>4, <3>5, Pushed DEF IInv
    <3>7. FrameKind(nodes', f)
      BY <3>3, <3>4 DEF FrameKind, SignatureFn
    <3>8. Link(nodes', FrameAt(stack, Len(stack)), f)
      BY <2>1, <3>4 DEF Link, SignatureFn
    <3>9. Loose(stack, Len(stack), NewId)
      BY <3>3, LooseNew, TopFrame
    <3>10. CursorOK'
      BY <2>1, <3>4, <3>6, TopOfOne, CursorQuiet
    <3> QED
      BY <2>1, <3>2, <3>4, <3>6, <3>7, <3>8, <3>9, <3>10, TreeOne
  <2>3. CASE /\ stack' = <<Expression(statement), Frame("statement", 0, statement)>> \o stack
             /\ nodes' = nodes
    <3> DEFINE f == Frame("statement", 0, statement)
               g == Expression(statement)
    <3>1. f \in AnyFrame /\ f.fn = "statement" /\ f.node = 0
      BY <1>1, NewFrame
    <3>2. g \in AnyFrame /\ g.fn = "expression" /\ g.node = 0
      BY <1>1, NewFrame DEF Expression, Fn
    <3>3. stack' = <<g, f>> \o stack
      BY <2>3
    <3> HIDE DEF f, g
    <3>4. Rebuilt(Len(stack), <<f, g>>)
      BY <3>1, <3>2, <3>3, PushedTwo DEF IInv
    <3>5. Grew(Len(stack), TRUE)
      BY <2>3, GrewSame
    <3>6. FrameKind(nodes', f) /\ FrameKind(nodes', g)
      BY <3>1, <3>2 DEF FrameKind, SignatureFn
    <3>7. Link(nodes', FrameAt(stack, Len(stack)), f) /\ Link(nodes', f, g)
      BY <2>1, <3>1, <3>2 DEF Link, SignatureFn
    <3>8. Loose(stack, Len(stack), 0)
      BY LooseZero, TopFrame
    <3>9. CursorOK'
      BY <2>1, <3>2, <3>4, TopOfTwo, CursorQuiet
    <3> QED
      BY <2>1, <3>1, <3>2, <3>4, <3>5, <3>6, <3>7, <3>8, <3>9, TreeTwo
  <2> QED
    BY <1>3, <2>2, <2>3 DEF parse_statement
<1>4. CASE ExpectSemicolon
  <2>1. mode = "return" /\ Top.fn = "statement" /\ Top.fn # "run"
    BY <1>4 DEF ExpectSemicolon, Receives
  <2>2. CASE Fail("expect_semicolon")
    BY <2>2, FailHereTree
  <2>3. CASE Return(value) /\ nodes' = nodes
    <3>1. stack' = Tail(stack) /\ mode' = "return" /\ value' = value
      BY <2>3 DEF Return
    <3>2. Rebuilt(Len(stack) - 1, <<>>) /\ Top' = below
      BY <2>1, <3>1, Leaves
    <3>3. below.fn = "block"
      BY <2>1, CallerFrame DEF Link
    <3>4. Loose(stack, Len(stack) - 1, value')
      <4>1. Loose(stack, Len(stack), value)
        BY <2>1 DEF TInv, PendingInv
      <4>2. \A d \in 1..(Len(stack) - 1) : d \in 1..Len(stack)
        BY TopFrame
      <4> QED
        BY <3>1, <4>1, <4>2 DEF Loose
    <3>5. Grew(Len(stack) - 1, TRUE)
      BY <2>3, GrewSame
    <3>6. CursorOK'
      BY <3>1, <3>2, <3>3, CursorQuiet
    <3> QED
      BY <3>1, <3>2, <3>4, <3>5, <3>6, TreeNone
  <2> QED
    BY <1>4, <2>2, <2>3 DEF ExpectSemicolon
<1>5. CASE PutStatement
  <2>1. /\ mode = "return" /\ Top.fn = "block" /\ mode' = "go" /\ stack' = stack
        /\ nodes' = WithChild(nodes, Top.node, value)
    BY <1>5 DEF PutStatement, Receives, Continue
  <2>2. Top.node \in 1..Len(nodes) /\ nodes[Top.node].kind \in {"function_def", "block_expr"}
    BY <2>1, TopFrame DEF FillingFn, FrameKind
  <2>3. value \in 1..Len(nodes)
    BY <2>1, NodesHere DEF IInv, ValueInv
  <2>4. Loose(stack, Len(stack), value)
    BY <2>1 DEF TInv, PendingInv
  <2>5. Grew(Len(stack), TRUE)
    BY <2>1, <2>2, <2>3, <2>4, GrewPut DEF IsOperator, IsPrefix
  <2>6. CursorOK'
    <3>1. Top'.fn = "block"
      BY <2>1 DEF Top
    <3> QED
      BY <2>1, <3>1, CursorQuiet
  <2> QED
    BY <2>1, <2>5, <2>6, StayTree
<1> QED
  BY <1>2, <1>3, <1>4, <1>5 DEF StatementStep

(* Every step of recovery: frames are left, and nothing is asked of those that stay. *)
LEMMA RecoveryTree ==
  ASSUME IInv, TInv, RecoveryStep
  PROVE  TInv'
<1>1. ASSUME stack' = stack, nodes' = nodes, Top.fn \in {"run", "block"}, mode' \in {"go", "throw"}
      PROVE  TInv'
  <2>1. Top'.fn \in {"run", "block"}
    BY <1>1 DEF Top
  <2>2. CursorOK' /\ mode' # "return"
    BY <1>1, <2>1, CursorQuiet
  <2>3. Grew(Len(stack), TRUE)
    BY <1>1, GrewSame
  <2> QED
    BY <1>1, <2>2, <2>3, StayTree
<1>2. CASE recover_at_definition_level
  BY <1>1, <1>2 DEF recover_at_definition_level
<1>3. CASE recover_at_statement_level
  <2>1. CASE Return(Top.node)
    BY <1>3, <2>1, BlockEnds DEF recover_at_statement_level
  <2>2. CASE stack' = stack /\ mode' \in {"go", "throw"}
    BY <1>1, <1>3, <2>2 DEF recover_at_statement_level
  <2> QED
    BY <1>3, <2>1, <2>2 DEF recover_at_statement_level
<1>4. CASE Unwind
  <2>1. Top.fn # "run" /\ stack' = Tail(stack) /\ nodes' = nodes /\ mode' = "throw"
    BY <1>4 DEF Unwind
  <2>2. Rebuilt(Len(stack) - 1, <<>>)
    BY <2>1, Leaves
  <2>3. Grew(Len(stack) - 1, TRUE)
    BY <2>1, GrewSame
  <2>4. CursorOK' /\ mode' # "return"
    BY <2>1, CursorQuiet
  <2> QED
    BY <2>2, <2>3, <2>4, TreeNone
<1> QED
  BY <1>2, <1>3, <1>4 DEF RecoveryStep

-----------------------------------------------------------------------------
(* Expressions *)

(* The loop of parse_expression takes the place of its beginning. *)
LEMMA LoopLink ==
  ASSUME IInv, TInv, Top.fn \in {"expression", "tail"}, NEW keep, NEW grafts, Grew(keep, grafts),
         NEW f \in AnyFrame, f.fn = "tail", f.precedence = Top.precedence
  PROVE  /\ FrameKind(nodes', f) /\ Link(nodes', FrameAt(stack, Len(stack) - 1), f)
         /\ Top.fn # "run"
<1> DEFINE below == FrameAt(stack, Len(stack) - 1)
<1>1. Top.fn # "run"
  OBVIOUS
<1>2. /\ below \in AnyFrame /\ FrameOK(below, Len(nodes)) /\ FrameKind(nodes, below)
      /\ Link(nodes, below, Top)
  BY <1>1, CallerFrame
<1>3. Top \in AnyFrame /\ FrameOK(Top, Len(nodes)) /\ FrameKind(nodes, Top)
  BY TopFrame
<1> HIDE DEF below
<1>4. Link(nodes', below, Top)
  BY <1>2, <1>3, FrameKept
<1>5. Link(nodes', below, f)
  BY <1>4 DEF Link, SignatureFn
<1>6. FrameKind(nodes', f)
  BY DEF FrameKind, SignatureFn
<1> QED
  BY <1>1, <1>5, <1>6 DEF below

(* The loop goes on with an expression that the token at the cursor may continue. *)
LEMMA HeadTree ==
  ASSUME IInv, TInv, Top.fn \in {"expression", "tail"}, NEW id \in Nat, HeadIs(id), mode' = "go",
         NEW grafts, Grew(Len(stack) - 1, grafts), Loose(stack, Len(stack) - 1, id),
         Pull' <= Ceiling(nodes'[id]), Binds(nodes', id, Top.precedence)
  PROVE  TInv'
<1> DEFINE f == [Top EXCEPT !.fn = "tail", !.node = id]
<1>1. Top \in AnyFrame
  BY TopFrame
<1>2. f \in AnyFrame /\ f.fn = "tail" /\ f.node = id /\ f.precedence = Top.precedence
  BY <1>1 DEF AnyFrame, Fn
<1>3. stack' = <<f>> \o Tail(stack)
  BY DEF HeadIs
<1> HIDE DEF f
<1>4. FrameKind(nodes', f) /\ Link(nodes', FrameAt(stack, Len(stack) - 1), f) /\ Top.fn # "run"
  BY <1>2, LoopLink
<1>5. Rebuilt(Len(stack) - 1, <<f>>)
  BY <1>2, <1>3, <1>4, Replaced DEF IInv
<1>6. Top' = f
  BY <1>5, TopOfOne
<1>7. CursorOK'
  BY <1>2, <1>6 DEF CursorOK, At, Receives
<1> QED
  BY <1>2, <1>4, <1>5, <1>7, TreeOne

(* A node without children, of a kind that anything may follow, is the head. *)
LEMMA LeafTree ==
  ASSUME IInv, TInv, Top.fn = "expression", tokens' = tokens, mode' = "go",
         NEW kind \in {"ident_expr", "literal_expr", "return_expr"}, NEW op, NEW offset,
         Create(Node(kind, op, offset, <<>>)), HeadIs(NewId)
  PROVE  TInv'
<1>1. nodes' = Append(nodes, Node(kind, op, offset, <<>>))
  BY DEF Create
<1>2. /\ nodes'[NewId].kind = kind /\ nodes'[NewId].children = <<>>
      /\ NewId \in Nat /\ NewId > Len(nodes)
  BY <1>1, NewNode, NodesHere
<1>3. Grew(Len(stack) - 1, FALSE)
  BY <1>1, GrewLeaf
<1>4. Loose(stack, Len(stack) - 1, NewId)
  BY <1>2, LooseNew, CallerFrame
<1>5. Pull' <= Ceiling(nodes'[NewId]) /\ Binds(nodes', NewId, Top.precedence)
  BY <1>2, Opens7
<1> QED
  BY <1>2, <1>3, <1>4, <1>5, HeadTree

(* The spellings are those of the operators the parser knows. *)
LEMMA PrefixOps ==
  /\ \A kind \in DOMAIN PrefixOperator : PrefixOperator[kind] \in DOMAIN PrefixSpelling
  /\ \A kind \in DOMAIN PostfixOperator : PostfixOperator[kind] \notin DOMAIN PrefixSpelling
BY DEF PrefixOperator, PostfixOperator, PrefixSpelling

(* The loop waits for g, which fills in the new node n and waits for an expression. *)
LEMMA OperandTree ==
  ASSUME IInv, TInv, Top.fn = "expression", mode' = "go", Grew(Len(stack) - 1, FALSE),
         NEW fn \in {"operand", "return_values"}, NEW precedence \in statement..postfix,
         stack' = <<Expression(precedence), Frame(fn, NewId, statement),
                    [Top EXCEPT !.fn = "tail"]>> \o Tail(stack),
         fn = "operand" => /\ IsOperator(nodes'[NewId]) /\ nodes'[NewId].kind # "binary_expr"
                           /\ precedence = Ceiling(nodes'[NewId]),
         fn = "return_values" => nodes'[NewId].kind = "return_expr" /\ precedence = statement
  PROVE  TInv'
<1> DEFINE f == [Top EXCEPT !.fn = "tail"]
           g == Frame(fn, NewId, statement)
           h == Expression(precedence)
<1>1. /\ Top \in AnyFrame /\ Top.node <= Len(nodes) /\ NewId \in Nat /\ NewId > Len(nodes)
      /\ Len(nodes) \in Nat /\ Top.node \in Nat
  BY TopFrame, NodesHere DEF FrameOK, AnyFrame
<1>2. f \in AnyFrame /\ f.fn = "tail" /\ f.node = Top.node /\ f.precedence = Top.precedence
  BY <1>1 DEF AnyFrame, Fn
<1>3. g \in AnyFrame /\ g.fn = fn /\ g.node = NewId
  <2>1. fn \in Fn /\ statement \in statement..postfix
    BY DEF Fn, statement, postfix
  <2> QED
    BY <1>1, <2>1, NewFrame
<1>4. h \in AnyFrame /\ h.fn = "expression" /\ h.node = 0 /\ h.precedence = precedence
  BY NewFrame DEF Expression, Fn
<1>5. stack' = <<h, g, f>> \o Tail(stack)
  OBVIOUS
<1> HIDE DEF f, g, h
<1>6. FrameKind(nodes', f) /\ Link(nodes', FrameAt(stack, Len(stack) - 1), f) /\ Top.fn # "run"
  BY <1>2, LoopLink
<1>7. Rebuilt(Len(stack) - 1, <<f, g, h>>)
  BY <1>2, <1>3, <1>4, <1>5, <1>6, ReplacedThree DEF IInv
<1>8. FrameKind(nodes', g) /\ FrameKind(nodes', h)
  BY <1>3, <1>4 DEF FrameKind, SignatureFn
<1>9. Link(nodes', f, g)
  BY <1>2, <1>3 DEF Link, SignatureFn, Binds
<1>10. Link(nodes', g, h)
  BY <1>3, <1>4 DEF Link, SignatureFn
<1>11. CursorOK'
  BY <1>4, <1>7, TopOfThree, CursorQuiet
<1>12. /\ Loose(stack, Len(stack) - 1, f.node) /\ Loose(stack, Len(stack) - 1, g.node)
       /\ Loose(stack, Len(stack) - 1, h.node)
  BY <1>1, <1>2, <1>3, <1>4, <1>6, CallerFrame, LooseNew, LooseZero
<1>13. f.node # g.node /\ h.node # g.node /\ g.node > Len(nodes)
  BY <1>1, <1>2, <1>3, <1>4
<1> QED
  BY <1>2, <1>4, <1>6, <1>7, <1>8, <1>9, <1>10, <1>11, <1>12, <1>13, TreeThree

(* Every step that begins an expression. *)
LEMMA HeadStepTree ==
  ASSUME IInv, TInv, HeadStep
  PROVE  TInv'
<1>1. CASE ExpressionMissing
  BY <1>1, FailHereTree DEF ExpressionMissing
<1>2. CASE on_leaf
  <2>1. Top.fn = "expression" /\ tokens' = tokens /\ mode' = "go" /\ HeadIs(NewId)
    BY <1>2 DEF on_leaf, At
  <2>2. \/ Create(Node("ident_expr", "none", tokens[it].offset, <<>>))
        \/ Create(Node("literal_expr", peek, tokens[it].offset, <<>>))
    BY <1>2 DEF on_leaf
  <2> QED
    BY <2>1, <2>2, LeafTree
<1>3. CASE on_prefix_left_brace
  <2> DEFINE f == [Top EXCEPT !.fn = "tail"]
             g == Frame("block", NewId, statement)
             keep == Len(stack) - 1
  <2>1. /\ Top.fn = "expression" /\ mode' = "go"
        /\ nodes' = Append(nodes, Node("block_expr", "none", tokens[it].offset, <<>>))
        /\ stack' = <<g, f>> \o Tail(stack)
    BY <1>3 DEF on_prefix_left_brace, At, Create, BecomeAndCall
  <2>2. nodes'[NewId].kind = "block_expr" /\ NewId \in Nat /\ NewId > Len(nodes)
    BY <2>1, NewNode, NodesHere
  <2>3. Grew(keep, FALSE)
    <3>1. "block_expr" \notin {"binary_expr", "call_expr"} /\ "block_expr" # "unary_expr"
      OBVIOUS
    <3> QED
      BY <2>1, <3>1, GrewLeaf, Zenon
  <2>4. Top \in AnyFrame
    BY TopFrame
  <2>5. f \in AnyFrame /\ f.fn = "tail" /\ f.node = Top.node /\ f.precedence = Top.precedence
    BY <2>4 DEF AnyFrame, Fn
  <2>6. g \in AnyFrame /\ g.fn = "block" /\ g.node = NewId
    <3>1. "block" \in Fn /\ statement \in statement..postfix
      BY DEF Fn, statement, postfix
    <3> QED
      BY <2>2, <3>1, NewFrame
  <2> HIDE DEF f, g
  <2>7. FrameKind(nodes', f) /\ Link(nodes', FrameAt(stack, keep), f) /\ Top.fn # "run"
    BY <2>1, <2>3, <2>5, LoopLink
  <2>8. Rebuilt(keep, <<f, g>>)
    BY <2>1, <2>5, <2>6, <2>7, ReplacedTwo DEF IInv
  <2>9. FrameKind(nodes', g) /\ Link(nodes', f, g)
    BY <2>2, <2>5, <2>6 DEF FrameKind, Link, SignatureFn
  <2>10. CursorOK'
    BY <2>1, <2>6, <2>8, TopOfTwo, CursorQuiet
  <2>11. Loose(stack, keep, f.node) /\ Loose(stack, keep, g.node)
    BY <2>2, <2>5, <2>6, <2>7, CallerFrame, LooseNew
  <2> QED
    BY <2>1, <2>3, <2>5, <2>6, <2>7, <2>8, <2>9, <2>10, <2>11, TreeTwo
<1>4. CASE on_kw_return
  <2>1. /\ Top.fn = "expression" /\ mode' = "go" /\ tokens' = tokens
        /\ Create(Node("return_expr", "none", tokens[it].offset, <<>>))
    BY <1>4 DEF on_kw_return, At
  <2>2. CASE HeadIs(NewId)
    BY <2>1, <2>2, LeafTree
  <2>3. CASE stack' = <<Expression(statement), Frame("return_values", NewId, statement),
                        [Top EXCEPT !.fn = "tail"]>> \o Tail(stack)
    <3>1. nodes' = Append(nodes, Node("return_expr", "none", tokens[it].offset, <<>>))
      BY <2>1 DEF Create
    <3>2. nodes'[NewId].kind = "return_expr"
      BY <3>1, NewNode
    <3>3. Grew(Len(stack) - 1, FALSE)
      <4>1. "return_expr" \notin {"binary_expr", "call_expr"} /\ "return_expr" # "unary_expr"
        OBVIOUS
      <4> QED
        BY <3>1, <4>1, GrewLeaf, Zenon
    <3>4. statement \in statement..postfix
      BY DEF statement, postfix
    <3>5. "return_values" \in {"operand", "return_values"} /\ "return_values" # "operand"
      OBVIOUS
    <3> QED
      BY <2>1, <2>3, <3>2, <3>3, <3>4, <3>5, OperandTree
  <2> QED
    BY <1>4, <2>2, <2>3 DEF on_kw_return
<1>5. CASE on_prefix_operator
  <2> DEFINE op == PrefixOperator[peek]
  <2>1. /\ Top.fn = "expression" /\ mode' = "go" /\ peek \in DOMAIN PrefixOperator
        /\ nodes' = Append(nodes, Node("unary_expr", op, tokens[it].offset, <<>>))
        /\ stack' = <<Expression(prefix), Frame("operand", NewId, statement),
                      [Top EXCEPT !.fn = "tail"]>> \o Tail(stack)
    BY <1>5 DEF on_prefix_operator, At, Create
  <2>2. op \in DOMAIN PrefixSpelling
    BY <2>1, PrefixOps
  <2> HIDE DEF op
  <2>3. nodes'[NewId].kind = "unary_expr" /\ nodes'[NewId].op = op
    BY <2>1, NewNode
  <2>4. Grew(Len(stack) - 1, FALSE)
    <3>1. "unary_expr" \notin {"binary_expr", "call_expr"}
      OBVIOUS
    <3> QED
      BY <2>1, <2>2, <3>1, GrewLeaf, Zenon
  <2>5. IsPrefix(nodes'[NewId]) /\ IsOperator(nodes'[NewId]) /\ nodes'[NewId].kind # "binary_expr"
    BY <2>2, <2>3 DEF IsPrefix, IsOperator
  <2>6. Ceiling(nodes'[NewId]) = prefix /\ prefix \in statement..postfix
    BY <2>5, Ceilings DEF prefix, statement, postfix
  <2>7. "operand" \in {"operand", "return_values"} /\ "operand" # "return_values"
    OBVIOUS
  <2> QED
    BY <2>1, <2>4, <2>5, <2>6, <2>7, OperandTree
<1> QED
  BY <1>1, <1>2, <1>3, <1>4, <1>5 DEF HeadStep

(* What the loop has parsed so far. *)
LEMMA LoopNode ==
  ASSUME IInv, TInv, At("tail")
  PROVE  /\ Top.fn = "tail" /\ mode = "go" /\ Top.node \in 1..Len(nodes) /\ Top.precedence \in statement..postfix
         /\ Ceiling(nodes[Top.node]) \in statement..postfix /\ Pull \in statement..postfix
         /\ Pull <= Ceiling(nodes[Top.node]) /\ Binds(nodes, Top.node, Top.precedence)
         /\ Loose(stack, Len(stack), Top.node) /\ Loose(stack, Len(stack) - 1, Top.node)
         /\ Len(stack) - 1 \in 0..Len(stack)
<1>1. Top.fn = "tail" /\ mode = "go" /\ Top.fn # "run"
  BY DEF At
<1>2. Top \in AnyFrame /\ FrameOK(Top, Len(nodes)) /\ Top.node # 0 /\ Len(nodes) \in Nat
  BY TopFrame, NodesHere DEF IInv, ValueInv
<1>3. Top.node \in 1..Len(nodes) /\ Top.precedence \in statement..postfix
  BY <1>2 DEF AnyFrame, FrameOK
<1>4. Ceiling(nodes[Top.node]) \in statement..postfix
  BY <1>3, CeilingTyped DEF TInv, TreeInv
<1>5. Pull \in statement..postfix
  BY PullTyped DEF Pull
<1>6. Pull <= Ceiling(nodes[Top.node]) /\ Binds(nodes, Top.node, Top.precedence)
  BY DEF TInv, CursorOK
<1>7. /\ Loose(stack, Len(stack), Top.node) /\ Loose(stack, Len(stack) - 1, Top.node)
      /\ Len(stack) - 1 \in 0..Len(stack)
  BY <1>1, CallerFrame
<1> QED
  BY <1>1, <1>3, <1>4, <1>5, <1>6, <1>7

(* The cursor stays: so does the token that may continue an expression. *)
LEMMA PullSame ==
  ASSUME UNCHANGED <<tokens, it>>
  PROVE  Pull' = Pull
BY PullNext DEF Pull

(* What is part of nothing is part of nothing below the top. *)
LEMMA LooseBelow ==
  ASSUME IInv, NEW v, Loose(stack, Len(stack), v)
  PROVE  Loose(stack, Len(stack) - 1, v)
<1>1. \A d \in 1..(Len(stack) - 1) : d \in 1..Len(stack)
  BY DEF IInv, StackInv
<1> QED
  BY <1>1 DEF Loose

(* The loop goes on with what was returned, or ends. *)
LEMMA LoopTree ==
  ASSUME IInv, TInv, GoOnWith \/ EndExpression
  PROVE  TInv'
<1> DEFINE below == FrameAt(stack, Len(stack) - 1)
<1>1. CASE GoOnWith
  <2>1. /\ mode = "return" /\ Top.fn = "tail" /\ HeadIs(value) /\ mode' = "go"
        /\ UNCHANGED <<tokens, it, nodes>>
    BY <1>1 DEF GoOnWith, Receives, Continue
  <2>2. Pull' <= Ceiling(nodes'[value]) /\ Binds(nodes', value, Top.precedence)
    BY <2>1, PullSame DEF TInv, CursorOK, Receives
  <2>3. Loose(stack, Len(stack) - 1, value) /\ value \in Nat
    BY <2>1, LooseBelow, NodesHere DEF TInv, PendingInv, IInv, ValueInv
  <2>4. Grew(Len(stack) - 1, TRUE)
    BY <2>1, GrewSame
  <2> QED
    BY <2>1, <2>2, <2>3, <2>4, HeadTree
<1>2. CASE EndExpression
  <2>1. /\ At("tail") /\ ~(Top.precedence < Pull) /\ stack' = Tail(stack) /\ mode' = "return"
        /\ value' = Top.node /\ UNCHANGED <<tokens, it, nodes>>
    BY <1>2 DEF EndExpression, Return, TailFollows, Pull
  <2>2. /\ Top.fn = "tail" /\ Top.precedence \in statement..postfix /\ Pull \in statement..postfix
        /\ Binds(nodes, Top.node, Top.precedence) /\ Loose(stack, Len(stack) - 1, Top.node)
    BY <2>1, LoopNode
  <2>3. Rebuilt(Len(stack) - 1, <<>>) /\ Top' = below
    BY <2>1, <2>2, Leaves
  <2>4. /\ below.fn \in {"statement", "operand", "arguments", "return_values"}
        /\ below.fn = "operand" => Top.precedence = Ceiling(nodes[below.node])
        /\ below.fn = "return_values" => Top.precedence = statement
    BY <2>2, CallerFrame DEF Link
  <2>5. Grew(Len(stack) - 1, TRUE)
    BY <2>1, GrewSame
  <2>6. Pull' = Pull /\ Pull <= Top.precedence
    BY <2>1, <2>2, PullSame DEF statement, postfix
  <2> HIDE DEF below
  <2>7. CASE below.fn = "operand"
    <3>1. Pull' <= Ceiling(nodes'[Top'.node]) /\ Binds(nodes', value', Ceiling(nodes'[Top'.node]))
      BY <2>1, <2>2, <2>3, <2>4, <2>6, <2>7
    <3>2. CursorOK'
      BY <2>1, <2>3, <2>7, <3>1 DEF CursorOK, At, Receives
    <3> QED
      BY <2>1, <2>2, <2>3, <2>5, <3>2, TreeNone
  <2>8. CASE below.fn = "return_values"
    <3>1. Pull' = statement
      BY <2>2, <2>4, <2>6, <2>8 DEF statement, postfix
    <3>2. CursorOK'
      BY <2>1, <2>3, <2>8, <3>1 DEF CursorOK, At, Receives
    <3> QED
      BY <2>1, <2>2, <2>3, <2>5, <3>2, TreeNone
  <2>9. CASE below.fn \in {"statement", "arguments"}
    <3>1. CursorOK'
      BY <2>1, <2>3, <2>9, CursorQuiet
    <3> QED
      BY <2>1, <2>2, <2>3, <2>5, <3>1, TreeNone
  <2> QED
    BY <2>4, <2>7, <2>8, <2>9
<1> QED
  BY <1>1, <1>2

(* The loop waits for f, which fills in the new node and waits for an expression. *)
LEMMA ContinueTree ==
  ASSUME IInv, TInv, Top.fn = "tail", mode' = "go", Grew(Len(stack), TRUE),
         NEW fn \in {"operand", "arguments"}, NEW precedence \in statement..postfix,
         stack' = <<Expression(precedence), Frame(fn, NewId, statement)>> \o stack,
         fn = "operand" => /\ IsOperator(nodes'[NewId]) /\ precedence = Ceiling(nodes'[NewId])
                           /\ Binds(nodes', NewId, Top.precedence),
         fn = "arguments" => nodes'[NewId].kind = "call_expr"
  PROVE  TInv'
<1> DEFINE f == Frame(fn, NewId, statement)
           g == Expression(precedence)
<1>1. /\ Top = FrameAt(stack, Len(stack)) /\ NewId \in Nat /\ NewId > Len(nodes)
      /\ Len(stack) \in 0..Len(stack)
  BY TopFrame, NodesHere
<1>2. f \in AnyFrame /\ f.fn = fn /\ f.node = NewId
  <2>1. fn \in Fn /\ statement \in statement..postfix
    BY DEF Fn, statement, postfix
  <2>2. NewId \in Nat
    BY <1>1
  <2> QED
    BY <2>1, <2>2, SMT DEF Frame, AnyFrame
<1>3. g \in AnyFrame /\ g.fn = "expression" /\ g.node = 0 /\ g.precedence = precedence
  BY NewFrame DEF Expression, Fn
<1>4. stack' = <<g, f>> \o stack
  OBVIOUS
<1> HIDE DEF f, g
<1>5. Rebuilt(Len(stack), <<f, g>>)
  BY <1>2, <1>3, <1>4, PushedTwo DEF IInv
<1>6. FrameKind(nodes', f) /\ FrameKind(nodes', g)
  BY <1>2, <1>3 DEF FrameKind, SignatureFn
<1>7. Link(nodes', FrameAt(stack, Len(stack)), f) /\ Link(nodes', f, g)
  BY <1>1, <1>2, <1>3 DEF Link, SignatureFn
<1>8. CursorOK' /\ mode' # "return"
  BY <1>3, <1>5, TopOfTwo, CursorQuiet
<1>9. Loose(stack, Len(stack), f.node) /\ Loose(stack, Len(stack), g.node)
  BY <1>1, <1>2, <1>3, LooseNew, LooseZero
<1> QED
  BY <1>2, <1>3, <1>5, <1>6, <1>7, <1>8, <1>9, TreeTwo

(* A binary operator takes the expression so far, if that binds no looser. *)
LEMMA BinaryTree ==
  ASSUME IInv, TInv, on_binary_operator
  PROVE  TInv'
<1> DEFINE op == TailRule(it).op
           tighter == lookup_precedence_for_associativity(op)
           offset == nodes[Top.node].offset
<1>1. /\ At("tail") /\ Top.precedence < Pull /\ mode' = "go"
      /\ tokens[it].kind \notin DOMAIN PostfixOperator \cup {"l_paren"}
      /\ nodes' = Append(nodes, Node("binary_expr", op, offset, <<Top.node>>))
      /\ stack' = <<Expression(tighter), Frame("operand", NewId, statement)>> \o stack
  BY DEF on_binary_operator, TailFollows, Pull, peek, At, Create
<1>2. /\ Top.fn = "tail" /\ Top.node \in 1..Len(nodes) /\ Top.precedence \in statement..postfix
      /\ Pull \in statement..postfix /\ Ceiling(nodes[Top.node]) \in statement..postfix
      /\ Pull <= Ceiling(nodes[Top.node]) /\ Loose(stack, Len(stack), Top.node)
  BY <1>1, LoopNode
<1>3. Pull # statement
  <2>1. Top.precedence < Pull /\ Top.precedence \in statement..postfix
    BY <1>1, <1>2
  <2> HIDE DEF op, tighter, offset
  <2> QED
    BY <2>1 DEF statement, postfix
<1>4. Pull \in assignment..multiplicative /\ LevelOf(op) = Pull /\ tighter = Pull
  BY <1>1, <1>3, TablesAgree DEF Pull
<1>5. Pull \in statement..postfix /\ Ceiling(nodes[Top.node]) >= LevelOf(op)
  BY <1>2, <1>4 DEF statement, postfix
<1> HIDE DEF op, tighter, offset
<1>6. Grew(Len(stack), TRUE)
  <2>1. /\ "binary_expr" \in {"binary_expr", "call_expr", "unary_expr"}
        /\ "binary_expr" # "unary_expr"
    OBVIOUS
  <2>2. LevelOf(op) \in assignment..multiplicative
    BY <1>4
  <2> QED
    BY <1>1, <1>2, <1>5, <2>1, <2>2, GrewOn, Zenon
<1>7. nodes'[NewId].kind = "binary_expr" /\ nodes'[NewId].op = op
  BY <1>1, NewNode
<1>8. Ceiling(nodes'[NewId]) = Pull /\ IsOperator(nodes'[NewId])
  BY <1>4, <1>7, Ceilings DEF IsOperator
<1>9. Binds(nodes', NewId, Top.precedence)
  BY <1>1, <1>2, <1>8 DEF Binds, statement, postfix
<1>10. "operand" \in {"operand", "arguments"} /\ "operand" # "arguments"
  OBVIOUS
<1>11. tighter \in statement..postfix /\ tighter = Ceiling(nodes'[NewId])
  BY <1>4, <1>5, <1>8
<1> QED
  BY <1>1, <1>2, <1>6, <1>8, <1>9, <1>10, <1>11, ContinueTree, Zenon

(* What a postfix operator or a call takes is not open to anything looser. *)
LEMMA PostfixTree ==
  ASSUME IInv, TInv, on_postfix_operator \/ on_infix_left_paren
  PROVE  TInv'
<1> DEFINE offset == nodes[Top.node].offset
<1>1. /\ At("tail") /\ mode' = "go" /\ tokens' = tokens
      /\ tokens[it].kind \in DOMAIN PostfixOperator \cup {"l_paren"}
  BY DEF on_postfix_operator, on_infix_left_paren, peek, At
<1>2. Pull = postfix
  BY <1>1, TablesAgree DEF Pull
<1>3. /\ Top.fn = "tail" /\ Top.node \in 1..Len(nodes)
      /\ Pull <= Ceiling(nodes[Top.node]) /\ Ceiling(nodes[Top.node]) \in statement..postfix
      /\ Loose(stack, Len(stack), Top.node) /\ Loose(stack, Len(stack) - 1, Top.node)
      /\ Len(stack) - 1 \in 0..Len(stack)
  BY <1>1, LoopNode
<1>4. Ceiling(nodes[Top.node]) = postfix
  <2>1. Ceiling(nodes[Top.node]) \in statement..postfix /\ postfix <= Ceiling(nodes[Top.node])
    BY <1>2, <1>3
  <2> QED
    BY <2>1 DEF statement, postfix
<1>5. NewId \in Nat /\ NewId > Len(nodes)
  BY NodesHere
<1>6. Loose(stack, Len(stack) - 1, NewId)
  BY <1>3, <1>5, LooseNew
<1>7. Top.fn \in {"expression", "tail"}
  BY <1>3
<1>8. CASE on_postfix_operator
  <2> DEFINE op == PostfixOperator[peek]
  <2>1. /\ peek \in DOMAIN PostfixOperator /\ HeadIs(NewId)
        /\ nodes' = Append(nodes, Node("unary_expr", op, offset, <<Top.node>>))
    BY <1>8 DEF on_postfix_operator, Create
  <2>2. op \notin DOMAIN PrefixSpelling
    BY <2>1, PrefixOps
  <2> HIDE DEF op, offset
  <2>3. Grew(Len(stack) - 1, TRUE)
    <3>1. /\ "unary_expr" \in {"binary_expr", "call_expr", "unary_expr"}
          /\ "unary_expr" # "binary_expr"
      OBVIOUS
    <3> QED
      BY <1>3, <1>4, <2>1, <2>2, <3>1, GrewOn, Zenon
  <2>4. nodes'[NewId].kind = "unary_expr" /\ nodes'[NewId].op = op
    BY <2>1, NewNode
  <2>5. ~IsPrefix(nodes'[NewId])
    BY <2>2, <2>4 DEF IsPrefix
  <2>6. Pull' <= Ceiling(nodes'[NewId]) /\ Binds(nodes', NewId, Top.precedence)
    BY <1>1, <2>4, <2>5, Opens7
  <2> QED
    BY <1>1, <1>5, <1>6, <1>7, <2>1, <2>3, <2>6, HeadTree
<1>9. CASE on_infix_left_paren
  <2>1. nodes' = Append(nodes, Node("call_expr", "none", offset, <<Top.node>>))
    BY <1>9 DEF on_infix_left_paren, Create
  <2> HIDE DEF offset
  <2>2. \A keep : Loose(stack, keep, Top.node) => Grew(keep, TRUE)
    <3>1. /\ "call_expr" \in {"binary_expr", "call_expr", "unary_expr"}
          /\ "call_expr" # "binary_expr" /\ "call_expr" # "unary_expr"
      OBVIOUS
    <3> QED
      BY <1>3, <1>4, <2>1, <3>1, GrewOn, Zenon
  <2>3. nodes'[NewId].kind = "call_expr"
    BY <2>1, NewNode
  <2>4. CASE HeadIs(NewId)
    <3>1. Pull' <= Ceiling(nodes'[NewId]) /\ Binds(nodes', NewId, Top.precedence)
      BY <1>1, <2>3, Opens7
    <3>2. Grew(Len(stack) - 1, TRUE)
      BY <1>3, <2>2
    <3> QED
      BY <1>1, <1>5, <1>6, <1>7, <2>4, <3>1, <3>2, HeadTree
  <2>5. CASE stack' = <<Expression(statement), Frame("arguments", NewId, statement)>> \o stack
    <3>1. "arguments" \in {"operand", "arguments"} /\ "arguments" # "operand"
      OBVIOUS
    <3>2. statement \in statement..postfix
      BY DEF statement, postfix
    <3>3. Grew(Len(stack), TRUE)
      BY <1>3, <2>2
    <3> QED
      BY <1>1, <1>3, <2>3, <2>5, <3>1, <3>2, <3>3, ContinueTree, Zenon
  <2> QED
    BY <1>9, <2>4, <2>5 DEF on_infix_left_paren
<1> QED
  BY <1>8, <1>9

(* The node a callee returns becomes the last child of the node that the caller fills in. *)
LEMMA TakeGrows ==
  ASSUME IInv, TInv, mode = "return", Top.fn \in {"operand", "return_values", "arguments"},
         nodes' = WithChild(nodes, Top.node, value), NEW keep \in {Len(stack) - 1, Len(stack)}
  PROVE  /\ Grew(keep, TRUE) /\ Len(nodes') = Len(nodes) /\ Top.node \in 1..Len(nodes)
         /\ nodes'[Top.node].kind = nodes[Top.node].kind /\ nodes'[Top.node].op = nodes[Top.node].op
<1>1. Top.node \in 1..Len(nodes) /\ FrameKind(nodes, Top) /\ Top.fn # "run"
  BY TopFrame DEF FillingFn
<1>2. value \in 1..Len(nodes)
  BY NodesHere DEF IInv, ValueInv
<1>3. Loose(stack, Len(stack), value) /\ Loose(stack, Len(stack) - 1, value)
  BY LooseBelow DEF TInv, PendingInv
<1>4. ASSUME IsOperator(nodes[Top.node]) PROVE Binds(nodes, value, Ceiling(nodes[Top.node]))
  <2>1. Top.fn = "operand"
    BY <1>1, <1>4 DEF FrameKind, IsOperator, IsPrefix
  <2> QED
    BY <2>1 DEF TInv, CursorOK, Receives
<1>5. ASSUME nodes[Top.node].kind = "return_expr",
             NEW n \in 1..Len(nodes), NEW c \in 1..Len(nodes[n].children)
      PROVE  nodes[n].children[c] # Top.node
  <2>1. Top.fn = "return_values"
    BY <1>1, <1>5 DEF FrameKind, IsOperator, IsPrefix
  <2>2. Loose(stack, Len(stack), nodes[n].children[c])
    BY DEF TInv, PendingInv
  <2>3. Top = FrameAt(stack, Len(stack)) /\ Len(stack) \in 1..Len(stack)
    BY TopFrame
  <2> QED
    BY <2>1, <2>2, <2>3 DEF Loose
<1>6. Loose(stack, keep, value)
  BY <1>3
<1>7. Grew(keep, TRUE) /\ Len(nodes') = Len(nodes)
  BY <1>1, <1>2, <1>4, <1>5, <1>6, GrewPut
<1> QED
  BY <1>1, <1>7 DEF Grew

(* The operator has its operand: what continues it is what may follow the operand. *)
LEMMA TakeOperandTree ==
  ASSUME IInv, TInv, TakeOperand
  PROVE  TInv'
<1> DEFINE below == FrameAt(stack, Len(stack) - 1)
           t == Top.node
<1>1. /\ mode = "return" /\ Top.fn = "operand" /\ Top.fn # "run" /\ mode' = "return"
      /\ nodes' = WithChild(nodes, t, value) /\ stack' = Tail(stack) /\ value' = t
      /\ UNCHANGED <<tokens, it>>
  BY DEF TakeOperand, Receives, Return
<1>2. Len(stack) - 1 \in {Len(stack) - 1, Len(stack)}
  OBVIOUS
<1>3. /\ Grew(Len(stack) - 1, TRUE) /\ t \in 1..Len(nodes)
      /\ nodes'[t].kind = nodes[t].kind /\ nodes'[t].op = nodes[t].op
  BY <1>1, <1>2, TakeGrows
<1>4. Rebuilt(Len(stack) - 1, <<>>) /\ Top' = below
  BY <1>1, Leaves
<1>5. Link(nodes, below, Top) /\ Loose(stack, Len(stack) - 1, t)
  BY <1>1, CallerFrame
<1>6. below.fn = "tail" /\ Binds(nodes, t, below.precedence)
  BY <1>1, <1>5 DEF Link
<1>7. IsOperator(nodes[t]) /\ Pull <= Ceiling(nodes[t])
  BY <1>1, TopFrame DEF FrameKind, TInv, CursorOK, Receives
<1>8. Ceiling(nodes'[t]) = Ceiling(nodes[t])
  BY <1>3, <1>7, CeilingKept DEF IsOperator, IsPrefix
<1>9. Pull' = Pull
  BY <1>1, PullSame
<1> HIDE DEF below, t
<1>10. Pull' <= Ceiling(nodes'[t]) /\ Binds(nodes', t, below.precedence)
  BY <1>3, <1>6, <1>7, <1>8, <1>9 DEF Binds
<1>11. CursorOK'
  BY <1>1, <1>4, <1>6, <1>10 DEF CursorOK, At, Receives
<1> QED
  BY <1>1, <1>3, <1>4, <1>5, <1>11, TreeNone

(* Another expression is parsed for the frame that waits. *)
LEMMA AnotherTree ==
  ASSUME IInv, TInv, Top.fn \in {"return_values", "arguments"}, Call(Expression(statement)),
         mode' = "go", Grew(Len(stack), TRUE)
  PROVE  TInv'
<1> DEFINE f == Expression(statement)
<1>1. f \in AnyFrame /\ f.fn = "expression" /\ f.node = 0 /\ f.precedence = statement
  <2>1. "expression" \in Fn /\ 0 \in Nat /\ statement \in statement..postfix
    BY DEF Fn, statement, postfix
  <2> QED
    BY <2>1, NewFrame DEF Expression
<1>2. stack' = <<f>> \o stack
  BY DEF Call
<1> HIDE DEF f
<1>3. Rebuilt(Len(stack), <<f>>)
  BY <1>1, <1>2, Pushed DEF IInv
<1>4. Top = FrameAt(stack, Len(stack)) /\ Len(stack) \in 0..Len(stack)
  BY TopFrame
<1>5. FrameKind(nodes', f) /\ Link(nodes', FrameAt(stack, Len(stack)), f)
  BY <1>1, <1>4 DEF FrameKind, Link, SignatureFn
<1>6. Loose(stack, Len(stack), f.node) /\ f.fn # "return_values"
  BY <1>1, <1>4, LooseZero
<1>7. CursorOK'
  BY <1>1, <1>3, TopOfOne, CursorQuiet
<1> QED
  BY <1>3, <1>5, <1>6, <1>7, TreeOne

(* A return gets a value: nothing was made of it while it had none. *)
LEMMA TakeReturnValueTree ==
  ASSUME IInv, TInv, TakeReturnValue
  PROVE  TInv'
<1> DEFINE below == FrameAt(stack, Len(stack) - 1)
           t == Top.node
<1>1. /\ mode = "return" /\ Top.fn = "return_values" /\ Top.fn # "run"
      /\ nodes' = WithChild(nodes, t, value) /\ tokens' = tokens
  BY DEF TakeReturnValue, Receives
<1>2. /\ Grew(Len(stack) - 1, TRUE) /\ Grew(Len(stack), TRUE) /\ t \in 1..Len(nodes')
      /\ nodes'[t].kind = nodes[t].kind
  BY <1>1, TakeGrows
<1>3. CASE Call(Expression(statement)) /\ mode' = "go"
  BY <1>1, <1>2, <1>3, AnotherTree
<1>4. CASE it' = it /\ Return(t)
  <2>1. stack' = Tail(stack) /\ mode' = "return" /\ value' = t
    BY <1>4 DEF Return
  <2>2. Rebuilt(Len(stack) - 1, <<>>) /\ Top' = below
    BY <1>1, <2>1, Leaves
  <2>3. Link(nodes, below, Top) /\ Loose(stack, Len(stack) - 1, t)
    BY <1>1, CallerFrame
  <2>4. below.fn = "tail"
    BY <1>1, <2>3 DEF Link
  <2>5. Pull' = Pull /\ Pull = statement
    BY <1>1, <1>4, PullSame DEF TInv, CursorOK, Receives
  <2>6. nodes'[t].kind = "return_expr"
    BY <1>1, <1>2, TopFrame DEF FrameKind
  <2> HIDE DEF below, t
  <2>7. Ceiling(nodes'[t]) \in statement..postfix
    BY <1>2, CeilingTyped DEF Grew
  <2>8. Pull' <= Ceiling(nodes'[t])
    BY <2>5, <2>7 DEF statement, postfix
  <2>9. Binds(nodes', t, below.precedence)
    BY <2>6 DEF Binds
  <2>10. CursorOK'
    BY <2>1, <2>2, <2>4, <2>8, <2>9 DEF CursorOK, At, Receives
  <2> QED
    BY <1>2, <2>1, <2>2, <2>3, <2>10, TreeNone
<1> QED
  BY <1>3, <1>4 DEF TakeReturnValue, Continue

(* A call gets an argument; anything may follow a call once it is closed. *)
LEMMA TakeArgumentTree ==
  ASSUME IInv, TInv, TakeArgument
  PROVE  TInv'
<1> DEFINE below == FrameAt(stack, Len(stack) - 1)
           t == Top.node
           arena == WithChild(nodes, t, value)
<1>1. /\ mode = "return" /\ Top.fn = "arguments" /\ Top.fn # "run"
      /\ nodes' = arena /\ tokens' = tokens
  BY DEF TakeArgument, Receives, FailAt
<1>2. /\ Grew(Len(stack) - 1, TRUE) /\ Grew(Len(stack), TRUE)
      /\ nodes'[t].kind = nodes[t].kind
  BY <1>1, TakeGrows
<1>3. CASE Call(Expression(statement)) /\ mode' = "go"
  BY <1>1, <1>2, <1>3, AnotherTree
<1>4. CASE Return(t)
  <2>1. stack' = Tail(stack) /\ mode' = "return" /\ value' = t
    BY <1>4 DEF Return
  <2>2. Rebuilt(Len(stack) - 1, <<>>) /\ Top' = below
    BY <1>1, <2>1, Leaves
  <2>3. Link(nodes, below, Top) /\ Loose(stack, Len(stack) - 1, t)
    BY <1>1, CallerFrame
  <2>4. below.fn = "tail"
    BY <1>1, <2>3 DEF Link
  <2>5. nodes'[t].kind = "call_expr"
    BY <1>1, <1>2, TopFrame DEF FrameKind
  <2> HIDE DEF below, t, arena
  <2>6. Pull' <= Ceiling(nodes'[t]) /\ Binds(nodes', t, below.precedence)
    BY <1>1, <2>5, Opens7
  <2>7. CursorOK'
    BY <2>1, <2>2, <2>4, <2>6 DEF CursorOK, At, Receives
  <2> QED
    BY <1>2, <2>1, <2>2, <2>3, <2>7, TreeNone
<1>5. CASE FailAt("expect_closing_paren_in_call", it, arena)
  <2> HIDE DEF arena
  <2> QED
    BY <1>2, <1>5, FailTree
<1> QED
  BY <1>3, <1>4, <1>5 DEF TakeArgument, Continue

(* The loop of parse_expression and what returns to it. *)
LEMMA TailStepTree ==
  ASSUME IInv, TInv, TailStep
  PROVE  TInv'
BY LoopTree, BinaryTree, PostfixTree, TakeOperandTree, TakeReturnValueTree, TakeArgumentTree
   DEF TailStep

-----------------------------------------------------------------------------
(* The theorems *)

(* There is no tree yet, and only run on the stack. *)
LEMMA InitTree ==
  ASSUME Init
  PROVE  TInv
<1>1. /\ stack = <<Frame("run", 0, statement)>> /\ Len(stack) = 1 /\ nodes = <<>> /\ Len(nodes) = 0
      /\ mode = "go"
  BY DEF Init
<1>2. \A d \in 1..Len(stack) : FrameAt(stack, d).fn = "run" /\ ~(d > 1)
  BY <1>1 DEF FrameAt, Frame
<1>3. Top.fn = "run"
  BY <1>1 DEF Top, Frame
<1>4. TreeInv
  BY <1>1 DEF TreeInv, TreeOK
<1>5. FramesInv
  BY <1>2 DEF FramesInv, FrameKind, SignatureFn
<1>6. PendingInv
  BY <1>1, <1>2 DEF PendingInv
<1>7. CursorOK
  BY <1>1, <1>3 DEF CursorOK, At, Receives
<1> QED
  BY <1>4, <1>5, <1>6, <1>7 DEF TInv

(* Nothing happens. *)
LEMMA StutterTree ==
  ASSUME TInv, UNCHANGED vars
  PROVE  TInv'
<1>1. UNCHANGED <<tokens, it, stack, mode, value, nodes>>
  BY DEF vars
<1>2. Pull' = Pull
  BY <1>1, PullSame
<1>3. Top' = Top
  BY <1>1 DEF Top
<1>4. TreeInv' /\ FramesInv' /\ PendingInv'
  BY <1>1 DEF TInv, TreeInv, FramesInv, PendingInv
<1>5. CursorOK'
  BY <1>1, <1>2, <1>3 DEF TInv, CursorOK, At, Receives
<1> QED
  BY <1>4, <1>5 DEF TInv

(* Every step keeps the invariant of the trees. *)
LEMMA NextTree ==
  ASSUME IInv, TInv, Next
  PROVE  TInv'
BY DefinitionTree, StatementTree, RecoveryTree, HeadStepTree, TailStepTree, StutterTree
   DEF Next, Returned

(***************************************************************************)
(* The invariant of the trees is kept by every step, together with the one *)
(* of the stack and the arena.                                             *)
(***************************************************************************)
THEOREM TreeInductive == Spec => []TInv
<1>1. Init => TInv
  BY InitTree
<1>2. IInv /\ TInv /\ [Next]_vars => TInv'
  BY NextTree, StutterTree
<1>3. Spec => []IInv
  BY Inductive
<1> QED
  BY <1>1, <1>2, <1>3, PTL DEF Spec

(* Ceilings that are respected are precedences that are respected. *)
LEMMA InvGroups ==
  ASSUME IInv, TInv
  PROVE  PrecedenceRespected
<1>1. \A n : Level(n) = LevelOf(nodes[n].op) /\ (PrefixNode(n) <=> IsPrefix(nodes[n]))
  BY DEF Level, LevelOf, PrefixNode, IsPrefix
<1> SUFFICES ASSUME NEW n \in 1..Len(nodes)
             PROVE  LET child == nodes[n].children IN
                    /\ nodes[n].kind = "binary_expr" =>
                         /\ ~ReturnsValues(child[1])
                         /\ BinaryNode(child[1]) => Level(child[1]) >= Level(n)
                         /\ Len(child) = 2 /\ BinaryNode(child[2]) => Level(child[2]) > Level(n)
                    /\ PrefixNode(n) /\ Len(child) = 1 => ~BinaryNode(child[1])
                    /\ nodes[n].kind = "unary_expr" /\ ~PrefixNode(n) => Tight(child[1])
                    /\ nodes[n].kind = "call_expr" => Tight(child[1])
  BY DEF PrecedenceRespected
<1> DEFINE child == nodes[n].children
<1>2. TreeOK(nodes) /\ NodeOK(nodes, n) /\ ArenaOK(nodes)
  BY NodesHere DEF TInv, TreeInv, TreeOK
<1>3. Len(child) \in Nat /\ \A c \in 1..Len(child) : child[c] \in 1..Len(nodes)
  BY <1>2, NodeTyped
<1>4. Ceiling(nodes[n]) \in statement..postfix
  BY <1>2, CeilingTyped
<1>5. ASSUME Continues(nodes[n])
      PROVE  /\ child[1] \in 1..Len(nodes) /\ Ceiling(nodes[child[1]]) >= Ceiling(nodes[n])
             /\ Ceiling(nodes[child[1]]) \in statement..postfix
  <2>1. Len(child) > 0 /\ Ceiling(nodes[child[1]]) >= Ceiling(nodes[n])
    BY <1>2, <1>5 DEF NodeOK
  <2>2. child[1] \in 1..Len(nodes)
    BY <1>3, <2>1
  <2> QED
    BY <1>2, <2>1, <2>2, CeilingTyped
<1>6. ASSUME NEW c \in FirstOperand(nodes[n])..Len(child), IsOperator(nodes[n])
      PROVE  Binds(nodes, child[c], Ceiling(nodes[n]))
  BY <1>2, <1>6 DEF NodeOK
<1> HIDE DEF child
<1>7. ASSUME nodes[n].kind = "binary_expr"
      PROVE  /\ ~ReturnsValues(child[1])
             /\ BinaryNode(child[1]) => Level(child[1]) >= Level(n)
             /\ Len(child) = 2 /\ BinaryNode(child[2]) => Level(child[2]) > Level(n)
  <2>1. Continues(nodes[n]) /\ IsOperator(nodes[n]) /\ ~IsPrefix(nodes[n])
    BY <1>7 DEF Continues, IsOperator, IsPrefix
  <2>2. Ceiling(nodes[n]) = Level(n) /\ Ceiling(nodes[n]) \in assignment..multiplicative
    BY <1>1, <1>2, <1>7, Ceilings, CeilingTyped
  <2>3. ~ReturnsValues(child[1])
    <3>1. ReturnsValues(child[1]) => Ceiling(nodes[child[1]]) = statement
      BY Ceilings DEF ReturnsValues
    <3>2. Ceiling(nodes[child[1]]) >= Ceiling(nodes[n])
      BY <1>5, <2>1
    <3> QED
      BY <2>2, <3>1, <3>2 DEF statement, assignment, multiplicative
  <2>4. BinaryNode(child[1]) => Level(child[1]) >= Level(n)
    <3>1. BinaryNode(child[1]) => Ceiling(nodes[child[1]]) = Level(child[1])
      BY <1>1, Ceilings DEF BinaryNode
    <3> QED
      BY <1>5, <2>1, <2>2, <3>1
  <2>5. ASSUME Len(child) = 2, BinaryNode(child[2]) PROVE Level(child[2]) > Level(n)
    <3>1. 2 \in FirstOperand(nodes[n])..Len(child)
      BY <2>1, <2>5 DEF FirstOperand
    <3>2. Binds(nodes, child[2], Ceiling(nodes[n]))
      BY <1>6, <2>1, <3>1
    <3>3. Ceiling(nodes[child[2]]) = Level(child[2])
      BY <1>1, <2>5, Ceilings DEF BinaryNode
    <3> QED
      BY <2>2, <2>5, <3>2, <3>3 DEF Binds, BinaryNode
  <2> QED
    BY <2>3, <2>4, <2>5
<1>8. ASSUME PrefixNode(n), Len(child) = 1 PROVE ~BinaryNode(child[1])
  <2>1. IsPrefix(nodes[n]) /\ IsOperator(nodes[n])
    BY <1>1, <1>8 DEF IsOperator
  <2>2. 1 \in FirstOperand(nodes[n])..Len(child) /\ 1 \in 1..Len(child)
    BY <1>8, <2>1 DEF FirstOperand
  <2>3. Binds(nodes, child[1], Ceiling(nodes[n])) /\ child[1] \in 1..Len(nodes)
    BY <1>3, <1>6, <2>1, <2>2
  <2>4. Ceiling(nodes[n]) = prefix
    BY <2>1, Ceilings
  <2>5. BinaryNode(child[1]) => Ceiling(nodes[child[1]]) \in assignment..multiplicative
    BY <1>2, <2>3, CeilingTyped DEF BinaryNode
  <2> QED
    BY <2>3, <2>4, <2>5 DEF Binds, BinaryNode, assignment, multiplicative, prefix
<1>9. ASSUME \/ nodes[n].kind = "unary_expr" /\ ~PrefixNode(n)
             \/ nodes[n].kind = "call_expr"
      PROVE  Tight(child[1])
  <2>1. Continues(nodes[n]) /\ Ceiling(nodes[n]) = postfix
    BY <1>1, <1>9, Ceilings DEF Continues, IsPrefix
  <2>2. child[1] \in 1..Len(nodes) /\ Ceiling(nodes[child[1]]) >= postfix
    BY <1>5, <2>1
  <2>3. BinaryNode(child[1]) => Ceiling(nodes[child[1]]) \in assignment..multiplicative
    BY <1>2, <2>2, CeilingTyped DEF BinaryNode
  <2>4. PrefixNode(child[1]) => Ceiling(nodes[child[1]]) = prefix
    BY <1>1, Ceilings
  <2>5. ReturnsValues(child[1]) => Ceiling(nodes[child[1]]) = statement
    BY Ceilings DEF ReturnsValues
  <2> QED
    BY <2>2, <2>3, <2>4, <2>5 DEF Tight, assignment, multiplicative, statement, prefix, postfix
<1> QED
  BY <1>7, <1>8, <1>9 DEF child

(***************************************************************************)
(* Whatever parse_expression builds groups by precedence, operators of one *)
(* level to the left, although the code decides one token at a time and    *)
(* from two tables that are written down separately.                       *)
(***************************************************************************)
THEOREM TreesGroupByPrecedence == Spec => []PrecedenceRespected
<1>1. IInv /\ TInv => PrecedenceRespected
  BY InvGroups
<1>2. Spec => []IInv
  BY Inductive
<1>3. Spec => []TInv
  BY TreeInductive
<1> QED
  BY <1>1, <1>2, <1>3, PTL

-----------------------------------------------------------------------------
(* Shifts *)

ShiftNodes(arena) == {n \in 1..Len(arena) : arena[n].op = "shr"}

(* The adjacent pairs of > of which both are before index b. *)
Pairs(b) == {p \in 1..(b - 2) : Adjacent(p)}

(***************************************************************************)
(* As long as nothing was reported, there is a shr node for each adjacent  *)
(* pair that has been passed, and the token before the cursor is a > only  *)
(* while the right operand of the operator it belongs to is asked for.     *)
(***************************************************************************)
ShiftInv ==
  reports = <<>> =>
    /\ mode # "throw"
    /\ mode = "done" => it = Len(tokens)
    /\ Cardinality(ShiftNodes(nodes)) = Cardinality(Pairs(it))
    /\ it > 1 /\ tokens[it - 1].kind = "r_angle" => At("expression")

(* A node of another operator adds no shift. *)
LEMMA ShiftsCreated ==
  ASSUME NEW arena \in Seq(AnyNode), NEW node, node.op # "shr"
  PROVE  ShiftNodes(Append(arena, node)) = ShiftNodes(arena)
<1>1. /\ Len(arena) \in Nat /\ Len(Append(arena, node)) = Len(arena) + 1
      /\ Append(arena, node)[Len(arena) + 1] = node
      /\ \A n \in 1..Len(arena) : Append(arena, node)[n] = arena[n]
  OBVIOUS
<1> DEFINE grown == Append(arena, node)
<1> HIDE DEF grown
<1>2. /\ Len(arena) \in Nat /\ Len(grown) = Len(arena) + 1
      /\ grown[Len(arena) + 1] = node /\ \A n \in 1..Len(arena) : grown[n] = arena[n]
  BY <1>1 DEF grown
<1>3. ASSUME NEW n PROVE n \in ShiftNodes(grown) <=> n \in ShiftNodes(arena)
  <2>1. n \in 1..Len(grown) <=> n \in 1..Len(arena) \/ n = Len(arena) + 1
    BY <1>2
  <2> QED
    BY <1>2, <2>1 DEF ShiftNodes
<1>4. ShiftNodes(grown) = ShiftNodes(arena)
  BY <1>3
<1> QED
  BY <1>4 DEF grown

(* Nor does a child. *)
LEMMA ShiftsPut ==
  ASSUME NEW arena, ArenaOK(arena), NEW id \in 1..Len(arena), NEW child \in 1..Len(arena)
  PROVE  ShiftNodes(WithChild(arena, id, child)) = ShiftNodes(arena)
<1> DEFINE grown == WithChild(arena, id, child)
<1>1. /\ Len(grown) = Len(arena) /\ grown[id].op = arena[id].op
      /\ \A n \in 1..Len(arena) : n # id => grown[n] = arena[n]
  BY ChildPut
<1> HIDE DEF grown
<1>2. \A n \in 1..Len(arena) : grown[n].op = arena[n].op
  BY <1>1
<1>3. ShiftNodes(grown) = ShiftNodes(arena)
  BY <1>1, <1>2 DEF ShiftNodes
<1> QED
  BY <1>3 DEF grown

(* Nor do the nodes of a parameter or output. *)
LEMMA ShiftsTyped ==
  ASSUME IInv, Top.fn \in SignatureFn, NEW kind \in NodeKind,
         nodes' = WithChild(WithType(kind), Top.node, NewId)
  PROVE  ShiftNodes(nodes)' = ShiftNodes(nodes)
<1>1. Top.node \in 1..Len(nodes) /\ Len(nodes) \in Nat /\ NewId = Len(nodes) + 1
  BY Here DEF FrameOK, SignatureFn, FillingFn, AnyFrame, NewId
<1>2. ArenaOK(WithType(kind)) /\ Len(WithType(kind)) = Len(nodes) + 2
  BY WithNodes
<1>3. Top.node \in 1..Len(WithType(kind)) /\ NewId \in 1..Len(WithType(kind))
  BY <1>1, <1>2
<1>4. ShiftNodes(nodes)' = ShiftNodes(WithType(kind))
  <2>1. ShiftNodes(WithChild(WithType(kind), Top.node, NewId)) = ShiftNodes(WithType(kind))
    BY <1>2, <1>3, ShiftsPut
  <2> QED
    BY <2>1 DEF ShiftNodes
<1>5. ShiftNodes(WithType(kind)) = ShiftNodes(nodes)
  <2>1. PICK typed, type : /\ typed = Node(kind, "none", tokens[it].offset, <<NewId + 1>>)
                           /\ type = Node("ident_expr", "none", tokens[it].offset, <<>>)
    OBVIOUS
  <2>2. typed.op = "none" /\ type.op = "none" /\ WithType(kind) = nodes \o <<typed, type>>
    BY <2>1 DEF Node, WithType
  <2>3. nodes \in Seq(AnyNode)
    BY DEF IInv, NodesInv, ArenaOK
  <2>4. PICK grown : grown = nodes \o <<typed, type>>
    OBVIOUS
  <2>5. /\ Len(grown) = Len(nodes) + 2 /\ \A n \in 1..Len(nodes) : grown[n] = nodes[n]
        /\ grown[Len(nodes) + 1] = typed /\ grown[Len(nodes) + 2] = type
    BY <2>3, <2>4
  <2>6. ASSUME NEW n PROVE n \in ShiftNodes(grown) <=> n \in ShiftNodes(nodes)
    <3>1. n \in 1..Len(grown) <=> n \in 1..Len(nodes) \/ n = Len(nodes) + 1 \/ n = Len(nodes) + 2
      BY <1>1, <2>5
    <3> QED
      BY <2>2, <2>5, <3>1 DEF ShiftNodes
  <2>7. ShiftNodes(grown) = ShiftNodes(nodes)
    BY <2>6
  <2> QED
    BY <2>2, <2>4, <2>7
<1> QED
  BY <1>4, <1>5

(* A step that passes no > and creates no shift, and passes the head of an expression if it is at one. *)
Quiet ==
  /\ tokens' = tokens /\ reports' = reports /\ mode' \notin {"throw", "done"}
  /\ it' \in {it, it + 1, it + 2}
  /\ \A p \in it..(it' - 1) : tokens[p].kind # "r_angle"
  /\ At("expression") => it' # it
  /\ ShiftNodes(nodes)' = ShiftNodes(nodes)

(* Pairs that end at a token that is no > are none. *)
LEMMA PairsQuiet ==
  ASSUME CursorInv, NEW a \in Nat, NEW b \in Nat, 1 <= a, a <= b,
         \A p \in a..(b - 1) : tokens[p].kind # "r_angle"
  PROVE  Pairs(b) = Pairs(a)
<1>1. ASSUME NEW p \in 1..(b - 2), Adjacent(p) PROVE p \in 1..(a - 2)
  <2>1. tokens[p + 1].kind = "r_angle" /\ p \in Nat /\ p + 1 \in 1..(b - 1)
    BY <1>1 DEF Adjacent
  <2>2. p + 1 \notin a..(b - 1)
    BY <2>1
  <2> QED
    BY <2>1, <2>2
<1>2. \A p \in 1..(a - 2) : p \in 1..(b - 2)
  OBVIOUS
<1> QED
  BY <1>1, <1>2 DEF Pairs

(* Such a step keeps the count. *)
LEMMA QuietKeeps ==
  ASSUME IInv, ShiftInv, Quiet
  PROVE  ShiftInv'
<1> SUFFICES ASSUME reports' = <<>> PROVE ShiftInv'
  BY DEF ShiftInv
<1>1. reports = <<>> /\ tokens' = tokens /\ mode' # "throw" /\ mode' # "done"
  BY DEF Quiet
<1>2. it \in Nat /\ it >= 1 /\ it' \in Nat /\ it <= it' /\ CursorInv
  BY DEF Quiet, IInv, CursorInv
<1>3. Cardinality(ShiftNodes(nodes)) = Cardinality(Pairs(it))
  BY <1>1 DEF ShiftInv
<1>4. Cardinality(ShiftNodes(nodes))' = Cardinality(Pairs(it))'
  <2>1. PICK b : b = it'
    OBVIOUS
  <2>2. Pairs(b) = Pairs(it)
    BY <1>2, <2>1, PairsQuiet DEF Quiet
  <2>3. Pairs(it)' = Pairs(b)
    BY <1>1, <2>1 DEF Pairs, Adjacent
  <2>4. ShiftNodes(nodes)' = ShiftNodes(nodes)
    BY DEF Quiet
  <2> QED
    BY <1>3, <2>2, <2>3, <2>4
<1>5. ~(it' > 1 /\ tokens[it' - 1].kind = "r_angle")
  <2>1. CASE it' = it
    BY <1>1, <2>1 DEF Quiet, ShiftInv
  <2>2. CASE it' # it
    <3>1. PICK b : b = it'
      OBVIOUS
    <3>2. b \in Nat /\ it < b /\ it \in Nat
      BY <1>2, <2>2, <3>1
    <3>3. b - 1 \in it..(b - 1)
      BY <3>2
    <3>4. tokens[b - 1].kind # "r_angle"
      BY <3>1, <3>3 DEF Quiet
    <3> QED
      BY <3>1, <3>4
  <2> QED
    BY <2>1, <2>2
<1> QED
  BY <1>1, <1>4, <1>5 DEF ShiftInv

(* What ends a definition's or statement's part is neither a > nor the end of the list. *)
Solid(p) == tokens[p].kind \notin {"r_angle", "end_of_file"}

(* The steps that are quiet: they stay, or pass one or two tokens of other kinds. *)
LEMMA QuietStep ==
  ASSUME IInv, ShiftInv, tokens' = tokens, reports' = reports,
         mode' = mode \/ mode' \in {"go", "return"}, mode \in {"go", "return"},
         ShiftNodes(nodes)' = ShiftNodes(nodes),
         \/ it' = it /\ ~At("expression")
         \/ it' = After(it) /\ Solid(it)
         \/ it' = After(After(it)) /\ Solid(it) /\ Solid(After(it))
  PROVE  ShiftInv'
<1>1. /\ it \in 1..Len(tokens) /\ it \in Nat /\ Len(tokens) \in Nat /\ CursorInv
      /\ peek # "end_of_file" => After(it) = it + 1 /\ it < Len(tokens)
  BY Here DEF IInv
<1>2. mode' \notin {"throw", "done"}
  OBVIOUS
<1>3. CASE it' = it /\ ~At("expression")
  <2>1. PICK b : b = it'
    OBVIOUS
  <2>2. \A p \in it..(b - 1) : FALSE
    BY <1>1, <1>3, <2>1
  <2>3. Quiet
    BY <1>2, <1>3, <2>1, <2>2 DEF Quiet
  <2> QED
    BY <2>3, QuietKeeps
<1>4. CASE it' = After(it) /\ Solid(it)
  <2>1. it' = it + 1 /\ it' # it
    BY <1>1, <1>4 DEF Solid, peek
  <2>2. PICK b : b = it'
    OBVIOUS
  <2>3. \A p \in it..(b - 1) : p = it
    BY <1>1, <2>1, <2>2
  <2>4. \A p \in it..(it' - 1) : tokens[p].kind # "r_angle"
    BY <1>4, <2>2, <2>3 DEF Solid
  <2>5. Quiet
    BY <1>2, <2>1, <2>4 DEF Quiet
  <2> QED
    BY <2>5, QuietKeeps
<1>5. CASE it' = After(After(it)) /\ Solid(it) /\ Solid(After(it))
  <2>1. After(it) = it + 1 /\ it + 1 \in 1..Len(tokens) /\ Solid(it + 1)
    BY <1>1, <1>5 DEF Solid, peek
  <2>2. After(it + 1) = it + 2
    BY <1>1, <2>1, Moves DEF Solid
  <2>3. it' = it + 2 /\ it' # it
    BY <1>1, <1>5, <2>1, <2>2
  <2>4. PICK b : b = it'
    OBVIOUS
  <2>5. \A p \in it..(b - 1) : p = it \/ p = it + 1
    BY <1>1, <2>3, <2>4
  <2>6. \A p \in it..(it' - 1) : tokens[p].kind # "r_angle"
    BY <1>5, <2>1, <2>4, <2>5 DEF Solid
  <2>7. Quiet
    BY <1>2, <2>3, <2>6 DEF Quiet
  <2> QED
    BY <2>7, QuietKeeps
<1> QED
  BY <1>3, <1>4, <1>5

(* A failure is reported, so that nothing is claimed any more. *)
LEMMA FailShift ==
  ASSUME IInv, NEW message, NEW p, NEW arena, FailAt(message, p, arena)
  PROVE  ShiftInv'
<1>1. reports' = Append(reports, [message |-> message, at |-> p])
  BY DEF FailAt, ReportAt
<1>2. reports \in Seq([message : Message, at : Nat])
  BY DEF IInv, OrderInv
<1>3. Len(reports') = Len(reports) + 1 /\ Len(reports) \in Nat
  BY <1>1, <1>2
<1>4. reports' # <<>>
  BY <1>3
<1> QED
  BY <1>4 DEF ShiftInv

(* The nodes of a step that creates none, creates one, or puts a child. *)
LEMMA ShiftsSame ==
  ASSUME nodes' = nodes
  PROVE  ShiftNodes(nodes)' = ShiftNodes(nodes)
BY DEF ShiftNodes

(* A new node that is no shift leaves the shifts alone. *)
LEMMA ShiftsNew ==
  ASSUME IInv, NEW kind, NEW op, op # "shr", NEW offset, NEW children,
         Create(Node(kind, op, offset, children))
  PROVE  ShiftNodes(nodes)' = ShiftNodes(nodes)
<1>1. nodes \in Seq(AnyNode)
  BY DEF IInv, NodesInv, ArenaOK
<1>2. PICK node : node = Node(kind, op, offset, children)
  OBVIOUS
<1>3. node.op # "shr" /\ nodes' = Append(nodes, node)
  BY <1>2 DEF Node, Create
<1>4. ShiftNodes(Append(nodes, node)) = ShiftNodes(nodes)
  BY <1>1, <1>3, ShiftsCreated
<1> QED
  BY <1>3, <1>4 DEF ShiftNodes

(* And so does a new child. *)
LEMMA ShiftsTaken ==
  ASSUME IInv, Top.fn \in FillingFn, mode = "return", nodes' = WithChild(nodes, Top.node, value)
  PROVE  ShiftNodes(nodes)' = ShiftNodes(nodes)
<1>1. Top.node \in 1..Len(nodes) /\ value \in 1..Len(nodes) /\ ArenaOK(nodes)
  BY NodeHere, Here DEF IInv, ValueInv, NodesInv
<1>2. ShiftNodes(WithChild(nodes, Top.node, value)) = ShiftNodes(nodes)
  BY <1>1, ShiftsPut
<1> QED
  BY <1>2 DEF ShiftNodes

(* expect, for a kind that is no > and not the end. *)
LEMMA ExpectShift ==
  ASSUME IInv, ShiftInv, mode = "go", NEW kind, kind \notin {"r_angle", "end_of_file"},
         NEW message, NEW fn, Expect(kind, message, fn)
  PROVE  ShiftInv'
<1>1. CASE /\ peek = kind /\ Advance
           /\ UNCHANGED <<tokens, mode, value, nodes, definitions, reports>>
  <2>1. Solid(it) /\ it' = After(it)
    BY <1>1 DEF Solid, peek, Advance
  <2>2. ShiftNodes(nodes)' = ShiftNodes(nodes)
    BY <1>1, ShiftsSame
  <2> QED
    BY <1>1, <2>1, <2>2, QuietStep
<1>2. CASE Fail(message)
  BY <1>2, FailShift DEF Fail
<1> QED
  BY <1>1, <1>2 DEF Expect

(* The steps of a definition that read no signature. *)
LEMMA RunShift ==
  ASSUME IInv, ShiftInv, FinishRun \/ parse_definition \/ PutDefinition
  PROVE  ShiftInv'
<1>1. CASE FinishRun
  <2>1. /\ it' = it /\ tokens' = tokens /\ nodes' = nodes /\ reports' = reports /\ mode = "go"
        /\ peek = "end_of_file" /\ mode' = "done" /\ Top.fn = "run"
    BY <1>1 DEF FinishRun, At
  <2>2. it = Len(tokens) /\ ~At("expression")
    BY <2>1, Here DEF At
  <2>3. (Pairs(it))' = Pairs(it) /\ ShiftNodes(nodes)' = ShiftNodes(nodes)
    BY <2>1, ShiftsSame DEF Pairs, Adjacent
  <2> QED
    BY <2>1, <2>2, <2>3 DEF ShiftInv
<1>2. CASE parse_definition
  <2> DEFINE named == IF peek \in DOMAIN Modifier THEN After(it) ELSE it
             access == IF peek \in DOMAIN Modifier THEN Modifier[peek] ELSE "none"
  <2>1. CASE /\ tokens[named].kind = "identifier"
             /\ Create(Node("function_def", access, tokens[it].offset, <<>>))
             /\ it' = After(named)
             /\ UNCHANGED <<tokens, mode, value, definitions, reports>>
    <3>1. access # "shr"
      BY DEF Modifier
    <3>2. ShiftNodes(nodes)' = ShiftNodes(nodes)
      <4> HIDE DEF access, named
      <4> QED
        BY <2>1, <3>1, ShiftsNew
    <3>3. mode = "go"
      BY <1>2 DEF parse_definition, At
    <3>4. CASE peek \in DOMAIN Modifier
      <4>1. /\ Solid(it) /\ Solid(After(it)) /\ it' = After(After(it))
        BY <2>1, <3>4 DEF Modifier, Solid, peek
      <4> QED
        BY <2>1, <3>2, <3>3, <4>1, QuietStep
    <3>5. CASE peek \notin DOMAIN Modifier
      <4>1. Solid(it) /\ it' = After(it)
        BY <2>1, <3>5 DEF Solid
      <4> QED
        BY <2>1, <3>2, <3>3, <4>1, QuietStep
    <3> QED
      BY <3>4, <3>5
  <2>2. CASE FailAt("expect_function_struct_or_enum", named, nodes)
    BY <2>2, FailShift
  <2> QED
    BY <1>2, <2>1, <2>2 DEF parse_definition
<1>3. CASE PutDefinition
  <2>1. /\ it' = it /\ tokens' = tokens /\ nodes' = nodes /\ reports' = reports
        /\ mode = "return" /\ mode' = "go" /\ ~At("expression")
    BY <1>3 DEF PutDefinition, Receives, Continue, At
  <2>2. ShiftNodes(nodes)' = ShiftNodes(nodes)
    BY <2>1, ShiftsSame
  <2> QED
    BY <2>1, <2>2, QuietStep
<1> QED
  BY <1>1, <1>2, <1>3

(* The steps of a signature pass names, parentheses, commas and an arrow. *)
LEMMA SignatureShift ==
  ASSUME IInv, ShiftInv,
         \/ ExpectParen \/ NoParameters \/ SomeParameters \/ parse_function_definition_parameter
         \/ MoreParameters \/ parse_function_definition_outputs
         \/ parse_function_definition_output \/ MoreOutputs
  PROVE  ShiftInv'
<1>1. CASE ExpectParen
  BY <1>1, ExpectShift DEF ExpectParen, At
<1>2. CASE NoParameters
  <2>1. /\ it' = After(it) /\ Solid(it) /\ tokens' = tokens /\ nodes' = nodes
        /\ reports' = reports /\ mode = "go" /\ mode' = mode
    BY <1>2 DEF NoParameters, At, Advance, Solid, peek
  <2> QED
    BY <2>1, ShiftsSame, QuietStep
<1>3. CASE SomeParameters
  <2>1. /\ it' = it /\ ~At("expression") /\ tokens' = tokens /\ nodes' = nodes
        /\ reports' = reports /\ mode = "go" /\ mode' = mode
    BY <1>3 DEF SomeParameters, At
  <2> QED
    BY <2>1, ShiftsSame, QuietStep
<1>4. CASE parse_function_definition_parameter
  <2>1. CASE \E message, p, arena : FailAt(message, p, arena)
    BY <2>1, FailShift
  <2>2. CASE /\ peek = "identifier" /\ tokens[After(it)].kind = "identifier"
             /\ nodes' = WithChild(WithType("function_parameter"), Top.node, NewId)
             /\ it' = After(After(it))
             /\ UNCHANGED <<tokens, mode, value, definitions, reports>>
    <3>1. Top.fn \in SignatureFn /\ mode = "go" /\ "function_parameter" \in NodeKind
      BY <1>4 DEF parse_function_definition_parameter, At, SignatureFn, NodeKind
    <3>2. ShiftNodes(nodes)' = ShiftNodes(nodes)
      BY <2>2, <3>1, ShiftsTyped
    <3>3. Solid(it) /\ Solid(After(it))
      BY <2>2 DEF Solid, peek
    <3> QED
      BY <2>2, <3>1, <3>2, <3>3, QuietStep
  <2> QED
    BY <1>4, <2>1, <2>2 DEF parse_function_definition_parameter
<1>5. CASE MoreParameters
  <2>1. mode = "go"
    BY <1>5 DEF MoreParameters, At
  <2>2. CASE peek = "comma" /\ Advance /\ UNCHANGED <<tokens, mode, value, nodes, definitions, reports>>
    <3>1. Solid(it) /\ it' = After(it)
      BY <2>2 DEF Solid, peek, Advance
    <3> QED
      BY <2>1, <2>2, <3>1, ShiftsSame, QuietStep
  <2>3. CASE Expect("r_paren", "expect_paren_after_parameters", "outputs")
    BY <2>1, <2>3, ExpectShift
  <2> QED
    BY <1>5, <2>2, <2>3 DEF MoreParameters
<1>6. CASE parse_function_definition_outputs \/ MoreOutputs
  <2>1. /\ ~At("expression") /\ tokens' = tokens /\ nodes' = nodes
        /\ reports' = reports /\ mode = "go" /\ mode' = mode
        /\ \/ it' = After(it) /\ peek \in {"thin_arrow", "comma"}
           \/ it' = it
    BY <1>6 DEF parse_function_definition_outputs, MoreOutputs, At, Advance
  <2>2. peek \in {"thin_arrow", "comma"} => Solid(it)
    BY DEF Solid, peek
  <2> QED
    BY <2>1, <2>2, ShiftsSame, QuietStep
<1>7. CASE parse_function_definition_output
  <2>1. CASE \E message, p, arena : FailAt(message, p, arena)
    BY <2>1, FailShift
  <2>2. CASE /\ peek = "identifier" /\ Advance
             /\ nodes' = WithChild(WithType("function_output"), Top.node, NewId)
             /\ UNCHANGED <<tokens, mode, value, definitions, reports>>
    <3>1. Top.fn \in SignatureFn /\ mode = "go" /\ "function_output" \in NodeKind
      BY <1>7 DEF parse_function_definition_output, At, SignatureFn, NodeKind
    <3>2. ShiftNodes(nodes)' = ShiftNodes(nodes)
      BY <2>2, <3>1, ShiftsTyped
    <3>3. Solid(it) /\ it' = After(it)
      BY <2>2 DEF Solid, peek, Advance
    <3> QED
      BY <2>2, <3>1, <3>2, <3>3, QuietStep
  <2> QED
    BY <1>7, <2>1, <2>2 DEF parse_function_definition_output
<1> QED
  BY <1>1, <1>2, <1>3, <1>4, <1>5, <1>6, <1>7

(* Every step of a definition. *)
LEMMA DefinitionShift ==
  ASSUME IInv, ShiftInv, DefinitionStep
  PROVE  ShiftInv'
<1>1. CASE ExpectBody
  <2>1. mode = "go"
    BY <1>1 DEF ExpectBody, At
  <2>2. CASE peek = "l_brace" /\ Advance /\ UNCHANGED <<tokens, mode, value, nodes, definitions, reports>>
    <3>1. Solid(it) /\ it' = After(it)
      BY <2>2 DEF Solid, peek, Advance
    <3> QED
      BY <2>1, <2>2, <3>1, ShiftsSame, QuietStep
  <2>3. CASE Fail("expect_brace_before_function_body")
    BY <2>3, FailShift DEF Fail
  <2> QED
    BY <1>1, <2>2, <2>3 DEF ExpectBody
<1>2. CASE ReturnDefinition
  <2>1. /\ it' = it /\ tokens' = tokens /\ nodes' = nodes /\ reports' = reports
        /\ mode = "return" /\ mode' = "return" /\ ~At("expression")
    BY <1>2 DEF ReturnDefinition, Receives, Return, At
  <2> QED
    BY <2>1, ShiftsSame, QuietStep
<1> QED
  BY <1>1, <1>2, RunShift, SignatureShift DEF DefinitionStep

(* Every step of a statement. *)
LEMMA StatementShift ==
  ASSUME IInv, ShiftInv, StatementStep
  PROVE  ShiftInv'
<1>1. CASE CloseBlock
  <2>1. /\ it' = After(it) /\ Solid(it) /\ tokens' = tokens /\ nodes' = nodes
        /\ reports' = reports /\ mode = "go" /\ mode' = "return"
    BY <1>1 DEF CloseBlock, Return, At, Advance, Solid, peek
  <2> QED
    BY <2>1, ShiftsSame, QuietStep
<1>2. CASE parse_statement
  <2>1. /\ tokens' = tokens /\ reports' = reports /\ mode = "go" /\ mode' = mode
        /\ ~At("expression")
    BY <1>2 DEF parse_statement, At
  <2>2. CASE peek = "l_brace" /\ Create(Node("block_expr", "none", tokens[it].offset, <<>>)) /\ Advance
    <3>1. Solid(it) /\ it' = After(it)
      BY <2>2 DEF Solid, peek, Advance
    <3>2. ShiftNodes(nodes)' = ShiftNodes(nodes)
      BY <2>2, ShiftsNew
    <3> QED
      BY <2>1, <3>1, <3>2, QuietStep
  <2>3. CASE UNCHANGED <<it, nodes>>
    BY <2>1, <2>3, ShiftsSame, QuietStep
  <2> QED
    BY <1>2, <2>2, <2>3 DEF parse_statement
<1>3. CASE ExpectSemicolon
  <2>1. CASE peek = "semicolon" /\ Advance /\ Return(value) /\ UNCHANGED <<tokens, nodes, definitions, reports>>
    <3>1. /\ Solid(it) /\ it' = After(it) /\ mode' = "return" /\ mode = "return"
      BY <1>3, <2>1 DEF ExpectSemicolon, Receives, Solid, peek, Advance, Return
    <3> QED
      BY <2>1, <3>1, ShiftsSame, QuietStep
  <2>2. CASE Fail("expect_semicolon")
    BY <2>2, FailShift DEF Fail
  <2> QED
    BY <1>3, <2>1, <2>2 DEF ExpectSemicolon
<1>4. CASE PutStatement
  <2>1. /\ it' = it /\ tokens' = tokens /\ reports' = reports /\ mode = "return"
        /\ mode' = "go" /\ ~At("expression") /\ nodes' = WithChild(nodes, Top.node, value)
        /\ Top.fn \in FillingFn
    BY <1>4 DEF PutStatement, Receives, Continue, At, FillingFn
  <2> QED
    BY <2>1, ShiftsTaken, QuietStep
<1> QED
  BY <1>1, <1>2, <1>3, <1>4 DEF StatementStep

(* Recovery is not reached before something is reported. *)
LEMMA RecoveryShift ==
  ASSUME ShiftInv, RecoveryStep
  PROVE  ShiftInv'
<1>1. mode = "throw" /\ reports' = reports
  BY DEF RecoveryStep, recover_at_definition_level, recover_at_statement_level, Unwind
<1> QED
  BY <1>1 DEF ShiftInv

(* Every step before the loop of parse_expression passes a token that is no >. *)
LEMMA HeadShift ==
  ASSUME IInv, ShiftInv, HeadStep
  PROVE  ShiftInv'
<1>1. CASE ExpressionMissing
  BY <1>1, FailShift DEF ExpressionMissing, Fail
<1>2. CASE HeadStep /\ ~ExpressionMissing
  <2>1. /\ tokens' = tokens /\ reports' = reports /\ mode = "go" /\ mode' = mode
        /\ it' = After(it)
    BY <1>2 DEF HeadStep, on_leaf, on_prefix_left_brace, on_kw_return, on_prefix_operator, At, Advance
  <2>2. Solid(it)
    <3>1. peek \in HeadKind
      BY <1>2 DEF HeadStep, on_leaf, on_prefix_left_brace, on_kw_return, on_prefix_operator, HeadKind
    <3>2. "r_angle" \notin HeadKind /\ "end_of_file" \notin HeadKind
      BY DEF HeadKind, LiteralKind, NumericKind, QuotedKind, PrefixOperator
    <3> QED
      BY <3>1, <3>2 DEF Solid, peek
  <2>3. \E kind, op, offset, children :
          op # "shr" /\ Create(Node(kind, op, offset, children))
    <3>1. CASE on_leaf
      <4>1. CASE peek = "identifier"
        BY <3>1, <4>1 DEF on_leaf
      <4>2. CASE peek # "identifier"
        <5>1. peek \in LiteralKind /\ Create(Node("literal_expr", peek, tokens[it].offset, <<>>))
          BY <3>1, <4>2 DEF on_leaf
        <5>2. "shr" \notin LiteralKind
          BY DEF LiteralKind, NumericKind, QuotedKind
        <5> QED
          BY <5>1, <5>2
      <4> QED
        BY <4>1, <4>2
    <3>2. CASE on_prefix_left_brace
      BY <3>2 DEF on_prefix_left_brace
    <3>3. CASE on_kw_return
      BY <3>3 DEF on_kw_return
    <3>4. CASE on_prefix_operator
      <4>1. /\ peek \in DOMAIN PrefixOperator
            /\ Create(Node("unary_expr", PrefixOperator[peek], tokens[it].offset, <<>>))
        BY <3>4 DEF on_prefix_operator
      <4>2. \A kind \in DOMAIN PrefixOperator : PrefixOperator[kind] # "shr"
        BY DEF PrefixOperator
      <4> QED
        BY <4>1, <4>2
    <3> QED
      BY <1>2, <3>1, <3>2, <3>3, <3>4 DEF HeadStep
  <2>4. ShiftNodes(nodes)' = ShiftNodes(nodes)
    BY <2>3, ShiftsNew
  <2> QED
    BY <2>1, <2>2, <2>4, QuietStep
<1> QED
  BY <1>1, <1>2

(* lookup_tail_parse_rule answers with a shift for a shift only. *)
LEMMA RuleShift ==
  ASSUME NEW p
  PROVE  TailRule(p).op = "shr" <=> ShiftAt(p)
<1>1. /\ \A kind \in DOMAIN AssignOperator : AssignOperator[kind] # "shr"
      /\ \A kind \in DOMAIN LogicalOperator : LogicalOperator[kind] # "shr"
      /\ \A kind \in DOMAIN ComparisonOperator : ComparisonOperator[kind] # "shr"
      /\ \A kind \in DOMAIN AdditiveOperator : AdditiveOperator[kind] # "shr"
      /\ \A kind \in DOMAIN MultiplicativeOperator : MultiplicativeOperator[kind] # "shr"
      /\ \A kind \in DOMAIN PostfixOperator : PostfixOperator[kind] # "shr"
  BY DEF AssignOperator, LogicalOperator, ComparisonOperator, AdditiveOperator,
         MultiplicativeOperator, PostfixOperator
<1>2. /\ "r_angle" \notin DOMAIN AssignOperator /\ "r_angle" \notin DOMAIN LogicalOperator
      /\ "r_angle" \notin DOMAIN ComparisonOperator /\ "r_angle" \notin DOMAIN AdditiveOperator
      /\ "r_angle" \notin DOMAIN MultiplicativeOperator /\ "r_angle" \notin DOMAIN PostfixOperator
  BY DEF AssignOperator, LogicalOperator, ComparisonOperator, AdditiveOperator,
         MultiplicativeOperator, PostfixOperator
<1>3. CASE tokens[p].kind = "r_angle"
  <2>1. TailRule(p) = IF ShiftAt(p) THEN [precedence |-> additive_or_bit, op |-> "shr"]
                                    ELSE [precedence |-> comparison, op |-> "greater"]
    BY <1>2, <1>3 DEF TailRule
  <2> QED
    BY <2>1
<1>4. CASE tokens[p].kind # "r_angle"
  <2>1. ~ShiftAt(p)
    BY <1>4 DEF ShiftAt
  <2>2. TailRule(p).op # "shr"
    BY <1>1, <1>4 DEF TailRule
  <2> QED
    BY <2>1, <2>2
<1> QED
  BY <1>3, <1>4

(* The code compares the offsets of the two tokens; there is one byte in a >. *)
LEMMA ShiftsMeet ==
  ASSUME IInv
  PROVE  ShiftAt(it) <=> Adjacent(it)
<1>1. Len(Lexeme["r_angle"]) = 1
  <2>1. Lexeme["r_angle"] = <<">">>
    BY Zenon DEF Lexeme
  <2> QED
    BY <2>1
<1>2. tokens[it].kind = "r_angle" => it < Len(tokens) /\ After(it) = it + 1
  BY Here DEF peek
<1>3. it < Len(tokens) => tokens[it + 1].offset \in Nat /\ tokens[it].offset \in Nat
  <2>1. it < Len(tokens) => it + 1 \in 1..Len(tokens) /\ it \in 1..Len(tokens)
    BY Here
  <2>2. CursorInv
    BY DEF IInv
  <2>3. it < Len(tokens) => tokens[it + 1] \in TokenType /\ tokens[it] \in TokenType
    BY <2>1, <2>2, Moves
  <2> QED
    BY <2>3, SourceSizeAssumption DEF TokenType
<1> QED
  BY <1>1, <1>2, <1>3 DEF ShiftAt, Adjacent

(* Past a single >, and past two. *)
LEMMA PairsPassed ==
  ASSUME IInv, ~(it > 1 /\ tokens[it - 1].kind = "r_angle")
  PROVE  /\ Pairs(it + 1) = Pairs(it)
         /\ Adjacent(it) => Pairs(it + 2) = Pairs(it) \cup {it}
         /\ it \notin Pairs(it) /\ IsFiniteSet(Pairs(it))
<1>1. it \in Nat /\ it >= 1
  BY Here
<1>2. ASSUME NEW p \in 1..(it - 1), Adjacent(p) PROVE p \in 1..(it - 2)
  <2>1. p # it - 1
    BY <1>1, <1>2 DEF Adjacent
  <2> QED
    BY <1>1, <2>1
<1>3. /\ 1..((it + 1) - 2) = 1..(it - 1) /\ 1..((it + 2) - 2) = 1..it
      /\ \A p \in 1..(it - 2) : p \in 1..(it - 1)
      /\ \A p \in 1..it : p \in 1..(it - 1) \/ p = it
      /\ it \in 1..it /\ it \notin 1..(it - 2) /\ \A p \in 1..(it - 2) : p \in 1..it
  BY <1>1
<1>4. Pairs(it + 1) = Pairs(it)
  BY <1>2, <1>3 DEF Pairs
<1>5. Adjacent(it) => Pairs(it + 2) = Pairs(it) \cup {it}
  BY <1>2, <1>3 DEF Pairs
<1>6. IsFiniteSet(1..(it - 2)) /\ Pairs(it) \in SUBSET (1..(it - 2))
  BY <1>1, FS_Interval DEF Pairs
<1> QED
  BY <1>3, <1>4, <1>5, <1>6, FS_Subset DEF Pairs

(* A node of a shift is one more. *)
LEMMA ShiftsCounted ==
  ASSUME NEW arena \in Seq(AnyNode), NEW node, node.op = "shr"
  PROVE  Cardinality(ShiftNodes(Append(arena, node))) = Cardinality(ShiftNodes(arena)) + 1
<1>1. /\ Len(arena) \in Nat /\ Len(Append(arena, node)) = Len(arena) + 1
      /\ Append(arena, node)[Len(arena) + 1] = node
      /\ \A n \in 1..Len(arena) : Append(arena, node)[n] = arena[n]
  OBVIOUS
<1> DEFINE grown == Append(arena, node)
<1> HIDE DEF grown
<1>2. /\ Len(arena) \in Nat /\ Len(grown) = Len(arena) + 1
      /\ grown[Len(arena) + 1] = node /\ \A n \in 1..Len(arena) : grown[n] = arena[n]
  BY <1>1 DEF grown
<1>3. ASSUME NEW n PROVE n \in ShiftNodes(grown) <=> n \in ShiftNodes(arena) \cup {Len(arena) + 1}
  <2>1. n \in 1..Len(grown) <=> n \in 1..Len(arena) \/ n = Len(arena) + 1
    BY <1>2
  <2> QED
    BY <1>2, <2>1 DEF ShiftNodes
<1>4. ShiftNodes(grown) = ShiftNodes(arena) \cup {Len(arena) + 1}
  BY <1>3
<1>5. IsFiniteSet(1..Len(arena)) /\ ShiftNodes(arena) \in SUBSET (1..Len(arena))
  BY <1>2, FS_Interval DEF ShiftNodes
<1>6. IsFiniteSet(ShiftNodes(arena))
  BY <1>5, FS_Subset
<1>7. Len(arena) + 1 \notin ShiftNodes(arena)
  BY <1>2 DEF ShiftNodes
<1> QED
  BY <1>4, <1>6, <1>7, FS_AddElement DEF grown

(***************************************************************************)
(* A binary operator, which is where a > is passed: the token before it is *)
(* no >, since an expression ends there, so that a pair is not counted     *)
(* twice and no pair begins between two operators.                         *)
(***************************************************************************)
LEMMA BinaryShift ==
  ASSUME IInv, ShiftInv, on_binary_operator
  PROVE  ShiftInv'
<1> SUFFICES ASSUME reports' = <<>> PROVE ShiftInv'
  BY DEF ShiftInv
<1>1. PICK op, tighter, node :
        /\ op = TailRule(it).op /\ tighter = lookup_precedence_for_associativity(op)
        /\ node = Node("binary_expr", op, nodes[Top.node].offset, <<Top.node>>)
  OBVIOUS
<1>2. /\ At("tail") /\ mode' = mode /\ tokens' = tokens /\ reports' = reports
      /\ it' = IF op = "shr" THEN After(After(it)) ELSE After(it)
      /\ nodes' = Append(nodes, node)
      /\ stack' = <<Expression(tighter), Frame("operand", NewId, statement)>> \o stack
  BY <1>1 DEF on_binary_operator, Create
<1>3. mode = "go" /\ reports = <<>> /\ node.op = op /\ ~At("expression")
  BY <1>1, <1>2 DEF At, Node
<1>4. /\ Cardinality(ShiftNodes(nodes)) = Cardinality(Pairs(it))
      /\ ~(it > 1 /\ tokens[it - 1].kind = "r_angle")
  BY <1>3 DEF ShiftInv
<1>5. At("expression")'
  <2>1. stack \in Seq(AnyFrame)
    BY DEF IInv, StackInv
  <2>2. Top' = Expression(tighter)
    BY <1>2, <2>1 DEF Top
  <2>3. Top'.fn = "expression"
    BY <2>2 DEF Expression, Frame
  <2> QED
    BY <1>2, <1>3, <2>3 DEF At
<1>6. /\ Pairs(it + 1) = Pairs(it) /\ IsFiniteSet(Pairs(it)) /\ it \notin Pairs(it)
      /\ Adjacent(it) => Pairs(it + 2) = Pairs(it) \cup {it}
  BY <1>4, PairsPassed
<1>7. nodes \in Seq(AnyNode) /\ it \in Nat
  BY Here DEF IInv, NodesInv, ArenaOK
<1>8. ASSUME NEW b, it' = b PROVE Pairs(it)' = Pairs(b)
  BY <1>2, <1>8 DEF Pairs, Adjacent
<1>9. ShiftNodes(nodes)' = ShiftNodes(Append(nodes, node))
  BY <1>2 DEF ShiftNodes
<1>10. CASE op = "shr"
  <2>1. ShiftAt(it) /\ Adjacent(it)
    BY <1>1, <1>10, RuleShift, ShiftsMeet
  <2>2. it' = it + 2
    <3>1. tokens[it].kind = "r_angle" /\ tokens[After(it)].kind = "r_angle" /\ CursorInv
      BY <2>1 DEF ShiftAt, IInv
    <3>2. After(it) = it + 1 /\ it + 1 \in 1..Len(tokens)
      BY <3>1, Here DEF peek
    <3>3. After(it + 1) = it + 1 + 1
      BY <3>1, <3>2 DEF After
    <3> QED
      BY <1>2, <1>7, <1>10, <3>2, <3>3
  <2>3. Pairs(it)' = Pairs(it) \cup {it}
    BY <1>6, <1>8, <2>1, <2>2
  <2>4. Cardinality(Pairs(it) \cup {it}) = Cardinality(Pairs(it)) + 1
    BY <1>6, FS_AddElement
  <2>5. Cardinality(ShiftNodes(Append(nodes, node))) = Cardinality(ShiftNodes(nodes)) + 1
    BY <1>3, <1>7, <1>10, ShiftsCounted
  <2>6. Cardinality(ShiftNodes(nodes))' = Cardinality(Pairs(it))'
    BY <1>4, <1>9, <2>3, <2>4, <2>5
  <2> QED
    BY <1>2, <1>3, <1>5, <2>6 DEF ShiftInv
<1>11. CASE op # "shr"
  <2>1. it' = it \/ it' = it + 1
    BY <1>2, <1>11 DEF After
  <2>2. Pairs(it)' = Pairs(it)
    BY <1>6, <1>8, <2>1
  <2>3. ShiftNodes(nodes)' = ShiftNodes(nodes)
    BY <1>3, <1>7, <1>9, <1>11, ShiftsCreated
  <2>4. Cardinality(ShiftNodes(nodes))' = Cardinality(Pairs(it))'
    BY <1>4, <2>2, <2>3
  <2> QED
    BY <1>2, <1>3, <1>5, <2>4 DEF ShiftInv
<1> QED
  BY <1>10, <1>11

(* Every step of the loop of parse_expression and of what it calls. *)
LEMMA TailShift ==
  ASSUME IInv, ShiftInv, TailStep
  PROVE  ShiftInv'
<1>1. CASE GoOnWith \/ EndExpression
  <2>1. /\ it' = it /\ tokens' = tokens /\ nodes' = nodes /\ reports' = reports
        /\ mode \in {"go", "return"} /\ mode' \in {"go", "return"} /\ ~At("expression")
    BY <1>1 DEF GoOnWith, EndExpression, Receives, Continue, Return, At
  <2> QED
    BY <2>1, ShiftsSame, QuietStep
<1>2. CASE on_postfix_operator
  <2>1. /\ tokens' = tokens /\ reports' = reports /\ mode = "go" /\ mode' = mode
        /\ it' = After(it) /\ peek \in DOMAIN PostfixOperator
        /\ Create(Node("unary_expr", PostfixOperator[peek], nodes[Top.node].offset, <<Top.node>>))
    BY <1>2 DEF on_postfix_operator, At, Advance
  <2>2. /\ \A kind \in DOMAIN PostfixOperator : PostfixOperator[kind] # "shr"
        /\ "r_angle" \notin DOMAIN PostfixOperator /\ "end_of_file" \notin DOMAIN PostfixOperator
    BY DEF PostfixOperator
  <2>3. Solid(it) /\ PostfixOperator[peek] # "shr"
    BY <2>1, <2>2 DEF Solid, peek
  <2>4. ShiftNodes(nodes)' = ShiftNodes(nodes)
    BY <2>1, <2>3, ShiftsNew
  <2> QED
    BY <2>1, <2>3, <2>4, QuietStep
<1>3. CASE on_infix_left_paren
  <2>1. /\ tokens' = tokens /\ reports' = reports /\ mode = "go" /\ mode' = mode
        /\ peek = "l_paren"
        /\ Create(Node("call_expr", "none", nodes[Top.node].offset, <<Top.node>>))
        /\ \/ it' = After(After(it)) /\ tokens[After(it)].kind = "r_paren"
           \/ it' = After(it)
    BY <1>3 DEF on_infix_left_paren, At, Advance
  <2>2. Solid(it) /\ (tokens[After(it)].kind = "r_paren" => Solid(After(it)))
    BY <2>1 DEF Solid, peek
  <2>3. ShiftNodes(nodes)' = ShiftNodes(nodes)
    BY <2>1, ShiftsNew
  <2> QED
    BY <2>1, <2>2, <2>3, QuietStep
<1>4. CASE TakeOperand \/ TakeReturnValue
  <2>1. /\ tokens' = tokens /\ reports' = reports /\ mode = "return" /\ mode' \in {"go", "return"}
        /\ nodes' = WithChild(nodes, Top.node, value) /\ Top.fn \in FillingFn /\ ~At("expression")
        /\ it' = it \/ (it' = After(it) /\ peek = "comma")
    BY <1>4 DEF TakeOperand, TakeReturnValue, Receives, Continue, Return, At, FillingFn, Advance
  <2>2. peek = "comma" => Solid(it)
    BY DEF Solid, peek
  <2>3. ShiftNodes(nodes)' = ShiftNodes(nodes)
    BY <2>1, ShiftsTaken
  <2> QED
    BY <2>1, <2>2, <2>3, QuietStep
<1>5. CASE TakeArgument
  <2>1. CASE \E message, p, arena : FailAt(message, p, arena)
    BY <2>1, FailShift
  <2>2. CASE /\ peek \in {"comma", "r_paren"} /\ Advance /\ (Continue \/ Return(Top.node))
             /\ nodes' = WithChild(nodes, Top.node, value)
             /\ UNCHANGED <<tokens, definitions, reports>>
    <3>1. /\ mode = "return" /\ mode' \in {"go", "return"} /\ Top.fn \in FillingFn
          /\ it' = After(it) /\ Solid(it)
      BY <1>5, <2>2 DEF TakeArgument, Receives, Continue, Return, FillingFn, Advance, Solid, peek
    <3>2. ShiftNodes(nodes)' = ShiftNodes(nodes)
      BY <2>2, <3>1, ShiftsTaken
    <3> QED
      BY <2>2, <3>1, <3>2, QuietStep
  <2> QED
    BY <1>5, <2>1, <2>2 DEF TakeArgument
<1> QED
  BY <1>1, <1>2, <1>3, <1>4, <1>5, BinaryShift DEF TailStep

(* A step that changes nothing. *)
LEMMA StutterShift ==
  ASSUME ShiftInv, UNCHANGED vars
  PROVE  ShiftInv'
<1>1. UNCHANGED <<tokens, it, stack, mode, nodes, reports>>
  BY DEF vars
<1>2. (At("expression"))' = At("expression")
  BY <1>1 DEF At, Top
<1>3. (Pairs(it))' = Pairs(it) /\ (ShiftNodes(nodes))' = ShiftNodes(nodes)
  BY <1>1 DEF Pairs, Adjacent, ShiftNodes
<1> QED
  BY <1>1, <1>2, <1>3 DEF ShiftInv

(* No token has been passed and there is no node. *)
LEMMA InitShift ==
  ASSUME Init
  PROVE  ShiftInv
<1>1. it = 1 /\ mode = "go" /\ nodes = <<>>
  BY DEF Init
<1>2. Pairs(it) = {} /\ ShiftNodes(nodes) = {}
  BY <1>1 DEF Pairs, ShiftNodes
<1>3. Cardinality(ShiftNodes(nodes)) = Cardinality(Pairs(it))
  BY <1>2
<1>4. ~(it > 1)
  BY <1>1
<1> QED
  BY <1>1, <1>3, <1>4 DEF ShiftInv

(* Every step keeps the count. *)
LEMMA NextShift ==
  ASSUME IInv, ShiftInv, Next
  PROVE  ShiftInv'
BY DefinitionShift, StatementShift, RecoveryShift, HeadShift, TailShift, StutterShift
   DEF Next, Returned

(***************************************************************************)
(* As long as nothing is reported, the shr nodes are as many as the pairs  *)
(* of > that have been passed with nothing between them.                   *)
(***************************************************************************)
THEOREM ShiftInvariance == Spec => []ShiftInv
<1>1. Init => ShiftInv
  BY InitShift
<1>2. IInv /\ ShiftInv /\ [Next]_vars => ShiftInv'
  BY NextShift, StutterShift
<1>3. Spec => []IInv
  BY Inductive
<1> QED
  BY <1>1, <1>2, <1>3, PTL DEF Spec

(* At the end every pair has been passed: the last token is no >. *)
LEMMA AllPassed ==
  ASSUME IInv, ShiftInv
  PROVE  ShiftsAreAdjacent
<1> SUFFICES ASSUME mode = "done", reports = <<>>
             PROVE  Cardinality({n \in 1..Len(nodes) : nodes[n].op = "shr"})
                      = Cardinality({p \in 1..Len(tokens) : Adjacent(p)})
  BY DEF ShiftsAreAdjacent
<1>1. it = Len(tokens) /\ Cardinality(ShiftNodes(nodes)) = Cardinality(Pairs(it))
  BY DEF ShiftInv
<1>2. Len(tokens) \in Nat /\ tokens[it].kind = "end_of_file"
  <2>1. CursorInv /\ it \in 1..Len(tokens)
    BY Here DEF IInv
  <2> QED
    BY <1>1, <2>1, Moves
<1>3. ASSUME NEW p \in 1..Len(tokens), Adjacent(p) PROVE p \in 1..(it - 2)
  <2>1. p # it /\ p + 1 # it
    BY <1>2, <1>3 DEF Adjacent
  <2> QED
    BY <1>1, <1>2, <2>1
<1>4. \A p \in 1..(it - 2) : p \in 1..Len(tokens)
  BY <1>1, <1>2
<1>5. Pairs(it) = {p \in 1..Len(tokens) : Adjacent(p)}
  BY <1>3, <1>4 DEF Pairs
<1> QED
  BY <1>1, <1>5 DEF ShiftNodes

(***************************************************************************)
(* In a list that is accepted without a report, the parser reads two > as  *)
(* a shift exactly where the lexer found nothing between them: no pair is  *)
(* missed, and none is read as a shift that has a gap, although the lexer  *)
(* never makes one token of them.                                          *)
(***************************************************************************)
THEOREM ShiftsStayAdjacent == Spec => []ShiftsAreAdjacent
<1>1. IInv /\ ShiftInv => ShiftsAreAdjacent
  BY AllPassed
<1>2. Spec => []IInv
  BY Inductive
<1>3. Spec => []ShiftInv
  BY ShiftInvariance
<1> QED
  BY <1>1, <1>2, <1>3, PTL

-----------------------------------------------------------------------------
(* Recovery *)

(***************************************************************************)
(* The function_def node n of a plain definition at p is being parsed: the *)
(* cursor and the stack are where its next token wants them.               *)
(***************************************************************************)
Stage(p, n) ==
  \/ it = p + 2 /\ At("signature") /\ Len(stack) = 2 /\ Top.node = n
  \/ it = p + 3 /\ At("parameters") /\ Len(stack) = 2 /\ Top.node = n
  \/ it = p + 4 /\ (At("outputs") \/ At("body")) /\ Len(stack) = 2 /\ Top.node = n
  \/ it = p + 5 /\ At("block") /\ Len(stack) = 3 /\ stack[2].fn = "defined" /\ stack[2].node = n
  \/ it = p + 6 /\ Receives("defined") /\ Len(stack) = 2 /\ Top.node = n
  \/ it = p + 6 /\ Receives("run") /\ value = n

Underway(p) == \E n \in 1..Len(nodes) : nodes[n].offset = tokens[p].offset /\ Stage(p, n)

(***************************************************************************)
(* Each plain definition that the cursor has entered is in the tree, being *)
(* parsed, or explained.  An error that is being handled explains what it  *)
(* is passing, until recovery in run has left the token of the error; from *)
(* then on it stands at no token at which a definition can begin.          *)
(***************************************************************************)
LossInv ==
  /\ \A p \in PlainDefinitions : p < it => IsDefined(p) \/ Explained(p) \/ Underway(p)
  /\ mode = "done" => it = Len(tokens)
  /\ mode = "throw" =>
       /\ reports # <<>>
       /\ \/ Unbroken(reports[Len(reports)].at, it)
          \/ Top.fn = "run" /\ peek \notin recovery_tokens

(* Nodes stay where they are, with their offsets. *)
Preserves(arena) ==
  /\ Len(arena) \in Nat /\ Len(nodes) <= Len(arena)
  /\ \A n \in 1..Len(nodes) : arena[n].offset = nodes[n].offset

(* Nothing is taken out of the tree or of the list of reports. *)
Grows ==
  /\ tokens' = tokens
  /\ Preserves(nodes')
  /\ Len(definitions') \in Nat /\ Len(definitions) <= Len(definitions')
  /\ \A i \in 1..Len(definitions) : definitions'[i] = definitions[i]
  /\ Len(reports') \in Nat /\ Len(reports) <= Len(reports')
  /\ \A i \in 1..Len(reports) : reports'[i] = reports[i]

(* A child leaves the offset of its parent. *)
LEMMA OffsetsPut ==
  ASSUME NEW arena, ArenaOK(arena), NEW id \in 1..Len(arena), NEW child \in 1..Len(arena)
  PROVE  \A n \in 1..Len(arena) : WithChild(arena, id, child)[n].offset = arena[n].offset
<1> DEFINE node == [arena[id] EXCEPT !.children = Append(@, child)]
           grown == WithChild(arena, id, child)
<1>1. arena \in Seq(AnyNode) /\ arena[id] \in AnyNode
  BY DEF ArenaOK
<1>2. node.offset = arena[id].offset
  BY <1>1 DEF AnyNode
<1>3. grown = [arena EXCEPT ![id] = node]
  BY DEF WithChild
<1> HIDE DEF node, grown
<1>4. grown[id] = node /\ \A n \in 1..Len(arena) : n # id => grown[n] = arena[n]
  BY <1>1, <1>3
<1>5. \A n \in 1..Len(arena) : grown[n].offset = arena[n].offset
  BY <1>2, <1>4
<1> QED
  BY <1>5 DEF grown

(* The arenas that steps leave: the same, with one node more, and with a child put. *)
LEMMA SamePreserved ==
  ASSUME IInv
  PROVE  Preserves(nodes)
BY Here DEF Preserves

(* The same for a node that is added. *)
LEMMA NewPreserved ==
  ASSUME IInv, NEW node
  PROVE  Preserves(Append(nodes, node))
<1>1. nodes \in Seq(AnyNode)
  BY DEF IInv, NodesInv, ArenaOK
<1>2. PICK grown : grown = Append(nodes, node)
  OBVIOUS
<1>3. Len(grown) = Len(nodes) + 1 /\ Len(nodes) \in Nat /\ \A n \in 1..Len(nodes) : grown[n] = nodes[n]
  BY <1>1, <1>2
<1> QED
  BY <1>2, <1>3 DEF Preserves

(* For a child that is taken. *)
LEMMA TakenPreserved ==
  ASSUME IInv, Top.fn \in FillingFn, mode = "return"
  PROVE  Preserves(WithChild(nodes, Top.node, value))
<1>1. Top.node \in 1..Len(nodes) /\ value \in 1..Len(nodes) /\ ArenaOK(nodes) /\ Len(nodes) \in Nat
  BY NodeHere, Here DEF IInv, ValueInv, NodesInv
<1>2. Len(WithChild(nodes, Top.node, value)) = Len(nodes)
  BY <1>1, ChildPut
<1>3. \A n \in 1..Len(nodes) : WithChild(nodes, Top.node, value)[n].offset = nodes[n].offset
  BY <1>1, OffsetsPut
<1> QED
  BY <1>1, <1>2, <1>3 DEF Preserves

(* And for a parameter or an output with its type. *)
LEMMA TypedPreserved ==
  ASSUME IInv, NEW kind \in NodeKind
  PROVE  /\ Preserves(WithNode(kind)) /\ Preserves(WithType(kind))
         /\ Top.fn \in SignatureFn => Preserves(WithChild(WithType(kind), Top.node, NewId))
<1>1. Preserves(WithNode(kind))
  BY NewPreserved DEF WithNode
<1>2. ArenaOK(WithType(kind)) /\ Len(WithType(kind)) = Len(nodes) + 2 /\ Len(nodes) \in Nat
  BY WithNodes, Here
<1>3. \A n \in 1..Len(nodes) : WithType(kind)[n] = nodes[n]
  <2>1. PICK typed, type : WithType(kind) = nodes \o <<typed, type>>
    BY DEF WithType
  <2>2. PICK grown : grown = nodes \o <<typed, type>>
    OBVIOUS
  <2>3. nodes \in Seq(AnyNode)
    BY DEF IInv, NodesInv, ArenaOK
  <2>4. \A n \in 1..Len(nodes) : grown[n] = nodes[n]
    BY <2>2, <2>3
  <2> QED
    BY <2>1, <2>2, <2>4
<1>4. Preserves(WithType(kind))
  BY <1>2, <1>3 DEF Preserves
<1>5. ASSUME Top.fn \in SignatureFn PROVE Preserves(WithChild(WithType(kind), Top.node, NewId))
  <2>1. Top.node \in 1..Len(nodes) /\ NewId = Len(nodes) + 1
    BY <1>5, Here DEF FrameOK, SignatureFn, FillingFn, AnyFrame, NewId
  <2>2. Top.node \in 1..Len(WithType(kind)) /\ NewId \in 1..Len(WithType(kind))
    BY <1>2, <2>1
  <2>3. Len(WithChild(WithType(kind), Top.node, NewId)) = Len(WithType(kind))
    BY <1>2, <2>2, ChildPut
  <2>4. \A n \in 1..Len(WithType(kind)) :
          WithChild(WithType(kind), Top.node, NewId)[n].offset = WithType(kind)[n].offset
    BY <1>2, <2>2, OffsetsPut
  <2>5. \A n \in 1..Len(nodes) : n \in 1..Len(WithType(kind))
    BY <1>2
  <2> QED
    BY <1>2, <1>3, <2>3, <2>4, <2>5 DEF Preserves
<1> QED
  BY <1>1, <1>4, <1>5

(***************************************************************************)
(* A step that passes no kw_private and reports, if at all, about the      *)
(* token it stops at.                                                      *)
(***************************************************************************)
Harmless ==
  /\ Grows
  /\ \A p \in it..(it' - 1) : tokens[p].kind # "kw_private"
  /\ mode' # "done"
  /\ mode' = "throw" => reports' # <<>> /\ reports'[Len(reports')].at = it'

(* One or two tokens are passed, or none. *)
Free(p) == tokens[p].kind # "kw_private"

Onward ==
  \/ it' = it
  \/ it' = After(it) /\ Free(it)
  \/ it' = After(After(it)) /\ Free(it) /\ Free(After(it))

(* What is passed in such a step is no private modifier. *)
LEMMA OnwardFree ==
  ASSUME IInv, Onward
  PROVE  \A p \in it..(it' - 1) : tokens[p].kind # "kw_private"
<1>1. CursorInv /\ it \in 1..Len(tokens) /\ it \in Nat /\ Len(tokens) \in Nat
  BY Here DEF IInv
<1>2. PICK a, b : a = After(it) /\ b = After(a)
  OBVIOUS
<1>3. a \in 1..Len(tokens) /\ (a = it \/ a = it + 1)
  BY <1>1, <1>2, Here DEF After
<1>4. b = a \/ b = a + 1
  BY <1>2 DEF After
<1>5. PICK c : c = it'
  OBVIOUS
<1>6. \/ c = it
      \/ c = a /\ Free(it)
      \/ c = b /\ Free(it) /\ Free(a)
  BY <1>2, <1>5 DEF Onward
<1>7. ASSUME NEW p \in it..(c - 1) PROVE tokens[p].kind # "kw_private"
  <2>1. p = it \/ p = a
    BY <1>1, <1>3, <1>4, <1>6
  <2>2. c # it
    BY <1>1
  <2>3. c = a => p = it
    BY <1>1, <1>3
  <2>4. Free(p)
    BY <1>6, <2>1, <2>2, <2>3
  <2> QED
    BY <2>4 DEF Free
<1> QED
  BY <1>5, <1>7

(* Steps that report nothing. *)
LEMMA GoesHarmless ==
  ASSUME IInv, UNCHANGED <<tokens, definitions, reports>>, mode' \in {"go", "return"},
         Preserves(nodes'), Onward
  PROVE  Harmless
<1>1. Len(definitions) \in Nat /\ Len(reports) \in Nat
  BY DEF IInv, ValueInv, OrderInv
<1>2. Grows
  BY <1>1 DEF Grows
<1>3. mode' # "throw" /\ mode' # "done"
  OBVIOUS
<1> QED
  BY <1>2, <1>3, OnwardFree DEF Harmless

(* Steps that fail. *)
LEMMA FailHarmless ==
  ASSUME IInv, NEW message, NEW p, NEW arena, FailAt(message, p, arena), Preserves(arena),
         p = it \/ (p = After(it) /\ Free(it))
  PROVE  Harmless
<1>1. /\ it' = p /\ nodes' = arena /\ mode' = "throw" /\ tokens' = tokens
      /\ definitions' = definitions
  BY DEF FailAt
<1>2. PICK report : report = [message |-> message, at |-> p]
  OBVIOUS
<1>3. report.at = p /\ reports' = Append(reports, report)
  BY <1>2 DEF FailAt, ReportAt
<1>4. reports \in Seq([message : Message, at : Nat]) /\ Len(definitions) \in Nat
  BY DEF IInv, OrderInv, ValueInv
<1>5. /\ Len(reports') = Len(reports) + 1 /\ Len(reports) \in Nat
      /\ reports'[Len(reports')] = report /\ \A i \in 1..Len(reports) : reports'[i] = reports[i]
  BY <1>3, <1>4
<1>6. reports' # <<>>
  BY <1>5
<1>7. Grows
  BY <1>1, <1>4, <1>5 DEF Grows
<1>8. Onward
  BY <1>1 DEF Onward
<1>9. mode' # "done" /\ reports'[Len(reports')].at = it'
  BY <1>1, <1>3, <1>5
<1> QED
  BY <1>6, <1>7, <1>8, <1>9, OnwardFree DEF Harmless

(* The same for a failure at the cursor. *)
LEMMA FailHereHarmless ==
  ASSUME IInv, NEW message, Fail(message)
  PROVE  Harmless
BY SamePreserved, FailHarmless DEF Fail

(* And for expect, whether it matches or not. *)
LEMMA ExpectHarmless ==
  ASSUME IInv, mode = "go", NEW kind, kind # "kw_private", NEW message, NEW fn,
         Expect(kind, message, fn)
  PROVE  Harmless
<1>1. CASE /\ peek = kind /\ Advance
           /\ UNCHANGED <<tokens, mode, value, nodes, definitions, reports>>
  <2>1. Onward /\ Preserves(nodes')
    BY <1>1, SamePreserved DEF Onward, Free, peek, Advance
  <2> QED
    BY <1>1, <2>1, GoesHarmless
<1>2. CASE Fail(message)
  BY <1>2, FailHereHarmless
<1> QED
  BY <1>1, <1>2 DEF Expect

(* The steps of a signature. *)
LEMMA SignatureHarmless ==
  ASSUME IInv,
         \/ ExpectParen \/ NoParameters \/ SomeParameters \/ parse_function_definition_parameter
         \/ MoreParameters \/ parse_function_definition_outputs
         \/ parse_function_definition_output \/ MoreOutputs
  PROVE  Harmless
<1>1. CASE ExpectParen
  BY <1>1, ExpectHarmless DEF ExpectParen, At
<1>2. CASE \/ NoParameters \/ SomeParameters \/ parse_function_definition_outputs \/ MoreOutputs
  <2>1. /\ UNCHANGED <<tokens, definitions, reports, nodes>> /\ mode' = "go"
        /\ \/ it' = After(it) /\ peek \in {"r_paren", "thin_arrow", "comma"}
           \/ it' = it
    BY <1>2 DEF NoParameters, SomeParameters, parse_function_definition_outputs, MoreOutputs, At, Advance
  <2>2. Onward /\ Preserves(nodes')
    BY <2>1, SamePreserved DEF Onward, Free, peek
  <2> QED
    BY <2>1, <2>2, GoesHarmless
<1>3. CASE parse_function_definition_parameter
  <2>1. Top.fn \in SignatureFn /\ mode = "go" /\ "function_parameter" \in NodeKind
    BY <1>3 DEF parse_function_definition_parameter, At, SignatureFn, NodeKind
  <2>2. CASE FailAt("expect_parameter_type", it, WithNode("function_parameter"))
    BY <2>1, <2>2, TypedPreserved, FailHarmless
  <2>3. CASE /\ peek = "identifier"
             /\ FailAt("expect_parameter_name", After(it), WithType("function_parameter"))
    <3>1. Free(it)
      BY <2>3 DEF Free, peek
    <3> QED
      BY <2>1, <2>3, <3>1, TypedPreserved, FailHarmless
  <2>4. CASE /\ peek = "identifier" /\ tokens[After(it)].kind = "identifier"
             /\ nodes' = WithChild(WithType("function_parameter"), Top.node, NewId)
             /\ it' = After(After(it))
             /\ UNCHANGED <<tokens, mode, value, definitions, reports>>
    <3>1. Onward
      BY <2>4 DEF Onward, Free, peek
    <3>2. Preserves(nodes')
      BY <2>1, <2>4, TypedPreserved
    <3> QED
      BY <2>1, <2>4, <3>1, <3>2, GoesHarmless
  <2> QED
    BY <1>3, <2>2, <2>3, <2>4 DEF parse_function_definition_parameter
<1>4. CASE MoreParameters
  <2>1. mode = "go"
    BY <1>4 DEF MoreParameters, At
  <2>2. CASE peek = "comma" /\ Advance /\ UNCHANGED <<tokens, mode, value, nodes, definitions, reports>>
    <3>1. Onward /\ Preserves(nodes')
      BY <2>2, SamePreserved DEF Onward, Free, peek, Advance
    <3> QED
      BY <2>1, <2>2, <3>1, GoesHarmless
  <2>3. CASE Expect("r_paren", "expect_paren_after_parameters", "outputs")
    BY <2>1, <2>3, ExpectHarmless
  <2> QED
    BY <1>4, <2>2, <2>3 DEF MoreParameters
<1>5. CASE parse_function_definition_output
  <2>1. Top.fn \in SignatureFn /\ mode = "go" /\ "function_output" \in NodeKind
    BY <1>5 DEF parse_function_definition_output, At, SignatureFn, NodeKind
  <2>2. CASE FailAt("expect_return_type", it, WithNode("function_output"))
    BY <2>1, <2>2, TypedPreserved, FailHarmless
  <2>3. CASE /\ peek = "identifier" /\ Advance
             /\ nodes' = WithChild(WithType("function_output"), Top.node, NewId)
             /\ UNCHANGED <<tokens, mode, value, definitions, reports>>
    <3>1. Onward
      BY <2>3 DEF Onward, Free, peek, Advance
    <3>2. Preserves(nodes')
      BY <2>1, <2>3, TypedPreserved
    <3> QED
      BY <2>1, <2>3, <3>1, <3>2, GoesHarmless
  <2> QED
    BY <1>5, <2>2, <2>3 DEF parse_function_definition_output
<1> QED
  BY <1>1, <1>2, <1>3, <1>4, <1>5

(* The other steps of a definition that begin after its name. *)
LEMMA BodyHarmless ==
  ASSUME IInv, ExpectBody \/ ReturnDefinition \/ PutDefinition
  PROVE  Harmless
<1>1. CASE ExpectBody
  <2>1. CASE peek = "l_brace" /\ Advance /\ UNCHANGED <<tokens, mode, value, nodes, definitions, reports>>
    <3>1. Onward /\ Preserves(nodes') /\ mode' = "go"
      BY <1>1, <2>1, SamePreserved DEF Onward, Free, peek, Advance, ExpectBody, At
    <3> QED
      BY <2>1, <3>1, GoesHarmless
  <2>2. CASE Fail("expect_brace_before_function_body")
    BY <2>2, FailHereHarmless
  <2> QED
    BY <1>1, <2>1, <2>2 DEF ExpectBody
<1>2. CASE ReturnDefinition
  <2>1. /\ UNCHANGED <<tokens, definitions, reports>> /\ mode' = "return" /\ nodes' = nodes /\ it' = it
    BY <1>2 DEF ReturnDefinition, Return
  <2>2. Onward /\ Preserves(nodes')
    BY <2>1, SamePreserved DEF Onward
  <2> QED
    BY <2>1, <2>2, GoesHarmless
<1>3. CASE PutDefinition
  <2>1. /\ definitions' = Append(definitions, value) /\ mode' = "go" /\ it' = it
        /\ UNCHANGED <<tokens, nodes, reports>>
    BY <1>3 DEF PutDefinition, Continue
  <2>2. definitions \in Seq(Nat) /\ Len(reports) \in Nat /\ Preserves(nodes')
    BY <2>1, SamePreserved DEF IInv, ValueInv, OrderInv
  <2>3. /\ Len(definitions') = Len(definitions) + 1 /\ Len(definitions) \in Nat
        /\ \A i \in 1..Len(definitions) : definitions'[i] = definitions[i]
    BY <2>1, <2>2
  <2>4. Grows /\ Onward
    BY <2>1, <2>2, <2>3 DEF Grows, Onward
  <2> QED
    BY <2>1, <2>4, OnwardFree DEF Harmless
<1> QED
  BY <1>1, <1>2, <1>3

(* Every step of a statement. *)
LEMMA StatementHarmless ==
  ASSUME IInv, StatementStep
  PROVE  Harmless
<1>1. CASE CloseBlock
  <2>1. /\ UNCHANGED <<tokens, definitions, reports>> /\ mode' = "return" /\ nodes' = nodes
        /\ it' = After(it) /\ peek = "r_brace"
    BY <1>1 DEF CloseBlock, Return, Advance
  <2>2. Onward /\ Preserves(nodes')
    BY <2>1, SamePreserved DEF Onward, Free, peek
  <2> QED
    BY <2>1, <2>2, GoesHarmless
<1>2. CASE parse_statement
  <2>1. UNCHANGED <<tokens, definitions, reports>> /\ mode' = "go"
    BY <1>2 DEF parse_statement, At
  <2>2. CASE peek = "l_brace" /\ Create(Node("block_expr", "none", tokens[it].offset, <<>>)) /\ Advance
    <3>1. Onward /\ Preserves(nodes')
      BY <2>2, NewPreserved DEF Onward, Free, peek, Advance, Create
    <3> QED
      BY <2>1, <3>1, GoesHarmless
  <2>3. CASE UNCHANGED <<it, nodes>>
    <3>1. Onward /\ Preserves(nodes')
      BY <2>3, SamePreserved DEF Onward
    <3> QED
      BY <2>1, <3>1, GoesHarmless
  <2> QED
    BY <1>2, <2>2, <2>3 DEF parse_statement
<1>3. CASE ExpectSemicolon
  <2>1. CASE peek = "semicolon" /\ Advance /\ Return(value) /\ UNCHANGED <<tokens, nodes, definitions, reports>>
    <3>1. Onward /\ Preserves(nodes') /\ mode' = "return"
      BY <2>1, SamePreserved DEF Onward, Free, peek, Advance, Return
    <3> QED
      BY <2>1, <3>1, GoesHarmless
  <2>2. CASE Fail("expect_semicolon")
    BY <2>2, FailHereHarmless
  <2> QED
    BY <1>3, <2>1, <2>2 DEF ExpectSemicolon
<1>4. CASE PutStatement
  <2>1. /\ UNCHANGED <<tokens, definitions, reports>> /\ mode' = "go" /\ mode = "return" /\ it' = it
        /\ nodes' = WithChild(nodes, Top.node, value) /\ Top.fn \in FillingFn
    BY <1>4 DEF PutStatement, Receives, Continue, FillingFn
  <2>2. Onward /\ Preserves(nodes')
    BY <2>1, TakenPreserved DEF Onward
  <2> QED
    BY <2>1, <2>2, GoesHarmless
<1> QED
  BY <1>1, <1>2, <1>3, <1>4 DEF StatementStep

(* Every step before the loop of parse_expression. *)
LEMMA HeadHarmless ==
  ASSUME IInv, HeadStep
  PROVE  Harmless
<1>1. CASE ExpressionMissing
  BY <1>1, FailHereHarmless DEF ExpressionMissing
<1>2. CASE HeadStep /\ ~ExpressionMissing
  <2>1. UNCHANGED <<tokens, definitions, reports>> /\ mode' = "go" /\ it' = After(it) /\ peek \in HeadKind
    BY <1>2 DEF HeadStep, on_leaf, on_prefix_left_brace, on_kw_return, on_prefix_operator, At,
                Advance, HeadKind
  <2>2. "kw_private" \notin HeadKind
    BY DEF HeadKind, LiteralKind, NumericKind, QuotedKind, PrefixOperator
  <2>3. \E node : nodes' = Append(nodes, node)
    BY <1>2 DEF HeadStep, on_leaf, on_prefix_left_brace, on_kw_return, on_prefix_operator, Create
  <2>4. Onward /\ Preserves(nodes')
    BY <2>1, <2>2, <2>3, NewPreserved DEF Onward, Free, peek
  <2> QED
    BY <2>1, <2>4, GoesHarmless
<1> QED
  BY <1>1, <1>2

(* lookup_tail_parse_rule has no rule for a modifier, and the second token of a shift is a >. *)
LEMMA RuleFree ==
  ASSUME NEW p
  PROVE  /\ tokens[p].kind = "kw_private" => TailRule(p).precedence = statement
         /\ TailRule(p).op = "shr" => Free(After(p))
<1>1. /\ "kw_private" \notin DOMAIN AssignOperator /\ "kw_private" \notin DOMAIN LogicalOperator
      /\ "kw_private" \notin DOMAIN ComparisonOperator /\ "kw_private" \notin DOMAIN AdditiveOperator
      /\ "kw_private" \notin DOMAIN MultiplicativeOperator /\ "kw_private" \notin DOMAIN PostfixOperator
  BY DEF AssignOperator, LogicalOperator, ComparisonOperator, AdditiveOperator,
         MultiplicativeOperator, PostfixOperator
<1>2. tokens[p].kind = "kw_private" => TailRule(p).precedence = statement
  BY <1>1 DEF TailRule
<1>3. TailRule(p).op = "shr" => Free(After(p))
  BY RuleShift DEF ShiftAt, Free
<1> QED
  BY <1>2, <1>3

(* Every step of the loop of parse_expression and of what it calls. *)
LEMMA TailHarmless ==
  ASSUME IInv, TailStep
  PROVE  Harmless
<1>1. CASE GoOnWith \/ EndExpression
  <2>1. UNCHANGED <<tokens, definitions, reports>> /\ mode' \in {"go", "return"} /\ nodes' = nodes /\ it' = it
    BY <1>1 DEF GoOnWith, EndExpression, Continue, Return
  <2>2. Onward /\ Preserves(nodes')
    BY <2>1, SamePreserved DEF Onward
  <2> QED
    BY <2>1, <2>2, GoesHarmless
<1>2. CASE on_binary_operator \/ on_postfix_operator \/ on_infix_left_paren
  <2>1. /\ UNCHANGED <<tokens, definitions, reports>> /\ mode' = "go" /\ TailFollows
        /\ \E node : nodes' = Append(nodes, node)
    BY <1>2 DEF on_binary_operator, on_postfix_operator, on_infix_left_paren, At, Create
  <2>2. /\ \/ it' = After(it)
           \/ it' = After(After(it)) /\ (TailRule(it).op = "shr" \/ tokens[After(it)].kind = "r_paren")
    BY <1>2 DEF on_binary_operator, on_postfix_operator, on_infix_left_paren, Advance
  <2>3. TailRule(it).precedence # statement
    <3>1. Top.precedence \in Nat /\ Top.precedence < TailRule(it).precedence
      BY <2>1, Here DEF TailFollows, AnyFrame, statement, postfix
    <3> QED
      BY <3>1 DEF statement
  <2>4. Free(it) /\ (TailRule(it).op = "shr" \/ tokens[After(it)].kind = "r_paren" => Free(After(it)))
    BY <2>3, RuleFree DEF Free
  <2>5. Onward /\ Preserves(nodes')
    BY <2>1, <2>2, <2>4, NewPreserved DEF Onward
  <2> QED
    BY <2>1, <2>5, GoesHarmless
<1>3. CASE TakeOperand \/ TakeReturnValue
  <2>1. /\ UNCHANGED <<tokens, definitions, reports>> /\ mode = "return" /\ mode' \in {"go", "return"}
        /\ nodes' = WithChild(nodes, Top.node, value) /\ Top.fn \in FillingFn
        /\ it' = it \/ (it' = After(it) /\ peek = "comma")
    BY <1>3 DEF TakeOperand, TakeReturnValue, Receives, Continue, Return, FillingFn, Advance
  <2>2. Onward /\ Preserves(nodes')
    BY <2>1, TakenPreserved DEF Onward, Free, peek
  <2> QED
    BY <2>1, <2>2, GoesHarmless
<1>4. CASE TakeArgument
  <2>1. mode = "return" /\ Top.fn \in FillingFn
    BY <1>4 DEF TakeArgument, Receives, FillingFn
  <2>2. CASE FailAt("expect_closing_paren_in_call", it, WithChild(nodes, Top.node, value))
    BY <2>1, <2>2, TakenPreserved, FailHarmless
  <2>3. CASE /\ peek \in {"comma", "r_paren"} /\ Advance /\ (Continue \/ Return(Top.node))
             /\ nodes' = WithChild(nodes, Top.node, value)
             /\ UNCHANGED <<tokens, definitions, reports>>
    <3>1. Onward /\ Preserves(nodes') /\ mode' \in {"go", "return"}
      BY <2>1, <2>3, TakenPreserved DEF Onward, Free, peek, Advance, Continue, Return
    <3> QED
      BY <2>3, <3>1, GoesHarmless
  <2> QED
    BY <1>4, <2>2, <2>3 DEF TakeArgument
<1> QED
  BY <1>1, <1>2, <1>3, <1>4 DEF TailStep

-----------------------------------------------------------------------------
(* A plain definition, token by token *)

(* What its tokens are. *)
LEMMA PlainTokens ==
  ASSUME IInv, NEW p \in PlainDefinitions
  PROVE  /\ p \in Nat /\ p >= 1 /\ p + 6 <= Len(tokens)
         /\ tokens[p].kind = "kw_private" /\ tokens[p + 1].kind = "identifier"
         /\ tokens[p + 2].kind = "l_paren" /\ tokens[p + 3].kind = "r_paren"
         /\ tokens[p + 4].kind = "l_brace" /\ tokens[p + 5].kind = "r_brace"
         /\ \A k \in {p, p + 1, p + 2, p + 3, p + 4, p + 5} : After(k) = k + 1
<1>1. Len(tokens) \in Nat /\ CursorInv
  BY Here DEF IInv
<1>2. p \in Nat /\ p >= 1 /\ p + 6 <= Len(tokens)
  BY <1>1, SMTT(30) DEF PlainDefinitions
<1>3. \A i \in 1..6 : tokens[p + i - 1].kind = PlainDefinition[i]
  BY DEF PlainDefinitions
<1>4. /\ p + 1 - 1 = p /\ p + 2 - 1 = p + 1 /\ p + 3 - 1 = p + 2
      /\ p + 4 - 1 = p + 3 /\ p + 5 - 1 = p + 4 /\ p + 6 - 1 = p + 5
      /\ 1 \in 1..6 /\ 2 \in 1..6 /\ 3 \in 1..6 /\ 4 \in 1..6 /\ 5 \in 1..6 /\ 6 \in 1..6
  BY <1>2
<1>5. /\ PlainDefinition[1] = "kw_private" /\ PlainDefinition[2] = "identifier"
      /\ PlainDefinition[3] = "l_paren" /\ PlainDefinition[4] = "r_paren"
      /\ PlainDefinition[5] = "l_brace" /\ PlainDefinition[6] = "r_brace"
  BY DEF PlainDefinition
<1>6. /\ tokens[p].kind = "kw_private" /\ tokens[p + 1].kind = "identifier"
      /\ tokens[p + 2].kind = "l_paren" /\ tokens[p + 3].kind = "r_paren"
      /\ tokens[p + 4].kind = "l_brace" /\ tokens[p + 5].kind = "r_brace"
  BY <1>3, <1>4, <1>5, Zenon
<1>7. ASSUME NEW k \in {p, p + 1, p + 2, p + 3, p + 4, p + 5} PROVE After(k) = k + 1
  <2>1. k \in 1..Len(tokens) /\ k # Len(tokens)
    BY <1>1, <1>2
  <2> QED
    BY <1>1, <2>1, Moves
<1> QED
  BY <1>2, <1>6, <1>7

(* The one step that each function of a definition can take next. *)
LEMMA OnlyStep ==
  ASSUME Next
  PROVE  /\ At("signature") => ExpectParen
         /\ At("parameters") => NoParameters \/ SomeParameters
         /\ At("outputs") => parse_function_definition_outputs
         /\ At("body") => ExpectBody
         /\ At("block") => CloseBlock \/ parse_statement
         /\ Receives("defined") => ReturnDefinition
         /\ Receives("run") => PutDefinition
<1> USE DEF At, Receives
<1>1. CASE DefinitionStep
  BY <1>1 DEF DefinitionStep, FinishRun, parse_definition, PutDefinition, ExpectParen,
     NoParameters, SomeParameters, parse_function_definition_parameter, MoreParameters,
     parse_function_definition_outputs, parse_function_definition_output, MoreOutputs,
     ExpectBody, ReturnDefinition
<1>2. CASE StatementStep
  BY <1>2 DEF StatementStep, CloseBlock, parse_statement, ExpectSemicolon, PutStatement
<1>3. CASE RecoveryStep
  BY <1>3 DEF RecoveryStep, recover_at_definition_level, recover_at_statement_level, Unwind
<1>4. CASE HeadStep
  BY <1>4 DEF HeadStep, ExpressionMissing, on_leaf, on_prefix_left_brace, on_kw_return,
     on_prefix_operator
<1>5. CASE TailStep
  BY <1>5 DEF TailStep, GoOnWith, EndExpression, on_binary_operator, on_postfix_operator,
     on_infix_left_paren, TakeOperand, TakeReturnValue, TakeArgument
<1>6. CASE Returned
  BY <1>6 DEF Returned
<1> QED
  BY <1>1, <1>2, <1>3, <1>4, <1>5, <1>6 DEF Next

(* The function at the top goes on at another point. *)
LEMMA BecomeTop ==
  ASSUME IInv, Top.fn # "run", NEW fn \in Fn, Become(fn)
  PROVE  Top'.fn = fn /\ Top'.node = Top.node /\ Len(stack') = Len(stack)
<1>1. stack \in Seq(AnyFrame) /\ Len(stack) > 1 /\ Top \in AnyFrame /\ StackInv
  BY Here DEF IInv, StackInv
<1>2. PICK f : f = [Top EXCEPT !.fn = fn]
  OBVIOUS
<1>3. f \in AnyFrame /\ f.fn = fn /\ f.node = Top.node
  BY <1>1, <1>2 DEF AnyFrame
<1>4. stack' = <<f>> \o Tail(stack)
  BY <1>2 DEF Become
<1>5. Top' = f /\ Len(stack') = Len(stack)
  BY <1>1, <1>3, <1>4 DEF Top
<1> QED
  BY <1>3, <1>5

(* The function at the top returns to the one below it. *)
LEMMA ReturnTop ==
  ASSUME IInv, Len(stack) > 1, NEW node, Return(node)
  PROVE  /\ Top' = stack[2] /\ Len(stack') = Len(stack) - 1 /\ mode' = "return" /\ value' = node
         /\ Len(stack) = 2 => stack[2].fn = "run"
<1>1. stack \in Seq(AnyFrame)
  BY DEF IInv, StackInv
<1>2. stack' = Tail(stack) /\ mode' = "return" /\ value' = node
  BY DEF Return
<1>3. Top' = stack[2] /\ Len(stack') = Len(stack) - 1
  BY <1>1, <1>2 DEF Top
<1>4. FrameAt(stack, 1).fn = "run"
  BY <1>1 DEF IInv, StackInv
<1>5. FrameAt(stack, 1) = stack[Len(stack)]
  BY <1>1 DEF FrameAt
<1> QED
  BY <1>2, <1>3, <1>4, <1>5

(* A plain definition that is being parsed gets through: none of its tokens is an error. *)
LEMMA StageStep ==
  ASSUME IInv, Next, NEW p \in PlainDefinitions, NEW n \in 1..Len(nodes),
         nodes[n].offset = tokens[p].offset, Stage(p, n)
  PROVE  Underway(p)' \/ IsDefined(p)'
<1>1. /\ p \in Nat /\ tokens[p + 2].kind = "l_paren" /\ tokens[p + 3].kind = "r_paren"
      /\ tokens[p + 4].kind = "l_brace" /\ tokens[p + 5].kind = "r_brace"
      /\ After(p + 2) = p + 3 /\ After(p + 3) = p + 4
      /\ After(p + 4) = p + 5 /\ After(p + 5) = p + 6
  BY PlainTokens
<1>2. tokens' = tokens
  BY TokensStay
<1>3. ASSUME nodes' = nodes, Stage(p, n)' PROVE Underway(p)'
  <2>1. n \in 1..Len(nodes') /\ nodes'[n].offset = tokens'[p].offset
    BY <1>2, <1>3
  <2> QED
    BY <1>3, <2>1 DEF Underway
<1>4. CASE it = p + 2 /\ At("signature") /\ Len(stack) = 2 /\ Top.node = n
  <2>1. ExpectParen /\ peek = "l_paren" /\ mode = "go" /\ Top.fn = "signature" /\ "parameters" \in Fn
    BY <1>1, <1>4, OnlyStep DEF peek, At, Fn
  <2>2. Become("parameters") /\ it' = p + 3 /\ mode' = "go" /\ nodes' = nodes
    BY <1>1, <1>4, <2>1 DEF ExpectParen, Expect, Advance
  <2>3. Top'.fn = "parameters" /\ Top'.node = n /\ Len(stack') = 2
    BY <1>4, <2>1, <2>2, BecomeTop
  <2>4. Stage(p, n)'
    BY <2>2, <2>3 DEF Stage, At
  <2> QED
    BY <1>3, <2>2, <2>4
<1>5. CASE it = p + 3 /\ At("parameters") /\ Len(stack) = 2 /\ Top.node = n
  <2>1. NoParameters /\ Top.fn = "parameters" /\ "outputs" \in Fn
    BY <1>1, <1>5, OnlyStep DEF peek, At, Fn, SomeParameters
  <2>2. Become("outputs") /\ it' = p + 4 /\ mode' = "go" /\ nodes' = nodes
    BY <1>1, <1>5, <2>1 DEF NoParameters, Advance, At
  <2>3. Top'.fn = "outputs" /\ Top'.node = n /\ Len(stack') = 2
    BY <1>5, <2>1, <2>2, BecomeTop
  <2>4. Stage(p, n)'
    BY <2>2, <2>3 DEF Stage, At
  <2> QED
    BY <1>3, <2>2, <2>4
<1>6. CASE it = p + 4 /\ At("outputs") /\ Len(stack) = 2 /\ Top.node = n
  <2>1. parse_function_definition_outputs /\ Top.fn = "outputs" /\ "body" \in Fn /\ peek = "l_brace"
    BY <1>1, <1>6, OnlyStep DEF peek, At, Fn
  <2>2. Become("body") /\ it' = p + 4 /\ mode' = "go" /\ nodes' = nodes
    BY <1>1, <1>6, <2>1 DEF parse_function_definition_outputs, At
  <2>3. Top'.fn = "body" /\ Top'.node = n /\ Len(stack') = 2
    BY <1>6, <2>1, <2>2, BecomeTop
  <2>4. Stage(p, n)'
    BY <2>2, <2>3 DEF Stage, At
  <2> QED
    BY <1>3, <2>2, <2>4
<1>7. CASE it = p + 4 /\ At("body") /\ Len(stack) = 2 /\ Top.node = n
  <2>1. ExpectBody /\ peek = "l_brace"
    BY <1>1, <1>7, OnlyStep DEF peek
  <2>2. /\ BecomeAndCall("defined", Frame("block", Top.node, statement))
        /\ it' = p + 5 /\ mode' = "go" /\ nodes' = nodes
    BY <1>1, <1>7, <2>1 DEF ExpectBody, Advance, At
  <2>3. PICK f, g : f = [Top EXCEPT !.fn = "defined"] /\ g = Frame("block", Top.node, statement)
    OBVIOUS
  <2>4. stack \in Seq(AnyFrame) /\ Top \in AnyFrame /\ Top.node \in Nat
    BY Here DEF IInv, StackInv, AnyFrame
  <2>5. /\ f \in AnyFrame /\ f.fn = "defined" /\ f.node = n
        /\ g \in AnyFrame /\ g.fn = "block"
    <3>1. "defined" \in Fn /\ "block" \in Fn /\ Len(nodes) \in Nat
      BY Here DEF Fn
    <3>2. f \in AnyFrame /\ f.fn = "defined" /\ f.node = Top.node
      BY <2>3, <2>4, <3>1 DEF AnyFrame
    <3>3. g = Frame("block", n, statement)
      BY <1>7, <2>3
    <3>4. g \in AnyFrame /\ g.fn = "block"
      BY <3>1, <3>3, FillingFrame
    <3> QED
      BY <1>7, <3>2, <3>4
  <2>6. stack' = <<g, f>> \o Tail(stack)
    BY <2>2, <2>3 DEF BecomeAndCall
  <2>7. Top' = g /\ stack'[2] = f /\ Len(stack') = 3
    <3>1. PICK below, new : below = Tail(stack) /\ new = <<g, f>> \o below
      OBVIOUS
    <3>2. below \in Seq(AnyFrame) /\ Len(below) = 1
      BY <1>7, <2>4, <3>1
    <3>3. new[1] = g /\ new[2] = f /\ Len(new) = 3 /\ new \in Seq(AnyFrame)
      BY ONLY <2>5, <3>1, <3>2
    <3>4. stack' = new
      BY <2>6, <3>1
    <3>5. Head(new) = g
      BY ONLY <3>3
    <3> QED
      BY <3>3, <3>4, <3>5 DEF Top
  <2>8. Stage(p, n)'
    BY <2>2, <2>5, <2>7 DEF Stage, At
  <2> QED
    BY <1>3, <2>2, <2>8
<1>8. CASE it = p + 5 /\ At("block") /\ Len(stack) = 3 /\ stack[2].fn = "defined" /\ stack[2].node = n
  <2>1. CloseBlock
    BY <1>1, <1>8, OnlyStep DEF peek, parse_statement
  <2>2. Return(Top.node) /\ it' = p + 6 /\ nodes' = nodes
    BY <1>1, <1>8, <2>1 DEF CloseBlock, Advance
  <2>3. Top' = stack[2] /\ Len(stack') = 2 /\ mode' = "return"
    BY <1>8, <2>2, ReturnTop
  <2>4. Stage(p, n)'
    BY <1>8, <2>2, <2>3 DEF Stage, Receives
  <2> QED
    BY <1>3, <2>2, <2>4
<1>9. CASE it = p + 6 /\ Receives("defined") /\ Len(stack) = 2 /\ Top.node = n
  <2>1. ReturnDefinition
    BY <1>9, OnlyStep
  <2>2. Return(Top.node) /\ it' = p + 6 /\ nodes' = nodes
    BY <1>9, <2>1 DEF ReturnDefinition
  <2>3. Top' = stack[2] /\ stack[2].fn = "run" /\ mode' = "return" /\ value' = n
    BY <1>9, <2>2, ReturnTop
  <2>4. Stage(p, n)'
    BY <2>2, <2>3 DEF Stage, Receives
  <2> QED
    BY <1>3, <2>2, <2>4
<1>10. CASE it = p + 6 /\ Receives("run") /\ value = n
  <2>1. definitions' = Append(definitions, n) /\ nodes' = nodes
    BY <1>10, OnlyStep DEF PutDefinition
  <2>2. definitions \in Seq(Nat) /\ n \in Nat
    BY DEF IInv, ValueInv
  <2>3. Len(definitions') \in 1..Len(definitions') /\ definitions'[Len(definitions')] = n
    BY <2>1, <2>2
  <2>4. nodes'[definitions'[Len(definitions')]].offset = tokens'[p].offset
    BY <1>2, <2>1, <2>3
  <2> QED
    BY <2>3, <2>4 DEF IsDefined
<1> QED
  BY <1>4, <1>5, <1>6, <1>7, <1>8, <1>9, <1>10 DEF Stage

(***************************************************************************)
(* What has been accounted for stays so, and the step has only to account  *)
(* for the definitions it enters.                                          *)
(***************************************************************************)
LEMMA LossStep ==
  ASSUME IInv, LossInv, Next, Grows,
         \A p \in PlainDefinitions : p \in it..(it' - 1) => Explained(p)' \/ Underway(p)'
  PROVE  \A p \in PlainDefinitions' : p < it' => (IsDefined(p) \/ Explained(p) \/ Underway(p))'
<1>1. tokens' = tokens
  BY DEF Grows
<1>2. PlainDefinitions' = PlainDefinitions
  BY <1>1 DEF PlainDefinitions
<1> SUFFICES ASSUME NEW p \in PlainDefinitions, p < it'
             PROVE  IsDefined(p)' \/ Explained(p)' \/ Underway(p)'
  BY <1>2
<1>3. p \in Nat /\ it \in Nat
  BY PlainTokens, Here
<1>4. CASE IsDefined(p)
  <2>1. PICK i \in 1..Len(definitions) : nodes[definitions[i]].offset = tokens[p].offset
    BY <1>4 DEF IsDefined
  <2>2. i \in 1..Len(definitions') /\ definitions'[i] = definitions[i]
    <3>1. Len(definitions) \in Nat
      BY DEF IInv, ValueInv
    <3> QED
      BY <3>1 DEF Grows
  <2>3. definitions[i] \in 1..Len(nodes)
    BY DEF IInv, ValueInv
  <2>4. nodes'[definitions[i]].offset = nodes[definitions[i]].offset
    BY <2>3 DEF Grows, Preserves
  <2> QED
    BY <1>1, <2>1, <2>2, <2>4 DEF IsDefined
<1>5. CASE Explained(p)
  <2>1. PICK i \in 1..Len(reports) : Unbroken(reports[i].at, p)
    BY <1>5 DEF Explained
  <2>2. i \in 1..Len(reports') /\ reports'[i] = reports[i]
    <3>1. Len(reports) \in Nat
      BY DEF IInv, OrderInv
    <3> QED
      BY <3>1 DEF Grows
  <2>3. Unbroken(reports[i].at, p)'
    BY <1>1, <2>1, <2>2 DEF Unbroken
  <2> QED
    BY <2>2, <2>3 DEF Explained
<1>6. CASE Underway(p)
  <2>1. PICK n \in 1..Len(nodes) : nodes[n].offset = tokens[p].offset /\ Stage(p, n)
    BY <1>6 DEF Underway
  <2> QED
    BY <2>1, StageStep
<1>7. CASE p < it
  BY <1>4, <1>5, <1>6, <1>7 DEF LossInv
<1>8. CASE ~(p < it)
  <2>1. PICK c : c = it'
    OBVIOUS
  <2>2. c \in Int
    <3>1. IInv'
      BY NextPreserves
    <3> QED
      BY <2>1, <3>1 DEF IInv, CursorInv
  <2>3. p < c
    BY <2>1
  <2>4. p \in it..(c - 1)
    BY ONLY <1>3, <1>8, <2>2, <2>3
  <2> QED
    BY <2>1, <2>4
<1> QED
  BY <1>7, <1>8

(* Such steps keep the invariant. *)
LEMMA HarmlessKeeps ==
  ASSUME IInv, LossInv, Next, Harmless
  PROVE  LossInv'
<1>1. /\ Grows /\ mode' # "done"
      /\ mode' = "throw" => reports' # <<>> /\ reports'[Len(reports')].at = it'
  BY DEF Harmless
<1>2. ASSUME NEW p \in PlainDefinitions, p \in it..(it' - 1) PROVE FALSE
  <2>1. tokens[p].kind = "kw_private"
    BY PlainTokens
  <2> QED
    BY <1>2, <2>1 DEF Harmless
<1>3. \A p \in PlainDefinitions' : p < it' => (IsDefined(p) \/ Explained(p) \/ Underway(p))'
  BY <1>1, <1>2, LossStep
<1>4. ASSUME mode' = "throw" PROVE Unbroken(reports[Len(reports)].at, it)'
  <2>1. it' \in Nat
    <3>1. IInv'
      BY NextPreserves
    <3> QED
      BY <3>1, InputsAssumption DEF IInv, CursorInv
  <2>2. PICK c : c = it'
    OBVIOUS
  <2>3. c <= c /\ \A k \in c..(c - 1) : FALSE
    <3>1. c \in Nat
      BY <2>1, <2>2
    <3> QED
      BY ONLY <3>1
  <2>4. reports'[Len(reports')].at = c
    BY <1>1, <1>4, <2>2
  <2> QED
    BY <2>2, <2>3, <2>4 DEF Unbroken
<1> QED
  BY <1>1, <1>3, <1>4 DEF LossInv

(* run reaches the end, or a definition begins. *)
LEMMA RunLoss ==
  ASSUME IInv, LossInv, FinishRun \/ parse_definition
  PROVE  LossInv'
<1>1. CASE FinishRun
  <2>1. /\ it' = it /\ peek = "end_of_file" /\ mode' = "done"
        /\ UNCHANGED <<tokens, nodes, definitions, reports>>
    BY <1>1 DEF FinishRun
  <2>2. it = Len(tokens) /\ it \in Nat /\ Preserves(nodes')
    BY <2>1, Here, SamePreserved
  <2>3. Grows
    BY <2>1, <2>2 DEF Grows, IInv, ValueInv, OrderInv
  <2>4. \A p \in it..(it' - 1) : FALSE
    <3>1. PICK c : c = it'
      OBVIOUS
    <3>2. \A p \in it..(c - 1) : FALSE
      BY <2>1, <2>2, <3>1
    <3> QED
      BY <3>1, <3>2
  <2>5. Next
    BY <1>1 DEF Next, DefinitionStep
  <2>6. \A p \in PlainDefinitions' : p < it' => (IsDefined(p) \/ Explained(p) \/ Underway(p))'
    BY <2>3, <2>4, <2>5, LossStep
  <2>7. mode' # "throw" /\ it' = Len(tokens')
    BY <2>1, <2>2
  <2> QED
    BY <2>6, <2>7 DEF LossInv
<1>2. CASE parse_definition
  <2> DEFINE named == IF peek \in DOMAIN Modifier THEN After(it) ELSE it
             access == IF peek \in DOMAIN Modifier THEN Modifier[peek] ELSE "none"
  <2>1. Next /\ At("run") /\ mode = "go" /\ Top.fn = "run"
    BY <1>2 DEF Next, DefinitionStep, parse_definition, At
  <2>2. "kw_private" \in DOMAIN Modifier
    BY DEF Modifier
  <2>3. CASE /\ tokens[named].kind = "identifier"
             /\ Create(Node("function_def", access, tokens[it].offset, <<>>))
             /\ it' = After(named)
             /\ Call(Frame("signature", NewId, statement))
             /\ UNCHANGED <<tokens, mode, value, definitions, reports>>
    <3>1. PICK node : node = Node("function_def", access, tokens[it].offset, <<>>)
      OBVIOUS
    <3>2. node.offset = tokens[it].offset /\ nodes' = Append(nodes, node)
      BY <2>3, <3>1 DEF Node, Create
    <3> HIDE DEF access
    <3>3. Preserves(nodes') /\ nodes \in Seq(AnyNode)
      BY <3>2, NewPreserved DEF IInv, NodesInv, ArenaOK
    <3>4. PICK n : n = NewId /\ n \in 1..Len(nodes') /\ nodes'[n] = node
      BY <3>2, <3>3 DEF NewId
    <3>5. Grows
      BY <2>3, <3>3 DEF Grows, IInv, ValueInv, OrderInv
    <3>6. ASSUME NEW p \in PlainDefinitions, p \in it..(it' - 1) PROVE Underway(p)'
      <4>1. /\ p \in Nat /\ tokens[p].kind = "kw_private" /\ tokens[p + 1].kind = "identifier"
            /\ After(p) = p + 1 /\ After(p + 1) = p + 2
        BY PlainTokens
      <4>2. it \in Nat /\ (After(it) = it \/ After(it) = it + 1)
        BY Here DEF After
      <4>3. PICK c : c = it'
        OBVIOUS
      <4>4. p \in it..(c - 1)
        BY <3>6, <4>3
      <4>5. p = it
        <5>1. p # named
          BY <2>3, <4>1
        <5>2. CASE named = it
          <6>1. c = After(it)
            BY <2>3, <4>3, <5>2
          <6> QED
            BY <4>2, <4>4, <6>1
        <5>3. CASE named # it
          <6>1. PICK a : a = named
            OBVIOUS
          <6>2. a = it + 1 /\ c = After(a) /\ p # a
            BY <2>3, <4>2, <4>3, <5>1, <5>3, <6>1
          <6>3. c = a \/ c = a + 1
            BY <6>2 DEF After
          <6> QED
            BY ONLY <4>1, <4>2, <4>4, <6>2, <6>3
        <5> QED
          BY <5>2, <5>3
      <4>6. named = p + 1
        BY <2>2, <4>1, <4>5 DEF peek
      <4>7. it' = p + 2
        BY <2>3, <4>1, <4>6
      <4>8. PICK f : f = Frame("signature", n, statement)
        OBVIOUS
      <4>9. f.fn = "signature" /\ f.node = n /\ stack' = <<f>> \o stack
        BY <2>3, <3>4, <4>8 DEF Frame, Call
      <4>10. stack \in Seq(AnyFrame) /\ Len(stack) = 1
        <5>1. stack \in Seq(AnyFrame) /\ Len(stack) > 0
          BY DEF IInv, StackInv
        <5>2. Len(stack) \in Nat
          BY <5>1
        <5>3. ~(Len(stack) > 1)
          BY <2>1, Here
        <5>4. PICK k \in Nat : k = Len(stack)
          BY <5>2
        <5>5. k > 0 /\ ~(k > 1)
          BY <5>1, <5>3, <5>4
        <5>6. k = 1
          BY ONLY <5>4, <5>5
        <5> QED
          BY <5>1, <5>4, <5>6, Zenon
      <4>11. f \in AnyFrame
        <5>1. "signature" \in Fn /\ n \in 1..Len(nodes') /\ Len(nodes') \in Nat
          BY <3>3, <3>4 DEF Fn, Preserves
        <5> QED
          BY <4>8, <5>1, FillingFrame
      <4>12. Top' = f /\ Len(stack') = 2
        <5>1. PICK new : new = <<f>> \o stack
          OBVIOUS
        <5>2. Head(new) = f /\ Len(new) = 2
          <6>1. new \in Seq(AnyFrame) /\ Len(new) = Len(<<f>>) + Len(stack) /\ new[1] = f
            BY <4>10, <4>11, <5>1
          <6>2. Len(new) = 2
            BY <4>10, <6>1
          <6>3. Head(new) = new[1]
            BY <6>1, <6>2
          <6> QED
            BY <6>1, <6>2, <6>3, Zenon
        <5> QED
          BY <4>9, <5>1, <5>2 DEF Top
      <4>13. Stage(p, n)'
        <5>1. mode' = "go"
          BY <2>1, <2>3
        <5>2. At("signature")' /\ Top'.node = n
          BY <4>9, <4>12, <5>1 DEF At
        <5> QED
          BY <4>7, <4>12, <5>2 DEF Stage
      <4> QED
        BY <2>3, <3>2, <3>4, <4>5, <4>13 DEF Underway
    <3>7. \A p \in PlainDefinitions' : p < it' => (IsDefined(p) \/ Explained(p) \/ Underway(p))'
      BY <2>1, <3>5, <3>6, LossStep
    <3>8. mode' # "throw" /\ mode' # "done"
      BY <2>1, <2>3
    <3> QED
      BY <3>7, <3>8 DEF LossInv
  <2>4. CASE /\ tokens[named].kind # "identifier"
             /\ FailAt("expect_function_struct_or_enum", named, nodes)
    \* A plain definition does not fail here.
    <3>1. PICK a : a = named
      OBVIOUS
    <3>2. /\ tokens[a].kind # "identifier" /\ FailAt("expect_function_struct_or_enum", a, nodes)
          /\ a = it \/ a = After(it)
      BY <2>4, <3>1
    <3>3. it' = a /\ it \in Nat /\ (After(it) = it \/ After(it) = it + 1)
      BY <3>2, Here DEF FailAt, After
    <3>4. ASSUME NEW p \in PlainDefinitions, p \in it..(it' - 1) PROVE FALSE
      <4>1. p \in it..(a - 1)
        BY <3>3, <3>4
      <4>2. p = it /\ a = it + 1
        BY <3>2, <3>3, <4>1
      <4>3. tokens[p + 1].kind = "identifier"
        BY PlainTokens
      <4> QED
        BY <3>2, <4>2, <4>3
    <3> HIDE DEF named
    <3>5. Grows /\ mode' = "throw" /\ reports' # <<>> /\ reports'[Len(reports')].at = it'
      <4>1. /\ mode' = "throw" /\ tokens' = tokens /\ definitions' = definitions /\ nodes' = nodes
        BY <3>2 DEF FailAt
      <4>2. PICK report : report = [message |-> "expect_function_struct_or_enum", at |-> a]
        OBVIOUS
      <4>3. report.at = a /\ reports' = Append(reports, report)
        BY <3>2, <4>2 DEF FailAt, ReportAt
      <4>4. reports \in Seq([message : Message, at : Nat]) /\ Len(definitions) \in Nat
        BY DEF IInv, OrderInv, ValueInv
      <4>5. /\ Len(reports') = Len(reports) + 1 /\ Len(reports) \in Nat
            /\ reports'[Len(reports')] = report /\ \A i \in 1..Len(reports) : reports'[i] = reports[i]
        BY <4>3, <4>4
      <4>6. reports' # <<>>
        BY <4>5
      <4>7. Grows
        BY <4>1, <4>4, <4>5, SamePreserved DEF Grows
      <4> QED
        BY <3>3, <4>1, <4>3, <4>5, <4>6, <4>7
    <3>6. \A p \in PlainDefinitions' : p < it' => (IsDefined(p) \/ Explained(p) \/ Underway(p))'
      BY <2>1, <3>4, <3>5, LossStep
    <3>7. Unbroken(reports[Len(reports)].at, it)'
      <4>1. a \in Nat
        BY <3>2, <3>3
      <4>2. a <= a /\ \A k \in a..(a - 1) : FALSE
        BY <4>1
      <4>3. reports'[Len(reports')].at = a /\ it' = a
        BY <3>3, <3>5
      <4> QED
        BY <4>2, <4>3 DEF Unbroken
    <3> QED
      BY <3>5, <3>6, <3>7 DEF LossInv
  <2> QED
    BY <1>2, <2>3, <2>4 DEF parse_definition
<1> QED
  BY <1>1, <1>2

(* The report that is being handled explains the definition at the cursor, if recovery passes it. *)
LEMMA ThrownExplains ==
  ASSUME IInv, LossInv, mode = "throw", NEW p \in PlainDefinitions, p = it,
         tokens' = tokens, reports' = reports
  PROVE  Explained(p)'
<1>1. tokens[p].kind = "kw_private"
  BY PlainTokens
<1>2. peek \in recovery_tokens
  BY <1>1 DEF peek, recovery_tokens
<1>3. Unbroken(reports[Len(reports)].at, p) /\ reports # <<>>
  BY <1>2 DEF LossInv
<1>4. Len(reports) \in 1..Len(reports)
  <2>1. reports \in Seq([message : Message, at : Nat])
    BY DEF IInv, OrderInv
  <2> QED
    BY <1>3, <2>1
<1>5. Unbroken(reports[Len(reports)].at, p)'
  BY <1>3 DEF Unbroken
<1> QED
  BY <1>4, <1>5 DEF Explained

(* Each round of recovery, and leaving a function. *)
LEMMA RecoveryLoss ==
  ASSUME IInv, LossInv, RecoveryStep
  PROVE  LossInv'
<1>1. /\ mode = "throw" /\ UNCHANGED <<tokens, nodes, definitions, reports>>
      /\ it' = it \/ it' = After(it)
      /\ mode' \in {"go", "return", "throw"}
  BY DEF RecoveryStep, recover_at_definition_level, recover_at_statement_level, Unwind, Advance, Return
<1>2. Next
  BY DEF Next
<1>3. it \in Nat /\ (After(it) = it \/ After(it) = it + 1)
  BY Here DEF After
<1>4. Grows
  BY <1>1, SamePreserved DEF Grows, IInv, ValueInv, OrderInv
<1>5. ASSUME NEW p \in PlainDefinitions, p \in it..(it' - 1) PROVE Explained(p)'
  <2>1. PICK c : c = it'
    OBVIOUS
  <2>2. p \in it..(c - 1) /\ (c = it \/ c = it + 1)
    BY <1>1, <1>3, <1>5, <2>1
  <2>3. p = it
    BY ONLY <1>3, <2>2
  <2> QED
    BY <1>1, <2>3, ThrownExplains
<1>6. \A p \in PlainDefinitions' : p < it' => (IsDefined(p) \/ Explained(p) \/ Underway(p))'
  BY <1>2, <1>4, <1>5, LossStep
<1>7. reports' # <<>> /\ mode' # "done"
  BY <1>1 DEF LossInv
<1>8. ASSUME mode' = "throw"
      PROVE  Unbroken(reports[Len(reports)].at, it)' \/ (Top.fn = "run" /\ peek \notin recovery_tokens)'
  <2>1. CASE recover_at_definition_level
    <3>1. it' = After(it) /\ tokens[After(it)].kind \notin recovery_tokens /\ Top.fn = "run" /\ stack' = stack
      BY <1>8, <2>1 DEF recover_at_definition_level, Advance
    <3> QED
      BY <1>1, <3>1 DEF peek, Top, recovery_tokens
  <2>2. PICK q : q = reports[Len(reports)].at
    OBVIOUS
  <2>3. q \in Nat
    <3>1. reports \in Seq([message : Message, at : Nat]) /\ reports # <<>>
      BY <1>1 DEF IInv, OrderInv, LossInv
    <3>2. PICK R, list : R = [message : Message, at : Nat] /\ list = reports
      OBVIOUS
    <3>3. list \in Seq(R) /\ list # <<>>
      BY <3>1, <3>2
    <3>4. list[Len(list)] \in R
      BY ONLY <3>3
    <3> QED
      BY <2>2, <3>2, <3>4
  <2>4. CASE Top.fn # "run"
    <3>1. q <= it /\ \A k \in q..(it - 1) : tokens[k].kind \notin {"semicolon", "r_brace"}
      BY <1>1, <2>2, <2>4 DEF LossInv, Unbroken
    <3>2. it' = it \/ (it' = After(it) /\ tokens[it].kind \notin {"semicolon", "r_brace"})
      BY <1>8, <2>4 DEF RecoveryStep, recover_at_definition_level, recover_at_statement_level, Unwind, Advance, peek
    <3>3. PICK c : c = it'
      OBVIOUS
    <3>4. c = it \/ (c = it + 1 /\ tokens[it].kind \notin {"semicolon", "r_brace"})
      BY <1>3, <3>2, <3>3
    <3>5. ASSUME NEW k \in q..(c - 1) PROVE k \in q..(it - 1) \/ (k = it /\ c # it)
      BY ONLY <1>3, <2>3, <3>4, <3>5
    <3>6. q <= c
      BY ONLY <1>3, <2>3, <3>1, <3>4
    <3>7. \A k \in q..(c - 1) : tokens[k].kind \notin {"semicolon", "r_brace"}
      BY <3>1, <3>4, <3>5
    <3>8. reports'[Len(reports')].at = q /\ tokens' = tokens
      BY <1>1, <2>2
    <3> QED
      BY <3>3, <3>6, <3>7, <3>8 DEF Unbroken
  <2> QED
    BY <2>1, <2>4 DEF RecoveryStep, recover_at_statement_level, Unwind
<1> QED
  BY <1>6, <1>7, <1>8 DEF LossInv

(* A step that changes nothing. *)
LEMMA StutterLoss ==
  ASSUME LossInv, UNCHANGED vars
  PROVE  LossInv'
<1>1. UNCHANGED <<tokens, it, stack, mode, value, nodes, definitions, reports>>
  BY DEF vars
<1>2. PlainDefinitions' = PlainDefinitions /\ Top' = Top /\ peek' = peek
  BY <1>1 DEF PlainDefinitions, Top, peek
<1>3. ASSUME NEW p PROVE IsDefined(p)' = IsDefined(p) /\ Explained(p)' = Explained(p)
  BY <1>1 DEF IsDefined, Explained, Unbroken
<1>4. ASSUME NEW p PROVE Underway(p)' = Underway(p)
  BY <1>1 DEF Underway, Stage, At, Receives, Top
<1>5. Unbroken(reports[Len(reports)].at, it)' = Unbroken(reports[Len(reports)].at, it)
  BY <1>1 DEF Unbroken
<1> QED
  BY <1>1, <1>2, <1>3, <1>4, <1>5 DEF LossInv, recovery_tokens

(* No token has been passed. *)
LEMMA InitLoss ==
  ASSUME Init
  PROVE  LossInv
<1>1. it = 1 /\ mode = "go"
  BY DEF Init
<1>2. \A p \in PlainDefinitions : ~(p < it)
  BY <1>1 DEF PlainDefinitions
<1> QED
  BY <1>1, <1>2 DEF LossInv

(* Every step leaves each plain definition that was entered in sight. *)
LEMMA NextLoss ==
  ASSUME IInv, LossInv, Next
  PROVE  LossInv'
<1>1. CASE StatementStep \/ HeadStep \/ TailStep
  BY <1>1, StatementHarmless, HeadHarmless, TailHarmless, HarmlessKeeps
<1>2. CASE DefinitionStep
  <2>1. CASE FinishRun \/ parse_definition
    BY <2>1, RunLoss
  <2>2. CASE ~(FinishRun \/ parse_definition)
    <3>1. Harmless
      BY <1>2, <2>2, SignatureHarmless, BodyHarmless DEF DefinitionStep
    <3> QED
      BY <3>1, HarmlessKeeps
  <2> QED
    BY <2>1, <2>2
<1>3. CASE RecoveryStep
  BY <1>3, RecoveryLoss
<1>4. CASE UNCHANGED vars
  BY <1>4, StutterLoss
<1> QED
  BY <1>1, <1>2, <1>3, <1>4 DEF Next, Returned

(***************************************************************************)
(* The parser loses sight of no plain definition: each one that the cursor *)
(* has entered is in the tree, on its way there, or explained.             *)
(***************************************************************************)
THEOREM LossInvariance == Spec => []LossInv
<1>1. Init => LossInv
  BY InitLoss
<1>2. IInv /\ LossInv /\ [Next]_vars => LossInv'
  BY NextLoss, StutterLoss
<1>3. Spec => []IInv
  BY Inductive
<1> QED
  BY <1>1, <1>2, <1>3, PTL DEF Spec

(* At the end nothing is underway any more. *)
LEMMA InvExplains ==
  ASSUME IInv, LossInv
  PROVE  RecoveryLosesLittle
<1> SUFFICES ASSUME mode = "done", NEW p \in PlainDefinitions, ~IsDefined(p)
             PROVE  Explained(p)
  BY DEF RecoveryLosesLittle
<1>1. p \in Nat /\ p + 6 <= Len(tokens) /\ Len(tokens) \in Nat
  BY PlainTokens, Here
<1>2. it = Len(tokens)
  BY DEF LossInv
<1>3. p < it
  BY <1>1, <1>2
<1>4. ~Underway(p)
  BY DEF Underway, Stage, At, Receives
<1> QED
  BY <1>3, <1>4 DEF LossInv

(***************************************************************************)
(* For lists of every length and nesting: a well-formed private definition *)
(* that is missing from the tree is explained by a report about its own    *)
(* modifier or about a token before it in the same statement.  Neither     *)
(* recovery runs over a definition it has no error for, also after other   *)
(* errors and with blocks still open.                                      *)
(***************************************************************************)
THEOREM LossesAreExplained == Spec => []RecoveryLosesLittle
<1>1. IInv /\ LossInv => RecoveryLosesLittle
  BY InvExplains
<1>2. Spec => []IInv
  BY Inductive
<1>3. Spec => []LossInv
  BY LossInvariance
<1> QED
  BY <1>1, <1>2, <1>3, PTL

-----------------------------------------------------------------------------
(* The end of an accepted list *)

(* No definition is underway: run goes on, or a definition has just been parsed. *)
Between == At("run") \/ Receives("run") \/ Receives("defined") \/ mode = "done"

(* Nothing has been passed, or a closing brace last. *)
AfterBrace == it = 1 \/ tokens[it - 1].kind = "r_brace"

(* As long as nothing was reported, definitions are complete when they are left. *)
BraceInv == reports = <<>> /\ Between => AfterBrace

(* The frame on top after a call, or after a function goes on at another point. *)
LEMMA OnTop ==
  ASSUME NEW f, NEW rest, stack' = <<f>> \o rest \/ (\E g : stack' = <<f, g>> \o rest)
                          \/ (\E g, h : stack' = <<f, g, h>> \o rest),
         rest \in Seq(AnyFrame)
  PROVE  Top' = f
<1>1. CASE stack' = <<f>> \o rest
  BY <1>1 DEF Top
<1>2. ASSUME NEW g, stack' = <<f, g>> \o rest PROVE Top' = f
  BY <1>2 DEF Top
<1>3. ASSUME NEW g, NEW h, stack' = <<f, g, h>> \o rest PROVE Top' = f
  BY <1>3 DEF Top
<1> QED
  BY <1>1, <1>2, <1>3

(* A function that fails reports it. *)
LEMMA FailReports ==
  ASSUME IInv, NEW message, NEW p, NEW arena, FailAt(message, p, arena)
  PROVE  reports' # <<>>
<1>1. reports \in Seq([message : Message, at : Nat])
  BY DEF IInv, OrderInv
<1>2. PICK report : report = [message |-> message, at |-> p]
  OBVIOUS
<1>3. reports' = Append(reports, report)
  BY <1>2 DEF FailAt, ReportAt
<1>4. Len(reports') = Len(reports) + 1 /\ Len(reports) \in Nat
  BY <1>1, <1>3
<1> QED
  BY <1>4

(* A step after which a definition is underway. *)
Within == mode' = "go" /\ Top'.fn # "run"

(* Each step of a signature fails or stays in the definition. *)
LEMMA SignatureWithin ==
  ASSUME IInv,
         \/ ExpectParen \/ NoParameters \/ SomeParameters \/ parse_function_definition_parameter
         \/ MoreParameters \/ parse_function_definition_outputs
         \/ parse_function_definition_output \/ MoreOutputs
  PROVE  reports' # <<>> \/ Within
<1>1. mode = "go" /\ Top.fn \in SignatureFn
  BY DEF ExpectParen, NoParameters, SomeParameters, parse_function_definition_parameter,
         MoreParameters, parse_function_definition_outputs, parse_function_definition_output,
         MoreOutputs, At, SignatureFn
<1>2. Top.fn # "run" /\ SignatureFn \subseteq Fn /\ "run" \notin SignatureFn
  BY <1>1 DEF SignatureFn, Fn
<1>3. ASSUME NEW fn \in SignatureFn, Become(fn), mode' = mode PROVE Within
  BY <1>1, <1>2, <1>3, BecomeTop DEF Within
<1>4. \/ \E message, p, arena : FailAt(message, p, arena)
      \/ \E fn \in SignatureFn : Become(fn) /\ mode' = mode
  BY DEF ExpectParen, NoParameters, SomeParameters, parse_function_definition_parameter,
         MoreParameters, parse_function_definition_outputs, parse_function_definition_output,
         MoreOutputs, Expect, Fail, SignatureFn
<1> QED
  BY <1>3, <1>4, FailReports

(* A function that a definition calls returns within the definition, unless it is its block. *)
LEMMA ReturnsWithin ==
  ASSUME IInv, TInv, NEW node, Return(node),
         Top.fn \in {"expression", "tail", "operand", "arguments", "return_values", "statement"}
  PROVE  mode' = "return" /\ Top'.fn \notin {"run", "defined"}
<1>1. stack \in Seq(AnyFrame) /\ Len(stack) > 1 /\ Len(stack) \in Nat
  BY Here DEF IInv, StackInv
<1>2. Top' = stack[2] /\ mode' = "return"
  BY <1>1, ReturnTop
<1>3. FrameAt(stack, Len(stack)) = Top /\ FrameAt(stack, Len(stack) - 1) = stack[2]
  BY <1>1 DEF FrameAt, Top
<1>4. Link(nodes, stack[2], Top)
  <2>1. Len(stack) \in 1..Len(stack)
    BY <1>1
  <2> QED
    BY <1>1, <1>3, <2>1 DEF TInv, FramesInv
<1>5. stack[2].fn \in {"statement", "operand", "arguments", "return_values", "tail", "block"}
  BY <1>4 DEF Link
<1> QED
  BY <1>2, <1>5

(* Each step at the head of an expression fails or stays in the definition. *)
LEMMA HeadWithin ==
  ASSUME IInv, HeadStep
  PROVE  reports' # <<>> \/ Within
<1>1. stack \in Seq(AnyFrame) /\ Tail(stack) \in Seq(AnyFrame)
  BY DEF IInv, StackInv
<1>2. CASE ExpressionMissing
  BY <1>2, FailReports DEF ExpressionMissing, Fail
<1>3. CASE on_leaf \/ on_prefix_left_brace \/ on_kw_return \/ on_prefix_operator
  <2>1. mode' = "go" /\ Top.fn = "expression" /\ Top \in AnyFrame
    BY <1>3, Here DEF on_leaf, on_prefix_left_brace, on_kw_return, on_prefix_operator, At
  <2>2. \E f : /\ \/ stack' = <<f>> \o Tail(stack)
                  \/ \E g : stack' = <<f, g>> \o Tail(stack)
                  \/ \E g, h : stack' = <<f, g, h>> \o Tail(stack)
               /\ \/ \E id : f = [Top EXCEPT !.fn = "tail", !.node = id]
                  \/ \E id : f = Frame("block", id, statement)
                  \/ \E precedence : f = Expression(precedence)
    BY <1>3 DEF on_leaf, on_prefix_left_brace, on_kw_return, on_prefix_operator, HeadIs, BecomeAndCall
  <2>3. PICK f : /\ Top' = f
                 /\ \/ \E id : f = [Top EXCEPT !.fn = "tail", !.node = id]
                    \/ \E id : f = Frame("block", id, statement)
                    \/ \E precedence : f = Expression(precedence)
    BY <1>1, <2>2, OnTop
  <2>4. f.fn \in {"tail", "block", "expression"}
    <3>1. ASSUME NEW id, f = [Top EXCEPT !.fn = "tail", !.node = id] PROVE f.fn = "tail"
      BY <2>1, <3>1 DEF AnyFrame
    <3>2. ASSUME NEW id, f = Frame("block", id, statement) PROVE f.fn = "block"
      BY <3>2 DEF Frame
    <3>3. ASSUME NEW precedence, f = Expression(precedence) PROVE f.fn = "expression"
      BY <3>3 DEF Frame, Expression
    <3> QED
      BY <2>3, <3>1, <3>2, <3>3
  <2> QED
    BY <2>1, <2>3, <2>4 DEF Within
<1> QED
  BY <1>2, <1>3 DEF HeadStep

(* And each step in the loop of parse_expression, or it returns there. *)
LEMMA TailWithin ==
  ASSUME IInv, TInv, TailStep
  PROVE  reports' # <<>> \/ Within \/ (mode' = "return" /\ Top'.fn \notin {"run", "defined"})
<1>1. stack \in Seq(AnyFrame) /\ Tail(stack) \in Seq(AnyFrame) /\ Top \in AnyFrame
  BY Here DEF IInv, StackInv
<1>2. CASE GoOnWith \/ on_postfix_operator
  <2>1. mode' = "go" /\ \E id : HeadIs(id)
    BY <1>2 DEF GoOnWith, on_postfix_operator, Continue, At
  <2>2. PICK id : stack' = <<[Top EXCEPT !.fn = "tail", !.node = id]>> \o Tail(stack)
    BY <2>1 DEF HeadIs
  <2>3. Top' = [Top EXCEPT !.fn = "tail", !.node = id]
    BY <1>1, <2>2, OnTop
  <2> QED
    BY <1>1, <2>1, <2>3 DEF Within, AnyFrame
<1>3. CASE EndExpression \/ TakeOperand
  <2>1. Return(Top.node) /\ Top.fn \in {"tail", "operand"}
    BY <1>3 DEF EndExpression, TakeOperand, At, Receives
  <2> QED
    BY <2>1, ReturnsWithin
<1>4. CASE on_binary_operator \/ on_infix_left_paren
  <2>1. mode' = "go"
    BY <1>4 DEF on_binary_operator, on_infix_left_paren, At
  <2>2. \/ \E precedence, g : stack' = <<Expression(precedence), g>> \o stack
        \/ \E id : stack' = <<[Top EXCEPT !.fn = "tail", !.node = id]>> \o Tail(stack)
    BY <1>4 DEF on_binary_operator, on_infix_left_paren, HeadIs
  <2>3. ASSUME NEW precedence, NEW g, stack' = <<Expression(precedence), g>> \o stack PROVE Within
    <3>1. Top' = Expression(precedence)
      BY <1>1, <2>3, OnTop
    <3> QED
      BY <2>1, <3>1 DEF Within, Expression, Frame
  <2>4. ASSUME NEW id, stack' = <<[Top EXCEPT !.fn = "tail", !.node = id]>> \o Tail(stack) PROVE Within
    <3>1. Top' = [Top EXCEPT !.fn = "tail", !.node = id]
      BY <1>1, <2>4, OnTop
    <3> QED
      BY <1>1, <2>1, <3>1 DEF Within, AnyFrame
  <2> QED
    BY <2>2, <2>3, <2>4
<1>5. CASE TakeReturnValue \/ TakeArgument
  <2>1. Top.fn \in {"return_values", "arguments"}
    BY <1>5 DEF TakeReturnValue, TakeArgument, Receives
  <2>2. \/ Call(Expression(statement)) /\ Continue
        \/ Return(Top.node)
        \/ \E message, p, arena : FailAt(message, p, arena)
    BY <1>5 DEF TakeReturnValue, TakeArgument
  <2>3. CASE Call(Expression(statement)) /\ Continue
    <3>1. Top' = Expression(statement)
      BY <1>1, <2>3, OnTop DEF Call
    <3> QED
      BY <2>3, <3>1 DEF Within, Expression, Frame, Continue
  <2> QED
    BY <2>1, <2>2, <2>3, ReturnsWithin, FailReports
<1> QED
  BY <1>2, <1>3, <1>4, <1>5 DEF TailStep

(* A step that ends no definition keeps the invariant. *)
LEMMA WithinKeeps ==
  ASSUME \/ reports' # <<>> \/ Within
         \/ mode' = "return" /\ Top'.fn \notin {"run", "defined"}
  PROVE  BraceInv'
BY DEF BraceInv, Between, Within, At, Receives

(* So does one that stays between definitions. *)
LEMMA BetweenKeeps ==
  ASSUME BraceInv, Between, UNCHANGED <<tokens, it, reports>>
  PROVE  BraceInv'
BY DEF BraceInv, AfterBrace

(* Every step keeps it. *)
LEMMA NextBrace ==
  ASSUME IInv, TInv, ShiftInv, BraceInv, Next
  PROVE  BraceInv'
<1>1. stack \in Seq(AnyFrame) /\ Tail(stack) \in Seq(AnyFrame) /\ Top \in AnyFrame
  BY Here DEF IInv, StackInv
<1>2. CASE FinishRun \/ PutDefinition \/ ReturnDefinition \/ Returned
  <2>1. Between /\ UNCHANGED <<tokens, it, reports>>
    BY <1>2 DEF FinishRun, PutDefinition, ReturnDefinition, Returned, Between, vars
  <2> QED
    BY <2>1, BetweenKeeps
<1>3. CASE parse_definition
  <2>1. CASE Call(Frame("signature", NewId, statement)) /\ mode' = mode
    <3>1. Top' = Frame("signature", NewId, statement) /\ mode' = "go"
      BY <1>1, <1>3, <2>1, OnTop DEF Call, parse_definition, At
    <3> QED
      BY <3>1, WithinKeeps DEF Within, Frame
  <2>2. CASE \E message, p, arena : FailAt(message, p, arena)
    BY <2>2, FailReports, WithinKeeps
  <2> QED
    BY <1>3, <2>1, <2>2 DEF parse_definition
<1>4. CASE ExpectBody
  <2>1. CASE BecomeAndCall("defined", Frame("block", Top.node, statement)) /\ mode' = mode
    <3>1. Top' = Frame("block", Top.node, statement) /\ mode' = "go"
      BY <1>1, <1>4, <2>1, OnTop DEF BecomeAndCall, ExpectBody, At
    <3> QED
      BY <3>1, WithinKeeps DEF Within, Frame
  <2>2. CASE \E message, p, arena : FailAt(message, p, arena)
    BY <2>2, FailReports, WithinKeeps
  <2> QED
    BY <1>4, <2>1, <2>2 DEF ExpectBody, Fail
<1>5. CASE DefinitionStep
  BY <1>2, <1>3, <1>4, <1>5, SignatureWithin, WithinKeeps DEF DefinitionStep
<1>6. CASE CloseBlock
  <2>1. peek = "r_brace" /\ it' = After(it) /\ tokens' = tokens
    BY <1>6 DEF CloseBlock, Advance
  <2>2. it \in Nat /\ it' = it + 1
    BY <2>1, Here
  <2>3. it' - 1 = it
    BY <2>2
  <2> QED
    BY <2>1, <2>3 DEF BraceInv, AfterBrace, peek
<1>7. CASE parse_statement
  <2>1. mode' = "go"
    BY <1>7 DEF parse_statement, At
  <2>2. \/ Call(Frame("block", NewId, statement))
        \/ stack' = <<Expression(statement), Frame("statement", 0, statement)>> \o stack
    BY <1>7 DEF parse_statement
  <2>3. Top' = Frame("block", NewId, statement) \/ Top' = Expression(statement)
    BY <1>1, <2>2, OnTop DEF Call
  <2> QED
    BY <2>1, <2>3, WithinKeeps DEF Within, Expression, Frame
<1>8. CASE ExpectSemicolon
  <2>1. Top.fn = "statement"
    BY <1>8 DEF ExpectSemicolon, Receives
  <2> QED
    BY <1>8, <2>1, ReturnsWithin, FailReports, WithinKeeps DEF ExpectSemicolon, Fail
<1>9. CASE PutStatement
  <2>1. Top.fn = "block" /\ stack' = stack /\ mode' = "go"
    BY <1>9 DEF PutStatement, Receives, Continue
  <2> QED
    BY <2>1, WithinKeeps DEF Within, Top
<1>10. CASE RecoveryStep
  <2>1. mode = "throw" /\ reports' = reports
    BY <1>10 DEF RecoveryStep, recover_at_definition_level, recover_at_statement_level, Unwind
  <2> QED
    BY <2>1, WithinKeeps DEF ShiftInv
<1>11. CASE HeadStep \/ TailStep
  BY <1>11, HeadWithin, TailWithin, WithinKeeps
<1> QED
  BY <1>2, <1>5, <1>6, <1>7, <1>8, <1>9, <1>10, <1>11 DEF Next, StatementStep

(* Nothing happens. *)
LEMMA StutterBrace ==
  ASSUME BraceInv, UNCHANGED vars
  PROVE  BraceInv'
BY DEF BraceInv, Between, AfterBrace, At, Receives, Top, vars

(* No token has been passed. *)
LEMMA InitBrace ==
  ASSUME Init
  PROVE  BraceInv
BY DEF Init, BraceInv, AfterBrace

(* A list that is accepted is empty but for its end, or has a closing brace before it. *)
LEMMA EndsWithBrace ==
  ASSUME IInv, ShiftInv, BraceInv, mode = "done", reports = <<>>
  PROVE  Len(tokens) = 1 \/ tokens[Len(tokens) - 1].kind = "r_brace"
BY DEF ShiftInv, BraceInv, Between, AfterBrace
=============================================================================
