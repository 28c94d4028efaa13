---------------------------- MODULE ParserProofs ----------------------------
(***************************************************************************)
(* Proofs about the parser, for token lists of every length: the stack     *)
(* never empties and every node it refers to exists (TypeOK), and reports  *)
(* do not pile up (ReportsInOrder).                                        *)
(*                                                                         *)
(* Frames are counted from the bottom of the stack, so that a call or a    *)
(* return leaves the number of every other frame alone.                    *)
(***************************************************************************)
EXTENDS ParserProperties, FiniteSetTheorems, SequenceTheorems, TLAPS

FrameAt(s, d) == s[Len(s) + 1 - d]

(* Frames and nodes, without saying which nodes exist. *)
Fn == {"run", "signature", "parameters", "parameter", "more_parameters", "outputs",
       "output", "more_outputs", "body", "defined", "block", "statement",
       "expression", "tail", "return_values", "operand", "arguments"}

AnyFrame == [fn : Fn, node : Nat, precedence : statement..postfix]

AnyNode == [kind : NodeKind, op : NodeOp, offset : 0..source_size_max, children : Seq(Nat)]

(* The functions that parse a function definition, and all that fill in a node of their own. *)
SignatureFn == {"signature", "parameters", "parameter", "more_parameters", "outputs",
                "output", "more_outputs", "body"}

FillingFn == SignatureFn \cup {"defined", "block", "return_values", "operand", "arguments"}

(* The token list is as the lexer leaves it and the cursor is in it. *)
CursorInv ==
  /\ tokens \in Inputs
  /\ it \in 1..Len(tokens)

(* The children of a node are nodes of the same arena. *)
ArenaOK(arena) ==
  /\ arena \in Seq(AnyNode)
  /\ \A n \in 1..Len(arena) : \A c \in 1..Len(arena[n].children) :
       arena[n].children[c] \in 1..Len(arena)

NodesInv == ArenaOK(nodes)

(* A frame refers to one of the nodes, once it has one. *)
FrameOK(frame, size) ==
  /\ frame.node <= size
  /\ frame.fn \in FillingFn => frame.node # 0

(* run is at the bottom of the stack and nowhere else. *)
StackInv ==
  /\ stack \in Seq(AnyFrame)
  /\ Len(stack) > 0
  /\ \A d \in 1..Len(stack) :
       FrameOK(FrameAt(stack, d), Len(nodes)) /\ (FrameAt(stack, d).fn = "run" <=> d = 1)

(* There is a node where one is used: the one that is returned and the one the tail loop has. *)
ValueInv ==
  /\ mode \in {"go", "return", "throw", "done"}
  /\ value \in 0..Len(nodes)
  /\ mode = "return" => value # 0
  /\ At("tail") => Top.node # 0
  /\ definitions \in Seq(Nat)
  /\ \A i \in 1..Len(definitions) : definitions[i] \in 1..Len(nodes)

(***************************************************************************)
(* No report is about a token behind the cursor's, and only while an error *)
(* is handled about the cursor's own.  There are two exceptions: the end   *)
(* of the list, which the cursor cannot pass, and a closing brace at which *)
(* recovery has just stopped; the block takes it next.                     *)
(***************************************************************************)
AtBrace == At("block") /\ peek = "r_brace"

OrderInv ==
  /\ reports \in Seq([message : Message, at : Nat])
  /\ \A i \in 1..Len(reports) : reports[i].at \in 1..it
  /\ \A i, j \in 1..Len(reports) :
       i < j => \/ reports[i].at < reports[j].at
                \/ reports[i].at = Len(tokens) /\ reports[j].at = Len(tokens)
  /\ mode \in {"go", "return"} =>
       \/ \A i \in 1..Len(reports) : reports[i].at < it
       \/ it = Len(tokens)
       \/ AtBrace

(* The reports about the end of the list, the open blocks, and the opening braces passed so far. *)
AtEnd == {i \in 1..Len(reports) : reports[i].at = Len(tokens)}
Blocks == {d \in 1..Len(stack) : FrameAt(stack, d).fn = "block"}
Passed == {p \in 1..(it - 1) : tokens[p].kind = "l_brace"}

(* A report about the end of the list costs an open block, except for the last one. *)
Paid == Cardinality(AtEnd) + Cardinality(Blocks) <= Cardinality(Passed)

CountInv ==
  /\ Cardinality(AtEnd) + Cardinality(Blocks) <= Cardinality(Passed) + 1
  /\ it < Len(tokens) \/ (mode # "throw" /\ Len(stack) > 1) => Paid

IInv == CursorInv /\ NodesInv /\ StackInv /\ ValueInv /\ OrderInv /\ CountInv

-----------------------------------------------------------------------------
(* Helpers *)

(***************************************************************************)
(* A step keeps the lower frames and puts new ones on top of them, listed  *)
(* from the bottom.                                                        *)
(***************************************************************************)
Rebuilt(keep, new) ==
  /\ keep \in 1..Len(stack)
  /\ new \in Seq(AnyFrame)
  /\ stack' \in Seq(AnyFrame)
  /\ Len(stack') = keep + Len(new)
  /\ \A d \in 1..keep : FrameAt(stack', d) = FrameAt(stack, d)
  /\ \A d \in 1..Len(new) : FrameAt(stack', keep + d) = new[d]

(* Only run has nothing below it. *)
LEMMA BelowTop ==
  ASSUME StackInv
  PROVE  /\ Top = FrameAt(stack, Len(stack)) /\ Top \in AnyFrame /\ FrameOK(Top, Len(nodes))
         /\ Top.fn # "run" <=> Len(stack) > 1
<1>1. Top = FrameAt(stack, Len(stack))
  BY DEF StackInv, Top, FrameAt
<1>2. Top \in AnyFrame
  BY DEF StackInv, Top
<1> QED
  BY <1>1, <1>2 DEF StackInv

(* The frames of a stack are frames. *)
LEMMA FramesTyped ==
  ASSUME StackInv, NEW d \in 1..Len(stack)
  PROVE  FrameAt(stack, d) \in AnyFrame
BY DEF StackInv, FrameAt

(* The ways in which steps rebuild the stack. *)
LEMMA Same ==
  ASSUME StackInv, stack' = stack
  PROVE  Rebuilt(Len(stack), <<>>)
BY DEF StackInv, Rebuilt, FrameAt

(* A return or an exception drops the top frame. *)
LEMMA Popped ==
  ASSUME StackInv, Top.fn # "run", stack' = Tail(stack)
  PROVE  Rebuilt(Len(stack) - 1, <<>>)
<1>1. Len(stack) > 1
  BY BelowTop
<1> QED
  BY <1>1 DEF StackInv, Rebuilt, FrameAt

(* The top frame goes on at another point. *)
LEMMA Replaced ==
  ASSUME StackInv, Top.fn # "run", NEW f \in AnyFrame, stack' = <<f>> \o Tail(stack)
  PROVE  Rebuilt(Len(stack) - 1, <<f>>)
<1>1. Len(stack) > 1
  BY BelowTop
<1> QED
  BY <1>1 DEF StackInv, Rebuilt, FrameAt

(* A function calls another one. *)
LEMMA Pushed ==
  ASSUME StackInv, NEW f \in AnyFrame, stack' = <<f>> \o stack
  PROVE  Rebuilt(Len(stack), <<f>>)
<1>1. stack \in Seq(AnyFrame) /\ Len(stack) \in Nat \ {0}
  BY DEF StackInv
<1>2. stack' \in Seq(AnyFrame) /\ Len(stack') = Len(stack) + 1
  BY <1>1
<1>3. stack'[1] = f /\ \A i \in 1..Len(stack) : stack'[i + 1] = stack[i]
  BY <1>1
<1>4. ASSUME NEW d \in 1..Len(stack) PROVE FrameAt(stack', d) = FrameAt(stack, d)
  <2>1. Len(stack) + 1 - d \in 1..Len(stack)
    BY <1>1
  <2>2. stack'[Len(stack) + 1 - d + 1] = stack[Len(stack) + 1 - d]
    BY <1>3, <2>1
  <2> QED
    BY <1>1, <1>2, <2>2 DEF FrameAt
<1>5. ASSUME NEW d \in 1..1 PROVE FrameAt(stack', Len(stack) + d) = <<f>>[d]
  BY <1>1, <1>2, <1>3, <1>5 DEF FrameAt
<1> QED
  BY <1>1, <1>2, <1>4, <1>5 DEF Rebuilt

(* Two frames are pushed. *)
LEMMA PushedTwo ==
  ASSUME StackInv, NEW f \in AnyFrame, NEW g \in AnyFrame, stack' = <<g, f>> \o stack
  PROVE  Rebuilt(Len(stack), <<f, g>>)
<1> DEFINE new == <<f, g>>
<1>1. stack \in Seq(AnyFrame) /\ Len(stack) \in Nat \ {0}
  BY DEF StackInv
<1>2. stack' \in Seq(AnyFrame) /\ Len(stack') = Len(stack) + 2
  BY <1>1
<1>3. stack'[1] = g /\ stack'[2] = f /\ \A i \in 1..Len(stack) : stack'[i + 2] = stack[i]
  BY <1>1
<1>4. ASSUME NEW d \in 1..Len(stack) PROVE FrameAt(stack', d) = FrameAt(stack, d)
  <2>1. Len(stack) + 1 - d \in 1..Len(stack)
    BY <1>1
  <2>2. stack'[Len(stack) + 1 - d + 2] = stack[Len(stack) + 1 - d]
    BY <1>3, <2>1
  <2> QED
    BY <1>1, <1>2, <2>2 DEF FrameAt
<1>5. ASSUME NEW d \in 1..2 PROVE FrameAt(stack', Len(stack) + d) = new[d]
  BY <1>1, <1>2, <1>3, <1>5 DEF FrameAt
<1>6. new \in Seq(AnyFrame) /\ Len(new) = 2
  OBVIOUS
<1> HIDE DEF new
<1>7. \A d \in 1..Len(new) : FrameAt(stack', Len(stack) + d) = new[d]
  BY <1>5, <1>6
<1>8. Len(stack) \in 1..Len(stack) /\ Len(stack') = Len(stack) + Len(new)
  BY <1>1, <1>2, <1>6
<1>9. Rebuilt(Len(stack), new)
  BY <1>2, <1>4, <1>6, <1>7, <1>8 DEF Rebuilt
<1> QED
  BY <1>9 DEF new

(* The top frame is replaced by two. *)
LEMMA ReplacedTwo ==
  ASSUME StackInv, Top.fn # "run", NEW f \in AnyFrame, NEW g \in AnyFrame,
         stack' = <<g, f>> \o Tail(stack)
  PROVE  Rebuilt(Len(stack) - 1, <<f, g>>)
<1> DEFINE new == <<f, g>>
<1>1. stack \in Seq(AnyFrame) /\ Len(stack) \in Nat /\ Len(stack) > 1
  BY BelowTop DEF StackInv
<1>2. stack' \in Seq(AnyFrame) /\ Len(stack') = Len(stack) + 1
  BY <1>1
<1>3. stack'[1] = g /\ stack'[2] = f /\ \A i \in 2..Len(stack) : stack'[i + 1] = stack[i]
  BY <1>1
<1>4. ASSUME NEW d \in 1..(Len(stack) - 1) PROVE FrameAt(stack', d) = FrameAt(stack, d)
  <2>1. Len(stack) + 1 - d \in 2..Len(stack)
    BY <1>1
  <2>2. stack'[Len(stack) + 1 - d + 1] = stack[Len(stack) + 1 - d]
    BY <1>3, <2>1
  <2> QED
    BY <1>1, <1>2, <2>2 DEF FrameAt
<1>5. ASSUME NEW d \in 1..2 PROVE FrameAt(stack', (Len(stack) - 1) + d) = new[d]
  BY <1>1, <1>2, <1>3, <1>5 DEF FrameAt
<1>6. new \in Seq(AnyFrame) /\ Len(new) = 2
  OBVIOUS
<1> HIDE DEF new
<1>7. \A d \in 1..Len(new) : FrameAt(stack', (Len(stack) - 1) + d) = new[d]
  BY <1>5, <1>6
<1>8. (Len(stack) - 1) \in 1..Len(stack) /\ Len(stack') = (Len(stack) - 1) + Len(new)
  BY <1>1, <1>2, <1>6
<1>9. Rebuilt(Len(stack) - 1, new)
  BY <1>2, <1>4, <1>6, <1>7, <1>8 DEF Rebuilt
<1> QED
  BY <1>9 DEF new

(* The top frame is replaced by three. *)
LEMMA ReplacedThree ==
  ASSUME StackInv, Top.fn # "run", NEW f \in AnyFrame, NEW g \in AnyFrame, NEW h \in AnyFrame,
         stack' = <<h, g, f>> \o Tail(stack)
  PROVE  Rebuilt(Len(stack) - 1, <<f, g, h>>)
<1> DEFINE new == <<f, g, h>>
<1>1. stack \in Seq(AnyFrame) /\ Len(stack) \in Nat /\ Len(stack) > 1
  BY BelowTop DEF StackInv
<1>2. stack' \in Seq(AnyFrame) /\ Len(stack') = Len(stack) + 2
  BY <1>1
<1>3. stack'[1] = h /\ stack'[2] = g /\ stack'[3] = f /\ \A i \in 2..Len(stack) : stack'[i + 2] = stack[i]
  BY <1>1
<1>4. ASSUME NEW d \in 1..(Len(stack) - 1) PROVE FrameAt(stack', d) = FrameAt(stack, d)
  <2>1. Len(stack) + 1 - d \in 2..Len(stack)
    BY <1>1
  <2>2. stack'[Len(stack) + 1 - d + 2] = stack[Len(stack) + 1 - d]
    BY <1>3, <2>1
  <2> QED
    BY <1>1, <1>2, <2>2 DEF FrameAt
<1>5. ASSUME NEW d \in 1..3 PROVE FrameAt(stack', (Len(stack) - 1) + d) = new[d]
  BY <1>1, <1>2, <1>3, <1>5 DEF FrameAt
<1>6. new \in Seq(AnyFrame) /\ Len(new) = 3
  OBVIOUS
<1> HIDE DEF new
<1>7. \A d \in 1..Len(new) : FrameAt(stack', (Len(stack) - 1) + d) = new[d]
  BY <1>5, <1>6
<1>8. (Len(stack) - 1) \in 1..Len(stack) /\ Len(stack') = (Len(stack) - 1) + Len(new)
  BY <1>1, <1>2, <1>6
<1>9. Rebuilt(Len(stack) - 1, new)
  BY <1>2, <1>4, <1>6, <1>7, <1>8 DEF Rebuilt
<1> QED
  BY <1>9 DEF new

(* The frames that were kept are as they were, and the new ones are in order. *)
LEMMA StackStep ==
  ASSUME StackInv, nodes \in Seq(AnyNode), nodes' \in Seq(AnyNode), Len(nodes) <= Len(nodes'),
         NEW keep, NEW new, Rebuilt(keep, new),
         \A d \in 1..Len(new) : FrameOK(new[d], Len(nodes')) /\ new[d].fn # "run"
  PROVE  StackInv'
<1>1. keep \in 1..Len(stack) /\ Len(stack') = keep + Len(new) /\ Len(new) \in Nat /\ Len(stack) \in Nat
  BY DEF Rebuilt, StackInv
<1>2. ASSUME NEW d \in 1..keep
      PROVE  FrameOK(FrameAt(stack', d), Len(nodes')) /\ (FrameAt(stack', d).fn = "run" <=> d = 1)
  <2>1. d \in 1..Len(stack) /\ FrameAt(stack', d) = FrameAt(stack, d)
    BY <1>1 DEF Rebuilt
  <2>2. FrameAt(stack, d) \in AnyFrame
    BY <2>1, FramesTyped
  <2>3. FrameAt(stack, d).node \in Nat /\ Len(nodes) \in Nat /\ Len(nodes') \in Nat
    BY <2>2 DEF AnyFrame
  <2>4. FrameOK(FrameAt(stack, d), Len(nodes)) /\ (FrameAt(stack, d).fn = "run" <=> d = 1)
    BY <2>1 DEF StackInv
  <2> QED
    BY <2>1, <2>3, <2>4 DEF FrameOK
<1>3. ASSUME NEW d \in (keep + 1)..Len(stack')
      PROVE  FrameOK(FrameAt(stack', d), Len(nodes')) /\ (FrameAt(stack', d).fn = "run" <=> d = 1)
  <2>1. d - keep \in 1..Len(new) /\ keep + (d - keep) = d /\ d # 1
    BY <1>1
  <2>2. FrameAt(stack', d) = new[d - keep]
    BY <2>1 DEF Rebuilt
  <2> QED
    BY <2>1, <2>2
<1>4. \A d \in 1..Len(stack') : d \in 1..keep \/ d \in (keep + 1)..Len(stack')
  BY <1>1
<1>5. stack' \in Seq(AnyFrame) /\ Len(stack') > 0
  BY <1>1 DEF Rebuilt
<1> QED
  BY <1>2, <1>3, <1>4, <1>5 DEF StackInv

(* The frame on top after a step. *)
LEMMA NewTop ==
  ASSUME StackInv, NEW keep, NEW new, Rebuilt(keep, new)
  PROVE  /\ new = <<>> => Top' = FrameAt(stack, keep)
         /\ new # <<>> => Top' = new[Len(new)]
<1>1. /\ keep \in 1..Len(stack) /\ Len(stack') = keep + Len(new) /\ Len(new) \in Nat
      /\ Len(stack) \in Nat /\ stack' \in Seq(AnyFrame) /\ new \in Seq(AnyFrame)
  BY DEF Rebuilt, StackInv
<1>2. Top' = stack'[1] /\ FrameAt(stack', Len(stack')) = stack'[1]
  BY <1>1 DEF Top, FrameAt
<1>3. new = <<>> => Len(stack') = keep /\ keep \in 1..keep
  BY <1>1
<1>4. new # <<>> => Len(new) \in 1..Len(new)
  BY <1>1
<1> QED
  BY <1>1, <1>2, <1>3, <1>4 DEF Rebuilt

-----------------------------------------------------------------------------
(* The arena *)

(* A new node whose children exist. *)
LEMMA Created ==
  ASSUME NEW arena, ArenaOK(arena), NEW node \in AnyNode,
         \A c \in 1..Len(node.children) : node.children[c] \in 1..(Len(arena) + 1)
  PROVE  ArenaOK(Append(arena, node)) /\ Len(Append(arena, node)) = Len(arena) + 1
<1>1. arena \in Seq(AnyNode) /\ Len(arena) \in Nat
  BY DEF ArenaOK
<1>2. /\ Append(arena, node) \in Seq(AnyNode) /\ Len(Append(arena, node)) = Len(arena) + 1
      /\ Append(arena, node)[Len(arena) + 1] = node
      /\ \A n \in 1..Len(arena) : Append(arena, node)[n] = arena[n]
  BY <1>1
<1> DEFINE grown == Append(arena, node)
<1> HIDE DEF grown
<1>3. ASSUME NEW n \in 1..(Len(arena) + 1), NEW c \in 1..Len(grown[n].children)
      PROVE  grown[n].children[c] \in 1..(Len(arena) + 1)
  <2>1. CASE n \in 1..Len(arena)
    <3>1. grown[n] = arena[n]
      BY <1>2, <2>1 DEF grown
    <3>2. arena[n].children[c] \in 1..Len(arena)
      BY <2>1, <3>1 DEF ArenaOK
    <3> QED
      BY <1>1, <3>1, <3>2
  <2>2. CASE n = Len(arena) + 1
    BY <1>2, <2>2 DEF grown
  <2> QED
    BY <1>1, <2>1, <2>2
<1>4. ArenaOK(grown)
  BY <1>2, <1>3 DEF ArenaOK, grown
<1> QED
  BY <1>2, <1>4 DEF grown

(* put: what changes is the list of children of one node. *)
LEMMA ChildPut ==
  ASSUME NEW arena, ArenaOK(arena), NEW id \in 1..Len(arena), NEW child \in 1..Len(arena)
  PROVE  /\ ArenaOK(WithChild(arena, id, child))
         /\ Len(WithChild(arena, id, child)) = Len(arena)
         /\ \A n \in 1..Len(arena) : n # id => WithChild(arena, id, child)[n] = arena[n]
         /\ WithChild(arena, id, child)[id].kind = arena[id].kind
         /\ WithChild(arena, id, child)[id].op = arena[id].op
         /\ WithChild(arena, id, child)[id].children = Append(arena[id].children, child)
<1> DEFINE grown == WithChild(arena, id, child)
<1>1. arena \in Seq(AnyNode) /\ Len(arena) \in Nat /\ arena[id] \in AnyNode
  BY DEF ArenaOK
<1>2. Append(arena[id].children, child) \in Seq(Nat)
  BY <1>1 DEF AnyNode
<1>3. [arena[id] EXCEPT !.children = Append(@, child)] \in AnyNode
  BY <1>1, <1>2 DEF AnyNode
<1>4. /\ grown \in Seq(AnyNode) /\ Len(grown) = Len(arena)
      /\ grown[id] = [arena[id] EXCEPT !.children = Append(@, child)]
      /\ \A n \in 1..Len(arena) : n # id => grown[n] = arena[n]
  <2> DEFINE node == [arena[id] EXCEPT !.children = Append(@, child)]
  <2>1. grown = [arena EXCEPT ![id] = node]
    BY DEF WithChild
  <2>2. node \in AnyNode
    BY <1>3
  <2> HIDE DEF node, grown
  <2>3. /\ grown \in Seq(AnyNode) /\ Len(grown) = Len(arena)
        /\ grown[id] = node
        /\ \A n \in 1..Len(arena) : n # id => grown[n] = arena[n]
    BY <1>1, <2>1, <2>2
  <2> QED
    BY <2>3 DEF node
<1>5. /\ grown[id].children = Append(arena[id].children, child)
      /\ grown[id].kind = arena[id].kind /\ grown[id].op = arena[id].op
  BY <1>1, <1>4 DEF AnyNode
<1> HIDE DEF grown
<1>6. ASSUME NEW n \in 1..Len(arena), NEW c \in 1..Len(grown[n].children)
      PROVE  grown[n].children[c] \in 1..Len(arena)
  <2>1. CASE n # id
    <3>1. grown[n] = arena[n]
      BY <1>4, <2>1
    <3> QED
      BY <3>1 DEF ArenaOK
  <2>2. CASE n = id
    <3> DEFINE old == arena[id].children
    <3>1. old \in Seq(Nat) /\ \A i \in 1..Len(old) : old[i] \in 1..Len(arena)
      BY <1>1 DEF AnyNode, ArenaOK
    <3>2. grown[n].children = Append(old, child) /\ c \in 1..Len(Append(old, child))
      BY <1>5, <2>2
    <3> HIDE DEF old
    <3>3. c \in 1..Len(old) \/ c = Len(old) + 1
      BY <3>1, <3>2
    <3>4. Append(old, child)[c] \in 1..Len(arena)
      BY <3>1, <3>3
    <3> QED
      BY <3>2, <3>4
  <2> QED
    BY <2>1, <2>2
<1>7. ArenaOK(grown)
  BY <1>4, <1>6 DEF ArenaOK
<1> QED
  BY <1>4, <1>5, <1>7 DEF grown

-----------------------------------------------------------------------------
(* The cursor and the reports *)

(* The cursor moves on unless it is at the end, which is where end_of_file is. *)
LEMMA Moves ==
  ASSUME CursorInv, NEW p \in 1..Len(tokens)
  PROVE  /\ tokens \in Seq(TokenType) /\ Len(tokens) \in Nat \ {0} /\ it \in Nat
         /\ tokens[p] \in TokenType
         /\ tokens[p].kind = "end_of_file" <=> p = Len(tokens)
         /\ After(p) \in 1..Len(tokens) /\ After(p) \in p..Len(tokens)
         /\ p # Len(tokens) => After(p) = p + 1
<1>1. /\ tokens \in Seq(TokenType) /\ Len(tokens) \in Nat \ {0} /\ it \in Nat
      /\ \A i \in 1..Len(tokens) : tokens[i].kind = "end_of_file" <=> i = Len(tokens)
  BY InputsAssumption DEF CursorInv
<1> QED
  BY <1>1 DEF After

(* A step that goes on with parsing keeps the reports behind the cursor. *)
LEMMA OrderOn ==
  ASSUME CursorInv, OrderInv, mode \in {"go", "return"}, AtBrace => it' > it,
         it' \in it..Len(tokens), UNCHANGED <<tokens, reports>>
  PROVE  OrderInv'
<1>1. it \in Nat /\ Len(tokens) \in Nat /\ it' \in Nat /\ it <= it' /\ it' <= Len(tokens) /\ it <= Len(tokens)
  BY Moves DEF CursorInv
<1>2. /\ reports \in Seq([message : Message, at : Nat])
      /\ \A i \in 1..Len(reports) : reports[i].at \in 1..it
      /\ \A i, j \in 1..Len(reports) :
           i < j => \/ reports[i].at < reports[j].at
                    \/ reports[i].at = Len(tokens) /\ reports[j].at = Len(tokens)
  BY DEF OrderInv
<1>3. \A i \in 1..Len(reports) : reports[i].at \in 1..it'
  BY <1>1, <1>2
<1>4. (\A i \in 1..Len(reports) : reports[i].at < it') \/ it' = Len(tokens)
  <2>1. CASE it' > it
    BY <1>1, <1>2, <2>1
  <2>2. CASE it' = it
    <3>1. ~AtBrace
      BY <1>1, <2>2
    <3> QED
      BY <2>2, <3>1 DEF OrderInv
  <2> QED
    BY <1>1, <2>1, <2>2
<1> QED
  BY <1>2, <1>3, <1>4 DEF OrderInv

(* A report is about a token behind all that were reported on, or the end. *)
LEMMA OrderFails ==
  ASSUME CursorInv, OrderInv, mode \in {"go", "return"}, ~AtBrace,
         NEW message \in Message, NEW p \in it..Len(tokens),
         tokens' = tokens, it' = p, mode' = "throw", ReportAt(message, p)
  PROVE  OrderInv'
<1>1. it \in Nat /\ Len(tokens) \in Nat /\ p \in Nat /\ it <= p /\ p <= Len(tokens) /\ 1 <= it
  BY Moves DEF CursorInv
<1>2. /\ reports \in Seq([message : Message, at : Nat])
      /\ \A i \in 1..Len(reports) : reports[i].at \in 1..it
      /\ \A i, j \in 1..Len(reports) :
           i < j => \/ reports[i].at < reports[j].at
                    \/ reports[i].at = Len(tokens) /\ reports[j].at = Len(tokens)
  BY DEF OrderInv
<1>3. \A i \in 1..Len(reports) :
        reports[i].at \in Nat /\ (reports[i].at < p \/ (reports[i].at = Len(tokens) /\ p = Len(tokens)))
  <2>1. (\A i \in 1..Len(reports) : reports[i].at < it) \/ it = Len(tokens)
    BY DEF OrderInv
  <2> QED
    BY <1>1, <1>2, <2>1
<1> DEFINE new == [message |-> message, at |-> p]
<1>4. new \in [message : Message, at : Nat] /\ new.at = p
  BY <1>1
<1>5. reports' = Append(reports, new)
  BY DEF ReportAt
<1> HIDE DEF new
<1>6. /\ reports' \in Seq([message : Message, at : Nat]) /\ Len(reports') = Len(reports) + 1
      /\ reports'[Len(reports) + 1] = new
      /\ \A i \in 1..Len(reports) : reports'[i] = reports[i]
  BY <1>2, <1>4, <1>5
<1>7. Len(reports) \in Nat
  BY <1>2
<1>8. \A i \in 1..Len(reports') : i \in 1..Len(reports) \/ i = Len(reports) + 1
  BY <1>6, <1>7
<1>9. ASSUME NEW i \in 1..Len(reports') PROVE reports'[i].at \in 1..p
  <2>1. CASE i \in 1..Len(reports)
    <3>1. reports'[i] = reports[i] /\ reports[i].at \in 1..it
      BY <1>2, <1>6, <2>1
    <3> QED
      BY <1>1, <3>1
  <2>2. CASE i = Len(reports) + 1
    BY <1>1, <1>4, <1>6, <2>2
  <2> QED
    BY <1>8, <2>1, <2>2
<1>10. ASSUME NEW i \in 1..Len(reports'), NEW j \in 1..Len(reports'), i < j
       PROVE  \/ reports'[i].at < reports'[j].at
              \/ reports'[i].at = Len(tokens) /\ reports'[j].at = Len(tokens)
  <2>1. i \in 1..Len(reports)
    BY <1>6, <1>7, <1>10
  <2>2. CASE j \in 1..Len(reports)
    BY <1>2, <1>6, <1>10, <2>1, <2>2
  <2>3. CASE j = Len(reports) + 1
    BY <1>3, <1>4, <1>6, <2>1, <2>3
  <2> QED
    BY <1>8, <2>2, <2>3
<1> QED
  BY <1>6, <1>9, <1>10 DEF OrderInv

-----------------------------------------------------------------------------
(* Open blocks, and reports about the end of the list *)

(* The sets that are counted are finite. *)
LEMMA Counted ==
  ASSUME CursorInv, StackInv, OrderInv
  PROVE  /\ IsFiniteSet(AtEnd) /\ IsFiniteSet(Blocks) /\ IsFiniteSet(Passed)
         /\ Cardinality(AtEnd) \in Nat /\ Cardinality(Blocks) \in Nat /\ Cardinality(Passed) \in Nat
<1>1. Len(reports) \in Nat /\ Len(stack) \in Nat /\ it - 1 \in Nat
  BY Moves DEF OrderInv, StackInv, CursorInv
<1>2. IsFiniteSet(1..Len(reports)) /\ IsFiniteSet(1..Len(stack)) /\ IsFiniteSet(1..(it - 1))
  BY <1>1, FS_Interval
<1>3. IsFiniteSet(AtEnd) /\ IsFiniteSet(Blocks) /\ IsFiniteSet(Passed)
  BY <1>2, FS_Subset DEF AtEnd, Blocks, Passed
<1> QED
  BY <1>3, FS_CardinalityType

(* Braces that were passed stay behind. *)
LEMMA PassedGrows ==
  ASSUME CursorInv, tokens' = tokens, it' \in it..Len(tokens)
  PROVE  /\ Cardinality(Passed) <= Cardinality(Passed')
         /\ tokens[it].kind = "l_brace" /\ it' > it => Cardinality(Passed) + 1 <= Cardinality(Passed')
         /\ Cardinality(Passed') \in Nat /\ Cardinality(Passed) \in Nat
<1>1. it \in Nat /\ it' \in Nat /\ 1 <= it /\ it <= it' /\ Len(tokens) \in Nat
  BY Moves DEF CursorInv
<1>2. IsFiniteSet(1..(it' - 1)) /\ IsFiniteSet(1..(it - 1))
  <2>1. 1 \in Int /\ it' - 1 \in Int /\ it - 1 \in Int
    BY <1>1
  <2> QED
    BY <2>1, FS_Interval
<1>3. IsFiniteSet(Passed') /\ IsFiniteSet(Passed)
  <2>1. Passed' \subseteq 1..(it' - 1) /\ Passed \subseteq 1..(it - 1)
    BY DEF Passed
  <2> QED
    BY <1>2, <2>1, FS_Subset
<1>4. Passed \subseteq Passed'
  BY <1>1 DEF Passed
<1>5. Cardinality(Passed') \in Nat /\ Cardinality(Passed) \in Nat /\ Cardinality(Passed) <= Cardinality(Passed')
  BY <1>3, <1>4, FS_Subset, FS_CardinalityType
<1>6. ASSUME tokens[it].kind = "l_brace", it' > it
      PROVE  Cardinality(Passed) + 1 <= Cardinality(Passed')
  <2>1. it \notin Passed /\ it \in Passed'
    <3>1. it \notin 1..(it - 1) /\ it \in 1..(it' - 1)
      BY <1>1, <1>6
    <3> QED
      BY <1>6, <3>1 DEF Passed
  <2>2. Passed \cup {it} \subseteq Passed'
    BY <1>4, <2>1
  <2>3. IsFiniteSet(Passed \cup {it}) /\ Cardinality(Passed \cup {it}) = Cardinality(Passed) + 1
    BY <1>3, <2>1, FS_AddElement
  <2> QED
    BY <1>3, <2>2, <2>3, FS_Subset
<1> QED
  BY <1>5, <1>6

(* A new block comes on top and costs a brace. *)
Opens(new) ==
  \A d \in 1..Len(new) :
    new[d].fn = "block" => d = Len(new) /\ peek = "l_brace" /\ it' > it

(* A block that is opened is paid for by the brace that is passed. *)
LEMMA BlocksOpened ==
  ASSUME CursorInv, StackInv, tokens' = tokens, it' \in it..Len(tokens),
         NEW keep, NEW new, Rebuilt(keep, new), Opens(new)
  PROVE  /\ Cardinality(Blocks') + Cardinality(Passed) <= Cardinality(Blocks) + Cardinality(Passed')
         /\ Cardinality(Blocks) \in Nat /\ Cardinality(Blocks') \in Nat
<1>1. /\ keep \in 1..Len(stack) /\ Len(stack) \in Nat /\ Len(new) \in Nat /\ Len(stack') = keep + Len(new)
      /\ Len(stack') \in Nat
  BY DEF Rebuilt, StackInv
<1>2. IsFiniteSet(Blocks)
  <2>1. Blocks \subseteq 1..Len(stack) /\ IsFiniteSet(1..Len(stack))
    BY <1>1, FS_Interval DEF Blocks
  <2> QED
    BY <2>1, FS_Subset
<1>3. ASSUME NEW d \in Blocks', d <= keep PROVE d \in Blocks
  BY <1>1, <1>3 DEF Blocks, Rebuilt
<1>4. ASSUME NEW d \in Blocks', ~(d <= keep)
      PROVE  d = Len(stack') /\ peek = "l_brace" /\ it' > it
  <2>1. d \in 1..Len(stack') /\ FrameAt(stack', d).fn = "block"
    BY DEF Blocks
  <2>2. d - keep \in 1..Len(new) /\ keep + (d - keep) = d
    BY <1>1, <1>4, <2>1
  <2>3. FrameAt(stack', d) = new[d - keep]
    BY <2>2 DEF Rebuilt
  <2>4. d - keep = Len(new) /\ peek = "l_brace" /\ it' > it
    BY <2>1, <2>2, <2>3 DEF Opens
  <2> QED
    BY <1>1, <2>1, <2>4
<1>5. Cardinality(Blocks) \in Nat
  BY <1>2, FS_CardinalityType
<1>6. CASE Blocks' \subseteq Blocks
  <2>1. Cardinality(Blocks') <= Cardinality(Blocks) /\ Cardinality(Blocks') \in Nat
    BY <1>2, <1>6, FS_Subset, FS_CardinalityType
  <2> QED
    BY <1>5, <2>1, PassedGrows
<1>7. CASE ~(Blocks' \subseteq Blocks)
  <2>1. peek = "l_brace" /\ it' > it
    BY <1>3, <1>4, <1>7
  <2>2. Cardinality(Passed) + 1 <= Cardinality(Passed')
    BY <2>1, PassedGrows DEF peek
  <2>3. Blocks' \subseteq Blocks \cup {Len(stack')}
    BY <1>3, <1>4
  <2>4. /\ IsFiniteSet(Blocks \cup {Len(stack')})
        /\ Cardinality(Blocks \cup {Len(stack')}) \in {Cardinality(Blocks), Cardinality(Blocks) + 1}
    BY <1>2, FS_AddElement
  <2>5. Cardinality(Blocks') <= Cardinality(Blocks \cup {Len(stack')}) /\ Cardinality(Blocks') \in Nat
    BY <2>3, <2>4, FS_Subset, FS_CardinalityType
  <2> QED
    BY <1>5, <2>2, <2>4, <2>5, PassedGrows
<1> QED
  BY <1>6, <1>7

(***************************************************************************)
(* A step that goes on: no report, nodes are added or filled in, and the   *)
(* upper frames are replaced.                                              *)
(***************************************************************************)
LEMMA GoesOn ==
  ASSUME IInv, mode \in {"go", "return"}, mode' \in {"go", "return"}, AtBrace => it' > it,
         it' \in it..Len(tokens), UNCHANGED <<tokens, reports, definitions>>,
         NodesInv', Len(nodes) <= Len(nodes'),
         value' \in 0..Len(nodes'), mode' = "return" => value' # 0,
         NEW keep, NEW new, Rebuilt(keep, new), Opens(new),
         \A d \in 1..Len(new) : FrameOK(new[d], Len(nodes')) /\ new[d].fn # "run",
         At("tail")' => Top'.node # 0,
         Len(stack) > 1 \/ it < Len(tokens)
  PROVE  IInv'
<1>1. CursorInv'
  BY Moves DEF IInv, CursorInv
<1>2. StackInv'
  BY StackStep DEF IInv, NodesInv, ArenaOK
<1>3. ValueInv'
  <2>1. Len(nodes) \in Nat /\ Len(nodes') \in Nat
    BY DEF IInv, NodesInv, ArenaOK
  <2>2. \A i \in 1..Len(definitions) : definitions[i] \in 1..Len(nodes')
    BY <2>1 DEF IInv, ValueInv
  <2> QED
    BY <2>2 DEF IInv, ValueInv
<1>4. OrderInv'
  BY OrderOn DEF IInv
<1>5. CountInv'
  <2>1. AtEnd' = AtEnd
    BY DEF AtEnd
  <2>2. Cardinality(Blocks') + Cardinality(Passed) <= Cardinality(Blocks) + Cardinality(Passed')
    BY BlocksOpened DEF IInv
  <2>3. /\ Cardinality(Blocks) \in Nat /\ Cardinality(Blocks') \in Nat /\ Cardinality(AtEnd) \in Nat
        /\ Cardinality(Passed') \in Nat /\ Cardinality(Passed) \in Nat
    BY Counted, BlocksOpened, PassedGrows DEF IInv
  <2>4. Cardinality(AtEnd) + Cardinality(Blocks) <= Cardinality(Passed)
    BY DEF IInv, CountInv, Paid
  <2>5. Cardinality(AtEnd') + Cardinality(Blocks') <= Cardinality(Passed')
    BY <2>1, <2>2, <2>3, <2>4
  <2> QED
    BY <2>3, <2>1, <2>5 DEF CountInv, Paid
<1> QED
  BY <1>1, <1>2, <1>3, <1>4, <1>5 DEF IInv

(***************************************************************************)
(* report_expected and throw: the report is the next in order, and one     *)
(* about the end of the list is covered by an open block or is the last.   *)
(***************************************************************************)
LEMMA Fails ==
  ASSUME IInv, mode \in {"go", "return"}, ~AtBrace, Len(stack) > 1 \/ it < Len(tokens),
         NEW message \in Message, NEW p \in it..Len(tokens),
         NEW arena, ArenaOK(arena), Len(nodes) <= Len(arena), FailAt(message, p, arena)
  PROVE  IInv'
<1>1. /\ tokens' = tokens /\ it' = p /\ mode' = "throw" /\ value' = 0 /\ nodes' = arena
      /\ stack' = stack /\ definitions' = definitions /\ ReportAt(message, p)
  BY DEF FailAt
<1>2. CursorInv'
  BY <1>1, Moves DEF IInv, CursorInv
<1>3. NodesInv'
  BY <1>1 DEF NodesInv
<1>4. StackInv'
  <2>1. Rebuilt(Len(stack), <<>>)
    BY <1>1, Same DEF IInv
  <2> QED
    BY <1>1, <1>3, <2>1, StackStep DEF IInv, NodesInv, ArenaOK
<1>5. ValueInv'
  <2>1. Len(nodes) \in Nat /\ Len(nodes') \in Nat
    BY <1>3 DEF IInv, NodesInv, ArenaOK
  <2>2. \A i \in 1..Len(definitions) : definitions[i] \in 1..Len(nodes')
    BY <1>1, <2>1 DEF IInv, ValueInv
  <2> QED
    BY <1>1, <2>1, <2>2 DEF IInv, ValueInv, At
<1>6. OrderInv'
  BY <1>1, OrderFails DEF IInv
<1>7. CountInv'
  <2>1. Cardinality(AtEnd) + Cardinality(Blocks) <= Cardinality(Passed)
    BY DEF IInv, CountInv, Paid
  <2>2. /\ IsFiniteSet(AtEnd)
        /\ Cardinality(AtEnd) \in Nat /\ Cardinality(Blocks) \in Nat /\ Cardinality(Passed) \in Nat
    BY Counted DEF IInv
  <2>3. Cardinality(Passed) <= Cardinality(Passed') /\ Cardinality(Passed') \in Nat
    BY <1>1, PassedGrows DEF IInv
  <2>4. Blocks' = Blocks
    BY <1>1 DEF Blocks
  <2>5. reports \in Seq([message : Message, at : Nat]) /\ Len(reports) \in Nat
    BY DEF IInv, OrderInv
  <2>6. reports' = Append(reports, [message |-> message, at |-> p])
    BY <1>1 DEF ReportAt
  <2>7. /\ Len(reports') = Len(reports) + 1 /\ reports'[Len(reports) + 1].at = p
        /\ \A i \in 1..Len(reports) : reports'[i] = reports[i]
    BY <2>5, <2>6
  <2>8. AtEnd' \subseteq AtEnd \cup {Len(reports) + 1} /\ (p < Len(tokens) => AtEnd' \subseteq AtEnd)
    <3>1. ASSUME NEW i \in AtEnd' PROVE i \in AtEnd \/ (i = Len(reports) + 1 /\ p = Len(tokens))
      <4>1. i \in 1..(Len(reports) + 1) /\ reports'[i].at = Len(tokens)
        BY <1>1, <2>7, <3>1 DEF AtEnd
      <4>2. CASE i \in 1..Len(reports)
        BY <2>7, <4>1, <4>2 DEF AtEnd
      <4>3. CASE i = Len(reports) + 1
        BY <2>7, <4>1, <4>3
      <4> QED
        BY <2>5, <4>1, <4>2, <4>3
    <3>2. p \in Nat /\ Len(tokens) \in Nat
      BY Moves DEF IInv, CursorInv
    <3> QED
      BY <3>1, <3>2
  <2>9. /\ IsFiniteSet(AtEnd \cup {Len(reports) + 1})
        /\ Cardinality(AtEnd \cup {Len(reports) + 1}) \in {Cardinality(AtEnd), Cardinality(AtEnd) + 1}
    BY <2>2, FS_AddElement
  <2>10. Cardinality(AtEnd') \in Nat /\ Cardinality(AtEnd') <= Cardinality(AtEnd) + 1
    BY <2>2, <2>8, <2>9, FS_Subset, FS_CardinalityType
  <2>11. p < Len(tokens) => Cardinality(AtEnd') <= Cardinality(AtEnd)
    BY <2>2, <2>8, FS_Subset
  <2>12. Cardinality(AtEnd') + Cardinality(Blocks') <= Cardinality(Passed') + 1
    BY <2>1, <2>2, <2>3, <2>4, <2>10
  <2>13. p < Len(tokens) => Cardinality(AtEnd') + Cardinality(Blocks') <= Cardinality(Passed')
    BY <2>1, <2>2, <2>3, <2>4, <2>10, <2>11
  <2> QED
    BY <1>1, <2>12, <2>13 DEF CountInv, Paid
<1> QED
  BY <1>2, <1>3, <1>4, <1>5, <1>6, <1>7 DEF IInv

-----------------------------------------------------------------------------
(* Steps *)

(* The nodes that steps create have their types, and are the last of the arena. *)
LEMMA CreatedHere ==
  ASSUME IInv, NEW kind \in NodeKind, NEW op \in NodeOp, NEW offset \in 0..source_size_max,
         NEW children \in Seq(1..Len(nodes)),
         nodes' = Append(nodes, Node(kind, op, offset, children))
  PROVE  NodesInv' /\ Len(nodes') = Len(nodes) + 1 /\ NewId = Len(nodes') /\ Len(nodes) \in Nat
<1>1. Len(nodes) \in Nat
  BY DEF IInv, NodesInv, ArenaOK
<1> DEFINE node == Node(kind, op, offset, children)
<1>2. children \in Seq(Nat)
  BY <1>1
<1>3. node \in AnyNode /\ node.children = children
  BY <1>2 DEF Node, AnyNode
<1>4. \A c \in 1..Len(node.children) : node.children[c] \in 1..(Len(nodes) + 1)
  <2>1. \A c \in 1..Len(children) : children[c] \in 1..Len(nodes)
    OBVIOUS
  <2>2. \A c \in 1..Len(children) : children[c] \in 1..(Len(nodes) + 1)
    BY <1>1, <2>1
  <2> QED
    BY <1>3, <2>2
<1> HIDE DEF node
<1>5. ArenaOK(Append(nodes, node)) /\ Len(Append(nodes, node)) = Len(nodes) + 1
  BY <1>3, <1>4, Created DEF IInv, NodesInv
<1>6. nodes' = Append(nodes, node)
  BY DEF node
<1> QED
  BY <1>1, <1>5, <1>6 DEF NodesInv, NewId

(* What a step puts is a child of the node of its frame. *)
LEMMA PutHere ==
  ASSUME IInv, NEW id \in 1..Len(nodes), NEW child \in 1..Len(nodes)
  PROVE  /\ ArenaOK(WithChild(nodes, id, child))
         /\ Len(WithChild(nodes, id, child)) = Len(nodes)
BY ChildPut DEF IInv, NodesInv

(* Where the step is taken. *)
LEMMA Here ==
  ASSUME IInv
  PROVE  /\ it \in 1..Len(tokens) /\ it \in Nat /\ Len(tokens) \in Nat /\ Len(nodes) \in Nat
         /\ tokens[it] \in TokenType /\ tokens[it].offset \in 0..source_size_max
         /\ After(it) \in 1..Len(tokens) /\ After(it) \in it..Len(tokens)
         /\ After(After(it)) \in it..Len(tokens)
         /\ peek # "end_of_file" => After(it) = it + 1 /\ it < Len(tokens)
         /\ peek = "end_of_file" => it = Len(tokens)
         /\ Top \in AnyFrame /\ FrameOK(Top, Len(nodes)) /\ (Top.fn # "run" <=> Len(stack) > 1)
<1>1. CursorInv /\ StackInv /\ it \in 1..Len(tokens) /\ Len(nodes) \in Nat
  BY DEF IInv, CursorInv, NodesInv, ArenaOK
<1>2. /\ tokens[it] \in TokenType /\ it \in Nat /\ Len(tokens) \in Nat
      /\ tokens[it].kind = "end_of_file" <=> it = Len(tokens)
      /\ After(it) \in 1..Len(tokens) /\ After(it) \in it..Len(tokens)
      /\ it # Len(tokens) => After(it) = it + 1
  BY <1>1, Moves
<1>3. After(After(it)) \in After(it)..Len(tokens)
  BY <1>1, <1>2, Moves
<1>4. After(After(it)) \in it..Len(tokens)
  BY <1>2, <1>3
<1>5. tokens[it].offset \in 0..source_size_max
  BY <1>2 DEF TokenType
<1> QED
  BY <1>1, <1>2, <1>4, <1>5, BelowTop DEF peek

(* Leaving a function with a node. *)
LEMMA ReturnStep ==
  ASSUME IInv, mode \in {"go", "return"}, Top.fn # "run", AtBrace => it' > it,
         it' \in it..Len(tokens), UNCHANGED <<tokens, reports, definitions>>,
         NodesInv', Len(nodes) <= Len(nodes'), NEW node \in 1..Len(nodes'), Return(node)
  PROVE  IInv'
<1>1. stack' = Tail(stack) /\ mode' = "return" /\ value' = node
  BY DEF Return
<1>2. Rebuilt(Len(stack) - 1, <<>>)
  BY <1>1, Popped DEF IInv
<1>3. node # 0 /\ node \in 0..Len(nodes') /\ ~At("tail")'
  BY <1>1 DEF At, NodesInv, ArenaOK
<1> QED
  BY <1>1, <1>2, <1>3, Here, GoesOn DEF Opens

(* Going on at another point of the same function. *)
LEMMA RelabelStep ==
  ASSUME IInv, mode = "go", Top.fn \in SignatureFn, NEW fn \in SignatureFn, Become(fn),
         it' \in it..Len(tokens), UNCHANGED <<tokens, mode, value, definitions, reports>>,
         NodesInv', Len(nodes) <= Len(nodes')
  PROVE  IInv'
<1> DEFINE f == [Top EXCEPT !.fn = fn]
<1>1. Top \in AnyFrame /\ Top.node \in Nat /\ FrameOK(Top, Len(nodes)) /\ Top.fn # "run" /\ Len(stack) > 1
  BY Here DEF SignatureFn, AnyFrame
<1>2. f \in AnyFrame /\ f.fn = fn /\ f.node = Top.node
  BY <1>1 DEF AnyFrame, SignatureFn, Fn
<1>3. stack' = <<f>> \o Tail(stack)
  BY DEF Become
<1>4. Len(nodes) \in Nat /\ Len(nodes') \in Nat
  BY Here DEF NodesInv, ArenaOK
<1>5. FrameOK(f, Len(nodes'))
  BY <1>1, <1>2, <1>4 DEF FrameOK, FillingFn
<1> HIDE DEF f
<1>6. Rebuilt(Len(stack) - 1, <<f>>)
  BY <1>1, <1>2, <1>3, Replaced DEF IInv
<1>7. Top' = f
  BY <1>6, NewTop DEF IInv
<1>8. fn # "run" /\ fn # "block" /\ fn # "tail" /\ ~AtBrace
  BY DEF SignatureFn, AtBrace, At
<1>9. value' \in 0..Len(nodes')
  BY <1>4 DEF IInv, ValueInv
<1> QED
  BY <1>1, <1>2, <1>5, <1>6, <1>7, <1>8, <1>9, GoesOn DEF Opens, At

(* A ParseError in a function that some other function has called. *)
LEMMA FailStep ==
  ASSUME IInv, mode \in {"go", "return"}, Top.fn # "run", ~AtBrace, NEW message \in Message,
         NEW p \in it..Len(tokens), NEW arena, ArenaOK(arena), Len(nodes) <= Len(arena),
         FailAt(message, p, arena)
  PROVE  IInv'
BY Here, Fails

(* The same for a failure at the cursor. *)
LEMMA FailsHere ==
  ASSUME IInv, mode \in {"go", "return"}, Top.fn # "run", ~AtBrace, NEW message \in Message,
         Fail(message)
  PROVE  IInv'
<1>1. it \in it..Len(tokens) /\ Len(nodes) <= Len(nodes) /\ ArenaOK(nodes)
  BY Here DEF IInv, NodesInv
<1> QED
  BY <1>1, FailStep DEF Fail

(* The nodes of a parameter or output and of its type. *)
LEMMA WithNodes ==
  ASSUME IInv, NEW kind \in NodeKind
  PROVE  /\ ArenaOK(WithNode(kind)) /\ Len(WithNode(kind)) = Len(nodes) + 1
         /\ ArenaOK(WithType(kind)) /\ Len(WithType(kind)) = Len(nodes) + 2
<1>1. /\ nodes \in Seq(AnyNode) /\ Len(nodes) \in Nat /\ tokens[it].offset \in 0..source_size_max
      /\ NewId + 1 = Len(nodes) + 2
  BY Here DEF IInv, NodesInv, ArenaOK, NewId
<1> DEFINE own == Node(kind, "none", tokens[it].offset, <<>>)
           typed == Node(kind, "none", tokens[it].offset, <<NewId + 1>>)
           type == Node("ident_expr", "none", tokens[it].offset, <<>>)
<1>2. /\ own \in AnyNode /\ own.children = <<>>
      /\ type \in AnyNode /\ type.children = <<>>
      /\ typed \in AnyNode /\ typed.children = <<NewId + 1>>
  <2>1. <<>> \in Seq(Nat) /\ <<NewId + 1>> \in Seq(Nat) /\ "ident_expr" \in NodeKind
    BY <1>1 DEF NodeKind
  <2>2. "none" \in NodeOp
    BY DEF NodeOp
  <2>3. own \in AnyNode /\ own.children = <<>>
    BY <1>1, <2>1, <2>2 DEF Node, AnyNode
  <2>4. type \in AnyNode /\ type.children = <<>>
    BY <1>1, <2>1, <2>2 DEF Node, AnyNode
  <2>5. typed \in AnyNode /\ typed.children = <<NewId + 1>>
    BY <1>1, <2>1, <2>2 DEF Node, AnyNode
  <2> QED
    BY <2>3, <2>4, <2>5
<1>3. ArenaOK(WithNode(kind)) /\ Len(WithNode(kind)) = Len(nodes) + 1
  <2>1. \A c \in 1..Len(own.children) : own.children[c] \in 1..(Len(nodes) + 1)
    BY <1>2
  <2> HIDE DEF own
  <2>2. ArenaOK(Append(nodes, own)) /\ Len(Append(nodes, own)) = Len(nodes) + 1
    BY <1>2, <2>1, Created DEF IInv, NodesInv
  <2> QED
    BY <2>2 DEF own, WithNode
<1>4. ArenaOK(WithType(kind)) /\ Len(WithType(kind)) = Len(nodes) + 2
  <2> DEFINE grown == nodes \o <<typed, type>>
  <2> HIDE DEF typed, type
  <2>1. /\ grown \in Seq(AnyNode) /\ Len(grown) = Len(nodes) + 2
        /\ grown[Len(nodes) + 1] = typed /\ grown[Len(nodes) + 2] = type
        /\ \A n \in 1..Len(nodes) : grown[n] = nodes[n]
    BY <1>1, <1>2
  <2> HIDE DEF grown
  <2>2. ASSUME NEW n \in 1..(Len(nodes) + 2), NEW c \in 1..Len(grown[n].children)
        PROVE  grown[n].children[c] \in 1..(Len(nodes) + 2)
    <3>1. CASE n \in 1..Len(nodes)
      <4>1. grown[n] = nodes[n]
        BY <2>1, <3>1
      <4>2. nodes[n].children[c] \in 1..Len(nodes)
        BY <3>1, <4>1 DEF IInv, NodesInv, ArenaOK
      <4> QED
        BY <1>1, <4>1, <4>2
    <3>2. CASE n = Len(nodes) + 1
      BY <1>1, <1>2, <2>1, <3>2
    <3>3. CASE n = Len(nodes) + 2
      <4>1. grown[n].children = <<>>
        BY <1>2, <2>1, <3>3
      <4> QED
        BY <4>1
    <3> QED
      BY <1>1, <3>1, <3>2, <3>3
  <2>3. ArenaOK(grown) /\ Len(grown) = Len(nodes) + 2
    BY <2>1, <2>2 DEF ArenaOK
  <2> QED
    BY <2>3 DEF grown, typed, type, WithType
<1> QED
  BY <1>3, <1>4

(* A parameter or output becomes a child of its function. *)
LEMMA SignatureChild ==
  ASSUME IInv, Top.fn \in SignatureFn, NEW kind \in NodeKind,
         nodes' = WithChild(WithType(kind), Top.node, NewId)
  PROVE  NodesInv' /\ Len(nodes) <= Len(nodes')
<1>1. Top.node \in 1..Len(nodes) /\ Len(nodes) \in Nat /\ NewId = Len(nodes) + 1
  BY Here DEF FrameOK, SignatureFn, FillingFn, AnyFrame, NewId
<1>2. ArenaOK(WithType(kind)) /\ Len(WithType(kind)) = Len(nodes) + 2
  BY WithNodes
<1>3. Top.node \in 1..Len(WithType(kind)) /\ NewId \in 1..Len(WithType(kind))
  BY <1>1, <1>2
<1>4. /\ ArenaOK(WithChild(WithType(kind), Top.node, NewId))
      /\ Len(WithChild(WithType(kind), Top.node, NewId)) = Len(WithType(kind))
  BY <1>2, <1>3, ChildPut
<1> QED
  BY <1>1, <1>2, <1>4 DEF NodesInv

(* expect, in a function definition. *)
LEMMA ExpectStep ==
  ASSUME IInv, mode = "go", Top.fn \in SignatureFn, NEW fn \in SignatureFn, NEW kind,
         NEW message \in Message, Expect(kind, message, fn)
  PROVE  IInv'
<1>1. CASE peek = kind
  <2>1. Become(fn) /\ it' = After(it) /\ UNCHANGED <<tokens, mode, value, nodes, definitions, reports>>
    BY <1>1 DEF Expect, Advance
  <2>2. NodesInv' /\ Len(nodes) <= Len(nodes') /\ it' \in it..Len(tokens)
    BY <2>1, Here DEF IInv, NodesInv
  <2> QED
    BY <2>1, <2>2, RelabelStep
<1>2. CASE peek # kind
  <2>1. Fail(message)
    BY <1>2 DEF Expect
  <2>2. Top.fn # "run" /\ ~AtBrace
    BY DEF SignatureFn, AtBrace, At
  <2> QED
    BY <2>1, <2>2, FailsHere
<1> QED
  BY <1>1, <1>2

(* The end of run: the invariant says nothing more of a parser that is done. *)
LEMMA FinishRunPreserves ==
  ASSUME IInv, FinishRun
  PROVE  IInv'
<1>1. mode = "go" /\ mode' = "done" /\ UNCHANGED <<tokens, it, stack, value, nodes, definitions, reports>>
  BY DEF FinishRun, At
<1>2. CursorInv' /\ NodesInv' /\ StackInv'
  BY <1>1 DEF IInv, CursorInv, NodesInv, StackInv
<1>3. ValueInv'
  BY <1>1 DEF IInv, ValueInv, At
<1>4. OrderInv'
  BY <1>1 DEF IInv, OrderInv
<1>5. CountInv'
  <2>1. AtEnd' = AtEnd /\ Blocks' = Blocks /\ Passed' = Passed
    BY <1>1 DEF AtEnd, Blocks, Passed
  <2> QED
    BY <1>1, <2>1 DEF IInv, CountInv, Paid
<1> QED
  BY <1>2, <1>3, <1>4, <1>5 DEF IInv

(* The node that a definition returned is put into the root. *)
LEMMA PutDefinitionPreserves ==
  ASSUME IInv, PutDefinition
  PROVE  IInv'
<1>1. /\ mode = "return" /\ Top.fn = "run" /\ mode' = "go" /\ value' = 0
      /\ definitions' = Append(definitions, value) /\ UNCHANGED <<tokens, it, stack, nodes, reports>>
  BY DEF PutDefinition, Receives, Continue
<1>2. CursorInv' /\ NodesInv' /\ StackInv'
  BY <1>1 DEF IInv, CursorInv, NodesInv, StackInv
<1>3. ValueInv'
  <2>1. definitions \in Seq(Nat) /\ value \in 1..Len(nodes) /\ Len(nodes) \in Nat
    BY <1>1, Here DEF IInv, ValueInv
  <2>2. \A i \in 1..Len(definitions) : definitions[i] \in 1..Len(nodes)
    BY DEF IInv, ValueInv
  <2>3. definitions' \in Seq(Nat) /\ Len(definitions') = Len(definitions) + 1
    BY <1>1, <2>1
  <2>4. ASSUME NEW i \in 1..Len(definitions') PROVE definitions'[i] \in 1..Len(nodes)
    <3>1. i \in 1..Len(definitions) \/ i = Len(definitions) + 1
      BY <2>1, <2>3
    <3> QED
      BY <1>1, <2>1, <2>2, <3>1
  <2>5. ~At("tail")' /\ value' \in 0..Len(nodes')
    BY <1>1, <2>1 DEF At, Top
  <2> QED
    BY <1>1, <2>3, <2>4, <2>5 DEF ValueInv
<1>4. OrderInv'
  <2>1. ~AtBrace /\ it' \in it..Len(tokens)
    BY <1>1, Here DEF AtBrace, At
  <2> QED
    BY <1>1, <2>1, OrderOn DEF IInv
<1>5. CountInv'
  <2>1. AtEnd' = AtEnd /\ Blocks' = Blocks /\ Passed' = Passed
    BY <1>1 DEF AtEnd, Blocks, Passed
  <2> QED
    BY <1>1, <2>1 DEF IInv, CountInv, Paid
<1> QED
  BY <1>2, <1>3, <1>4, <1>5 DEF IInv

(* A call pushes one frame. *)
LEMMA CallStep ==
  ASSUME IInv, mode \in {"go", "return"}, mode' = "go", AtBrace => it' > it,
         it' \in it..Len(tokens), UNCHANGED <<tokens, definitions, reports>>,
         Len(stack) > 1 \/ it < Len(tokens),
         NodesInv', Len(nodes) <= Len(nodes'), value' \in 0..Len(nodes'),
         NEW f \in AnyFrame, Call(f), FrameOK(f, Len(nodes')), f.fn \notin {"run", "tail"},
         f.fn = "block" => peek = "l_brace" /\ it' > it
  PROVE  IInv'
<1> DEFINE new == <<f>>
<1>1. Rebuilt(Len(stack), new)
  BY Pushed DEF IInv, Call
<1>2. new # <<>> /\ Len(new) = 1 /\ new[1] = f
  OBVIOUS
<1> HIDE DEF new
<1>3. Top' = f
  BY <1>1, <1>2, NewTop DEF IInv
<1>4. /\ Opens(new)
      /\ \A d \in 1..Len(new) : FrameOK(new[d], Len(nodes')) /\ new[d].fn # "run"
  BY <1>2 DEF Opens
<1>5. ~At("tail")'
  BY <1>3 DEF At
<1> QED
  BY <1>1, <1>4, <1>5, GoesOn

(* parse_definition calls parse_function_definition once it has the name. *)
LEMMA ParseDefinitionPreserves ==
  ASSUME IInv, parse_definition
  PROVE  IInv'
<1> DEFINE named == IF peek \in DOMAIN Modifier THEN After(it) ELSE it
           access == IF peek \in DOMAIN Modifier THEN Modifier[peek] ELSE "none"
<1>1. mode = "go" /\ Top.fn = "run" /\ it < Len(tokens) /\ ~AtBrace
  BY Here DEF parse_definition, At, AtBrace
<1>2. named \in 1..Len(tokens) /\ named \in it..Len(tokens)
  BY Here
<1>3. access \in NodeOp
  BY DEF NodeOp, Modifier
<1> HIDE DEF named, access
<1>4. After(named) \in it..Len(tokens)
  <2>1. After(named) \in named..Len(tokens)
    BY <1>2, Moves DEF IInv
  <2> QED
    BY <1>2, <2>1, Here
<1>5. CASE /\ Create(Node("function_def", access, tokens[it].offset, <<>>))
           /\ it' = After(named)
           /\ Call(Frame("signature", NewId, statement))
           /\ UNCHANGED <<tokens, mode, value, definitions, reports>>
  <2>1. NodesInv' /\ Len(nodes') = Len(nodes) + 1 /\ NewId = Len(nodes') /\ Len(nodes) \in Nat
    <3>1. "function_def" \in NodeKind /\ <<>> \in Seq(1..Len(nodes)) /\ tokens[it].offset \in 0..source_size_max
      BY Here DEF NodeKind
    <3> QED
      BY <1>3, <1>5, <3>1, CreatedHere DEF Create
  <2> DEFINE f == Frame("signature", NewId, statement)
  <2>2. f \in AnyFrame /\ FrameOK(f, Len(nodes')) /\ f.fn = "signature"
    BY <2>1 DEF Frame, AnyFrame, FrameOK, Fn, statement, postfix
  <2>3. value' \in 0..Len(nodes')
    BY <1>5, <2>1 DEF IInv, ValueInv
  <2> HIDE DEF f
  <2> QED
    BY <1>1, <1>4, <1>5, <2>1, <2>2, <2>3, CallStep DEF f
<1>6. CASE FailAt("expect_function_struct_or_enum", named, nodes)
  <2>1. "expect_function_struct_or_enum" \in Message /\ ArenaOK(nodes) /\ Len(nodes) <= Len(nodes)
    BY Here DEF Message, IInv, NodesInv
  <2> QED
    BY <1>1, <1>2, <1>6, <2>1, Fails
<1> QED
  BY <1>5, <1>6 DEF parse_definition, named, access

(* Two frames are pushed, or put in place of the top one: the upper is the callee. *)
LEMMA TwoFramesStep ==
  ASSUME IInv, mode \in {"go", "return"}, mode' = "go", Len(stack) > 1, AtBrace => it' > it,
         it' \in it..Len(tokens), UNCHANGED <<tokens, definitions, reports>>,
         NodesInv', Len(nodes) <= Len(nodes'), value' \in 0..Len(nodes'),
         NEW f \in AnyFrame, NEW g \in AnyFrame,
         stack' = <<g, f>> \o stack \/ stack' = <<g, f>> \o Tail(stack),
         FrameOK(f, Len(nodes')), f.fn \notin {"run", "block"},
         FrameOK(g, Len(nodes')), g.fn \notin {"run", "tail"},
         g.fn = "block" => peek = "l_brace" /\ it' > it
  PROVE  IInv'
<1> DEFINE new == <<f, g>>
<1>1. PICK keep : Rebuilt(keep, new)
  <2>1. Top.fn # "run"
    BY Here
  <2> QED
    BY <2>1, PushedTwo, ReplacedTwo DEF IInv
<1>2. new # <<>> /\ Len(new) = 2 /\ new[1] = f /\ new[2] = g
  OBVIOUS
<1> HIDE DEF new
<1>3. Top' = g
  BY <1>1, <1>2, NewTop DEF IInv
<1>4. \A d \in 1..Len(new) : (d = 1 /\ new[d] = f) \/ (d = 2 /\ new[d] = g)
  BY <1>2
<1>5. Opens(new)
  <2> SUFFICES ASSUME NEW d \in 1..Len(new), new[d].fn = "block"
               PROVE  d = Len(new) /\ peek = "l_brace" /\ it' > it
    BY DEF Opens
  <2> QED
    BY <1>2, <1>4
<1>6. \A d \in 1..Len(new) : FrameOK(new[d], Len(nodes')) /\ new[d].fn # "run"
  BY <1>4
<1>7. ~At("tail")'
  BY <1>3 DEF At
<1> QED
  BY <1>1, <1>5, <1>6, <1>7, GoesOn

(* parse_function_definition up to the body. *)
LEMMA SignaturePreserves ==
  ASSUME IInv,
         \/ ExpectParen \/ NoParameters \/ SomeParameters \/ parse_function_definition_parameter
         \/ MoreParameters \/ parse_function_definition_outputs \/ parse_function_definition_output
         \/ MoreOutputs
  PROVE  IInv'
<1>1. mode = "go" /\ Top.fn \in SignatureFn /\ Top.fn # "run" /\ ~AtBrace
  BY DEF ExpectParen, NoParameters, SomeParameters, parse_function_definition_parameter,
         MoreParameters, parse_function_definition_outputs, parse_function_definition_output,
         MoreOutputs, At, AtBrace, SignatureFn
<1>2. /\ it \in it..Len(tokens) /\ After(it) \in it..Len(tokens)
      /\ After(After(it)) \in it..Len(tokens) /\ Len(nodes) \in Nat
  BY Here
<1>3. ASSUME NEW fn \in SignatureFn, Become(fn), it' = it \/ it' = After(it),
             UNCHANGED <<tokens, mode, value, nodes, definitions, reports>>
      PROVE  IInv'
  <2>1. NodesInv' /\ Len(nodes) <= Len(nodes') /\ it' \in it..Len(tokens)
    BY <1>2, <1>3 DEF IInv, NodesInv
  <2> QED
    BY <1>1, <1>3, <2>1, RelabelStep
<1>4. {"parameters", "parameter", "more_parameters", "outputs", "output", "more_outputs", "body"}
        \subseteq SignatureFn
  BY DEF SignatureFn
<1>5. ASSUME ExpectParen PROVE IInv'
  <2>1. "expect_paren_after_function_name" \in Message
    BY DEF Message
  <2> QED
    BY <1>1, <1>4, <1>5, <2>1, ExpectStep DEF ExpectParen
<1>6. ASSUME NoParameters \/ SomeParameters PROVE IInv'
  BY <1>3, <1>4, <1>6 DEF NoParameters, SomeParameters, Advance
<1>7. ASSUME parse_function_definition_outputs \/ MoreOutputs PROVE IInv'
  BY <1>3, <1>4, <1>7 DEF parse_function_definition_outputs, MoreOutputs, Advance
<1>8. ASSUME MoreParameters PROVE IInv'
  <2>1. CASE peek = "comma"
    BY <1>3, <1>4, <1>8, <2>1 DEF MoreParameters, Advance, Expect
  <2>2. CASE peek # "comma"
    <3>1. "expect_paren_after_parameters" \in Message
      BY DEF Message
    <3> QED
      BY <1>1, <1>4, <1>8, <2>2, <3>1, ExpectStep DEF MoreParameters
  <2> QED
    BY <2>1, <2>2
<1>9. ASSUME parse_function_definition_parameter PROVE IInv'
  <2>1. "function_parameter" \in NodeKind /\ "expect_parameter_type" \in Message /\ "expect_parameter_name" \in Message
    BY DEF NodeKind, Message
  <2>2. /\ ArenaOK(WithNode("function_parameter")) /\ Len(nodes) <= Len(WithNode("function_parameter"))
        /\ ArenaOK(WithType("function_parameter")) /\ Len(nodes) <= Len(WithType("function_parameter"))
    BY <1>2, <2>1, WithNodes
  <2>3. CASE FailAt("expect_parameter_type", it, WithNode("function_parameter"))
    BY <1>1, <1>2, <2>1, <2>2, <2>3, FailStep
  <2>4. CASE FailAt("expect_parameter_name", After(it), WithType("function_parameter"))
    BY <1>1, <1>2, <2>1, <2>2, <2>4, FailStep
  <2>5. CASE /\ nodes' = WithChild(WithType("function_parameter"), Top.node, NewId)
             /\ it' = After(After(it))
             /\ Become("more_parameters")
             /\ UNCHANGED <<tokens, mode, value, definitions, reports>>
    <3>1. NodesInv' /\ Len(nodes) <= Len(nodes')
      BY <1>1, <2>1, <2>5, SignatureChild
    <3> QED
      BY <1>1, <1>2, <1>4, <2>5, <3>1, RelabelStep
  <2> QED
    BY <1>9, <2>3, <2>4, <2>5 DEF parse_function_definition_parameter
<1>10. ASSUME parse_function_definition_output PROVE IInv'
  <2>1. "function_output" \in NodeKind /\ "expect_return_type" \in Message
    BY DEF NodeKind, Message
  <2>2. ArenaOK(WithNode("function_output")) /\ Len(nodes) <= Len(WithNode("function_output"))
    BY <1>2, <2>1, WithNodes
  <2>3. CASE FailAt("expect_return_type", it, WithNode("function_output"))
    BY <1>1, <1>2, <2>1, <2>2, <2>3, FailStep
  <2>4. CASE /\ nodes' = WithChild(WithType("function_output"), Top.node, NewId)
             /\ Advance
             /\ Become("more_outputs")
             /\ UNCHANGED <<tokens, mode, value, definitions, reports>>
    <3>1. NodesInv' /\ Len(nodes) <= Len(nodes')
      BY <1>1, <2>1, <2>4, SignatureChild
    <3> QED
      BY <1>1, <1>2, <1>4, <2>4, <3>1, RelabelStep DEF Advance
  <2> QED
    BY <1>10, <2>3, <2>4 DEF parse_function_definition_output
<1> QED
  BY <1>5, <1>6, <1>7, <1>8, <1>9, <1>10

(* The body is a block, and the definition is returned when it is. *)
LEMMA BodyPreserves ==
  ASSUME IInv, ExpectBody \/ ReturnDefinition
  PROVE  IInv'
<1>1. CASE ExpectBody
  <2>1. mode = "go" /\ Top.fn = "body" /\ Len(stack) > 1 /\ Top.fn # "run" /\ ~AtBrace
    BY <1>1, Here DEF ExpectBody, At, AtBrace
  <2>2. /\ Top \in AnyFrame /\ Top.node \in 1..Len(nodes) /\ Len(nodes) \in Nat
        /\ value \in 0..Len(nodes) /\ NodesInv
    BY <2>1, Here DEF FrameOK, FillingFn, SignatureFn, AnyFrame, IInv, ValueInv
  <2>3. CASE peek = "l_brace"
    <3> DEFINE f == [Top EXCEPT !.fn = "defined"]
               g == Frame("block", Top.node, statement)
    <3>1. /\ it' = After(it) /\ stack' = <<g, f>> \o Tail(stack)
          /\ UNCHANGED <<tokens, mode, value, nodes, definitions, reports>>
      BY <1>1, <2>3 DEF ExpectBody, Advance, BecomeAndCall
    <3>2. /\ f \in AnyFrame /\ f.fn = "defined" /\ FrameOK(f, Len(nodes))
          /\ g \in AnyFrame /\ g.fn = "block" /\ FrameOK(g, Len(nodes))
      BY <2>2 DEF AnyFrame, Frame, FrameOK, Fn, statement, postfix
    <3> HIDE DEF f, g
    <3>3. it' > it /\ it' \in it..Len(tokens)
      BY <2>3, <3>1, Here
    <3>4. NodesInv' /\ Len(nodes) <= Len(nodes') /\ value' \in 0..Len(nodes')
      BY <2>2, <3>1 DEF NodesInv
    <3> QED
      BY <2>1, <2>3, <3>1, <3>2, <3>3, <3>4, TwoFramesStep
  <2>4. CASE peek # "l_brace"
    <3>1. Fail("expect_brace_before_function_body") /\ "expect_brace_before_function_body" \in Message
      BY <1>1, <2>4 DEF ExpectBody, Message
    <3> QED
      BY <2>1, <3>1, FailsHere
  <2> QED
    BY <2>3, <2>4
<1>2. CASE ReturnDefinition
  <2>1. /\ mode = "return" /\ Top.fn = "defined" /\ Return(Top.node) /\ ~AtBrace
        /\ UNCHANGED <<tokens, it, nodes, definitions, reports>>
    BY <1>2 DEF ReturnDefinition, Receives, AtBrace, At
  <2>2. NodesInv' /\ Len(nodes) <= Len(nodes') /\ Top.node \in 1..Len(nodes') /\ it' \in it..Len(tokens)
    BY <2>1, Here DEF FrameOK, FillingFn, AnyFrame, IInv, NodesInv
  <2> QED
    BY <2>1, <2>2, ReturnStep
<1> QED
  BY <1>1, <1>2

(* Every step of a definition. *)
LEMMA DefinitionStepPreserves ==
  ASSUME IInv, DefinitionStep
  PROVE  IInv'
BY FinishRunPreserves, ParseDefinitionPreserves, PutDefinitionPreserves, SignaturePreserves,
   BodyPreserves DEF DefinitionStep

(* The expression that a callee parses for a frame. *)
LEMMA ExpressionFrame ==
  ASSUME NEW precedence \in statement..postfix, NEW size \in Nat
  PROVE  /\ Expression(precedence) \in AnyFrame /\ Expression(precedence).fn = "expression"
         /\ FrameOK(Expression(precedence), size)
         /\ Expression(precedence).precedence = precedence
BY DEF Expression, Frame, AnyFrame, Fn, FrameOK, FillingFn, SignatureFn

(* A frame that fills in a node. *)
LEMMA FillingFrame ==
  ASSUME NEW fn \in Fn, NEW size \in Nat, NEW node \in 1..size
  PROVE  /\ Frame(fn, node, statement) \in AnyFrame
         /\ Frame(fn, node, statement).fn = fn
         /\ Frame(fn, node, statement).node = node
         /\ FrameOK(Frame(fn, node, statement), size)
BY DEF Frame, AnyFrame, FrameOK, statement, postfix

(* The node at the top, in a function that fills one in. *)
LEMMA NodeHere ==
  ASSUME IInv, Top.fn \in FillingFn
  PROVE  Top.node \in 1..Len(nodes)
BY Here DEF FrameOK, AnyFrame

(* Every step of a statement. *)
LEMMA StatementStepPreserves ==
  ASSUME IInv, StatementStep
  PROVE  IInv'
<1>1. ASSUME CloseBlock PROVE IInv'
  <2>1. /\ mode = "go" /\ Top.fn = "block" /\ peek = "r_brace" /\ it' = After(it) /\ Return(Top.node)
        /\ UNCHANGED <<tokens, nodes, definitions, reports>>
    BY <1>1 DEF CloseBlock, At, Advance
  <2>2. it' > it /\ it' \in it..Len(tokens)
    BY <2>1, Here
  <2>3. NodesInv' /\ Len(nodes) <= Len(nodes') /\ Top.node \in 1..Len(nodes')
    BY <2>1, Here, NodeHere DEF FillingFn, IInv, NodesInv
  <2> QED
    BY <2>1, <2>2, <2>3, ReturnStep
<1>2. ASSUME parse_statement PROVE IInv'
  <2>1. /\ mode = "go" /\ mode' = "go" /\ Top.fn = "block" /\ Len(stack) > 1 /\ ~AtBrace
        /\ UNCHANGED <<tokens, value, definitions, reports>>
    BY <1>2, Here DEF parse_statement, At, AtBrace
  <2>2. Len(nodes) \in Nat /\ value \in 0..Len(nodes)
    BY Here DEF IInv, ValueInv
  <2>3. CASE peek = "l_brace"
    <3>1. /\ nodes' = Append(nodes, Node("block_expr", "none", tokens[it].offset, <<>>))
          /\ it' = After(it) /\ Call(Frame("block", NewId, statement))
      BY <1>2, <2>3 DEF parse_statement, Create, Advance
    <3>2. "block_expr" \in NodeKind /\ "none" \in NodeOp /\ <<>> \in Seq(1..Len(nodes))
      BY DEF NodeKind, NodeOp
    <3>3. NodesInv' /\ Len(nodes') = Len(nodes) + 1 /\ NewId = Len(nodes')
      BY <3>1, <3>2, Here, CreatedHere
    <3> DEFINE f == Frame("block", NewId, statement)
    <3>4. f \in AnyFrame /\ f.fn = "block" /\ FrameOK(f, Len(nodes'))
      BY <2>2, <3>3, FillingFrame DEF Fn
    <3> HIDE DEF f
    <3>5. it' > it /\ it' \in it..Len(tokens)
      BY <2>3, <3>1, Here
    <3>6. value' \in 0..Len(nodes') /\ Len(nodes) <= Len(nodes')
      BY <2>1, <2>2, <3>3
    <3> QED
      BY <2>1, <2>3, <3>1, <3>3, <3>4, <3>5, <3>6, CallStep DEF f
  <2>4. CASE peek # "l_brace"
    <3> DEFINE f == Frame("statement", 0, statement)
               g == Expression(statement)
    <3>1. stack' = <<g, f>> \o stack /\ UNCHANGED <<it, nodes>>
      BY <1>2, <2>4 DEF parse_statement
    <3>2. f \in AnyFrame /\ f.fn = "statement" /\ FrameOK(f, Len(nodes))
      BY <2>2 DEF Frame, AnyFrame, Fn, FrameOK, FillingFn, SignatureFn, statement, postfix
    <3>3. g \in AnyFrame /\ g.fn = "expression" /\ FrameOK(g, Len(nodes))
      BY <2>2, ExpressionFrame DEF statement, postfix
    <3> HIDE DEF f, g
    <3>4. /\ it' \in it..Len(tokens) /\ value' \in 0..Len(nodes') /\ NodesInv'
          /\ Len(nodes) <= Len(nodes') /\ nodes' = nodes
      BY <2>1, <2>2, <3>1, Here DEF IInv, NodesInv
    <3> QED
      BY <2>1, <3>1, <3>2, <3>3, <3>4, TwoFramesStep
  <2> QED
    BY <2>3, <2>4
<1>3. ASSUME ExpectSemicolon PROVE IInv'
  <2>1. mode = "return" /\ Top.fn = "statement" /\ Top.fn # "run" /\ ~AtBrace
    BY <1>3 DEF ExpectSemicolon, Receives, AtBrace, At
  <2>2. CASE peek = "semicolon"
    <3>1. it' = After(it) /\ Return(value) /\ UNCHANGED <<tokens, nodes, definitions, reports>>
      BY <1>3, <2>2 DEF ExpectSemicolon, Advance
    <3>2. /\ value \in 1..Len(nodes') /\ NodesInv' /\ Len(nodes) <= Len(nodes')
          /\ it' \in it..Len(tokens)
      BY <2>1, <3>1, Here DEF IInv, ValueInv, NodesInv
    <3> QED
      BY <2>1, <3>1, <3>2, ReturnStep
  <2>3. CASE peek # "semicolon"
    <3>1. Fail("expect_semicolon") /\ "expect_semicolon" \in Message
      BY <1>3, <2>3 DEF ExpectSemicolon, Message
    <3> QED
      BY <2>1, <3>1, FailsHere
  <2> QED
    BY <2>2, <2>3
<1>4. ASSUME PutStatement PROVE IInv'
  <2>1. /\ mode = "return" /\ Top.fn = "block" /\ ~AtBrace /\ Len(stack) > 1
        /\ nodes' = WithChild(nodes, Top.node, value) /\ mode' = "go" /\ value' = 0
        /\ UNCHANGED <<tokens, it, stack, definitions, reports>>
    BY <1>4, Here DEF PutStatement, Receives, AtBrace, At, Continue
  <2>2. Top.node \in 1..Len(nodes) /\ value \in 1..Len(nodes)
    BY <2>1, NodeHere DEF FillingFn, IInv, ValueInv
  <2>3. NodesInv' /\ Len(nodes') = Len(nodes) /\ Len(nodes) \in Nat
    BY <2>1, <2>2, PutHere, Here DEF NodesInv
  <2>4. Rebuilt(Len(stack), <<>>)
    BY <2>1, Same DEF IInv
  <2>5. Opens(<<>>) /\ \A d \in 1..Len(<<>>) : FrameOK(<<>>[d], Len(nodes')) /\ <<>>[d].fn # "run"
    BY DEF Opens
  <2>6. ~At("tail")'
    BY <2>1 DEF At, Top
  <2>7. it' \in it..Len(tokens) /\ value' \in 0..Len(nodes') /\ Len(nodes) <= Len(nodes')
    BY <2>1, <2>3, Here
  <2> QED
    BY <2>1, <2>3, <2>4, <2>5, <2>6, <2>7, GoesOn
<1> QED
  BY <1>1, <1>2, <1>3, <1>4 DEF StatementStep

-----------------------------------------------------------------------------
(* Recovery *)

(***************************************************************************)
(* A step of recovery passes a token, stops at a brace or is at the end of *)
(* the list; there a block is closed before parsing goes on.               *)
(***************************************************************************)
LEMMA RecoversOn ==
  ASSUME IInv, mode = "throw", mode' \in {"go", "return", "throw"}, it' \in it..Len(tokens),
         UNCHANGED <<tokens, reports, definitions, nodes>>,
         value' \in 0..Len(nodes), mode' = "return" => value' # 0,
         NEW keep, Rebuilt(keep, <<>>), ~At("tail")',
         mode' = "throw" \/ it' > it \/ it' = Len(tokens) \/ AtBrace',
         \/ it' = Len(tokens) /\ (mode' = "throw" \/ Len(stack') = 1)
         \/ it < Len(tokens)
         \/ Cardinality(Blocks') < Cardinality(Blocks)
  PROVE  IInv'
<1>1. it \in Nat /\ it' \in Nat /\ Len(tokens) \in Nat /\ it <= it' /\ it' <= Len(tokens) /\ Len(nodes) \in Nat
  BY Here
<1>2. CursorInv' /\ NodesInv'
  BY <1>1 DEF IInv, CursorInv, NodesInv
<1>3. StackInv'
  <2>1. \A d \in 1..Len(<<>>) : FrameOK(<<>>[d], Len(nodes')) /\ <<>>[d].fn # "run"
    OBVIOUS
  <2>2. nodes \in Seq(AnyNode) /\ nodes' \in Seq(AnyNode) /\ Len(nodes) <= Len(nodes')
    BY <1>1 DEF IInv, NodesInv, ArenaOK
  <2> QED
    BY <2>1, <2>2, StackStep DEF IInv
<1>4. ValueInv'
  BY DEF IInv, ValueInv
<1>5. OrderInv'
  <2>1. \A i \in 1..Len(reports) : reports[i].at \in 1..it
    BY DEF IInv, OrderInv
  <2>2. \A i \in 1..Len(reports) : reports[i].at \in 1..it' /\ (it' > it => reports[i].at < it')
    BY <1>1, <2>1
  <2> QED
    BY <2>2 DEF IInv, OrderInv
<1>6. CountInv'
  <2>1. AtEnd' = AtEnd
    BY DEF AtEnd
  <2>2. Opens(<<>>)
    BY DEF Opens
  <2>3. Cardinality(Blocks) \in Nat /\ Cardinality(Blocks') \in Nat
    BY <2>2, BlocksOpened DEF IInv
  <2>4. Cardinality(Blocks') + Cardinality(Passed) <= Cardinality(Blocks) + Cardinality(Passed')
    BY <2>2, BlocksOpened DEF IInv
  <2>5. /\ Cardinality(Passed) <= Cardinality(Passed') /\ Cardinality(Passed) \in Nat
        /\ Cardinality(Passed') \in Nat /\ Cardinality(AtEnd) \in Nat
    BY PassedGrows, Counted DEF IInv
  <2>6. Cardinality(AtEnd) + Cardinality(Blocks) <= Cardinality(Passed) + 1
    BY DEF IInv, CountInv
  <2>7. Cardinality(AtEnd') + Cardinality(Blocks') <= Cardinality(Passed') + 1
    BY <2>1, <2>3, <2>4, <2>5, <2>6
  <2>8. CASE it < Len(tokens)
    <3>1. Cardinality(AtEnd) + Cardinality(Blocks) <= Cardinality(Passed)
      BY <2>8 DEF IInv, CountInv, Paid
    <3>2. Paid'
      BY <2>1, <2>3, <2>4, <2>5, <3>1 DEF Paid
    <3> QED
      BY <2>7, <3>2 DEF CountInv
  <2>9. CASE Cardinality(Blocks') < Cardinality(Blocks)
    <3>1. Paid'
      BY <2>1, <2>3, <2>5, <2>6, <2>9 DEF Paid
    <3> QED
      BY <2>7, <3>1 DEF CountInv
  <2>10. CASE it' = Len(tokens) /\ (mode' = "throw" \/ Len(stack') = 1)
    <3>1. tokens' = tokens /\ it' = Len(tokens) /\ Len(tokens) \in Nat
      BY <1>1, <2>10
    <3>2. ~(it' < Len(tokens'))
      BY <3>1
    <3>3. ~(mode' # "throw" /\ Len(stack') > 1)
      <4>1. Len(stack') = 1 => ~(Len(stack') > 1)
        OBVIOUS
      <4>2. mode' = "throw" \/ Len(stack') = 1
        BY <2>10
      <4> QED
        BY <4>1, <4>2, Zenon
    <3> QED
      BY <2>7, <3>2, <3>3 DEF CountInv
  <2> QED
    BY <2>8, <2>9, <2>10
<1> QED
  BY <1>2, <1>3, <1>4, <1>5, <1>6 DEF IInv

(* Every step of recovery. *)
LEMMA RecoveryStepPreserves ==
  ASSUME IInv, RecoveryStep
  PROVE  IInv'
<1>1. /\ it \in Nat /\ it \in it..Len(tokens) /\ After(it) \in it..Len(tokens) /\ Len(nodes) \in Nat
      /\ value \in 0..Len(nodes) /\ it <= Len(tokens) /\ Len(tokens) \in Nat
  BY Here DEF IInv, ValueInv
<1>2. ASSUME recover_at_definition_level PROVE IInv'
  <2>1. /\ mode = "throw" /\ Top.fn = "run" /\ it' = After(it) /\ mode' \in {"go", "throw"}
        /\ UNCHANGED <<tokens, stack, value, nodes, definitions, reports>>
    BY <1>2 DEF recover_at_definition_level, Advance
  <2>2. Rebuilt(Len(stack), <<>>) /\ Len(stack') = 1
    <3>1. Len(stack) \in Nat /\ Len(stack) > 0
      BY DEF IInv, StackInv
    <3>2. ~(Len(stack) > 1)
      BY <2>1, Here
    <3>3. Len(stack) = 1
      BY <3>1, <3>2
    <3> QED
      BY <2>1, <3>3, Same DEF IInv
  <2>3. ~At("tail")'
    BY <2>1 DEF At, Top
  <2>4. it' > it \/ it' = Len(tokens)
    BY <1>1, <2>1, Here
  <2>5. it' = Len(tokens) \/ it < Len(tokens)
    BY <1>1, <2>1, Here
  <2> QED
    BY <1>1, <2>1, <2>2, <2>3, <2>4, <2>5, RecoversOn
<1>3. ASSUME recover_at_statement_level PROVE IInv'
  <2>1. mode = "throw" /\ Top.fn = "block" /\ Top.fn # "run" /\ UNCHANGED <<tokens, nodes, definitions, reports>>
    BY <1>3 DEF recover_at_statement_level
  <2>2. CASE peek = "end_of_file"
    <3>1. stack' = Tail(stack) /\ mode' = "return" /\ value' = Top.node /\ it' = it
      BY <1>3, <2>2 DEF recover_at_statement_level, Return
    <3>2. Rebuilt(Len(stack) - 1, <<>>) /\ it = Len(tokens)
      BY <2>1, <2>2, <3>1, Popped, Here DEF IInv
    <3>3. Top.node \in 1..Len(nodes) /\ ~At("tail")'
      BY <2>1, <3>1, NodeHere DEF FillingFn, At
    <3>4. Cardinality(Blocks') < Cardinality(Blocks)
      <4>1. Blocks' \subseteq Blocks \ {Len(stack)}
        <5> SUFFICES ASSUME NEW d \in Blocks' PROVE d \in Blocks /\ d # Len(stack)
          OBVIOUS
        <5>1. Len(stack') = Len(stack) - 1 /\ Len(stack) \in Nat
          BY <3>2 DEF Rebuilt, IInv, StackInv
        <5>2. d \in 1..(Len(stack) - 1) /\ FrameAt(stack', d).fn = "block"
          BY <5>1 DEF Blocks
        <5>3. FrameAt(stack, d).fn = "block"
          BY <3>2, <5>2 DEF Rebuilt
        <5> QED
          BY <5>1, <5>2, <5>3 DEF Blocks
      <4>2. Len(stack) \in Blocks
        BY <2>1, BelowTop DEF Blocks, IInv, StackInv
      <4>3. IsFiniteSet(Blocks)
        BY Counted DEF IInv
      <4>4. Cardinality(Blocks') <= Cardinality(Blocks \ {Len(stack)}) /\ Cardinality(Blocks') \in Nat
        BY <4>1, <4>3, FS_Subset, FS_RemoveElement, FS_CardinalityType
      <4>5. Cardinality(Blocks \ {Len(stack)}) = Cardinality(Blocks) - 1 /\ Cardinality(Blocks) \in Nat
        BY <4>2, <4>3, FS_RemoveElement, FS_CardinalityType
      <4> QED
        BY <4>4, <4>5
    <3> QED
      BY <1>1, <2>1, <3>1, <3>2, <3>3, <3>4, RecoversOn
  <2>3. CASE peek # "end_of_file"
    <3>1. /\ it < Len(tokens) /\ After(it) = it + 1
      BY <2>3, Here
    <3>2. stack' = stack /\ value' = value
      BY <1>3, <2>3 DEF recover_at_statement_level
    <3>3. /\ mode' \in {"go", "throw"} /\ it' \in it..Len(tokens)
          /\ mode' = "throw" \/ it' > it \/ AtBrace'
      <4>1. CASE peek = "r_brace"
        <5>1. mode' = "go" /\ it' = it
          BY <1>3, <4>1 DEF recover_at_statement_level
        <5> QED
          BY <1>1, <2>1, <3>2, <4>1, <5>1 DEF AtBrace, At, peek, Top
      <4>2. CASE peek # "r_brace"
        <5>1. mode' \in {"go", "throw"} /\ it' = After(it)
          BY <1>3, <2>1, <2>3, <4>2 DEF recover_at_statement_level, Advance
        <5> QED
          BY <1>1, <3>1, <5>1
      <4> QED
        BY <4>1, <4>2
    <3>4. Rebuilt(Len(stack), <<>>) /\ ~At("tail")'
      BY <2>1, <3>2, Same DEF IInv, At, Top
    <3> QED
      BY <1>1, <2>1, <3>1, <3>2, <3>3, <3>4, RecoversOn
  <2> QED
    BY <2>2, <2>3
<1>4. ASSUME Unwind PROVE IInv'
  <2>1. /\ mode = "throw" /\ Top.fn # "run" /\ stack' = Tail(stack)
        /\ UNCHANGED <<tokens, it, mode, value, nodes, definitions, reports>>
    BY <1>4 DEF Unwind
  <2>2. Rebuilt(Len(stack) - 1, <<>>) /\ ~At("tail")'
    BY <2>1, Popped DEF IInv, At
  <2>3. it' = Len(tokens) \/ it < Len(tokens)
    BY <1>1, <2>1
  <2> QED
    BY <1>1, <2>1, <2>2, <2>3, RecoversOn
<1> QED
  BY <1>2, <1>3, <1>4 DEF RecoveryStep

-----------------------------------------------------------------------------
(* Expressions *)

(* The loop of parse_expression goes on with another expression. *)
LEMMA HeadIsStep ==
  ASSUME IInv, mode \in {"go", "return"}, mode' = "go", Top.fn \in {"expression", "tail"},
         it' \in it..Len(tokens), UNCHANGED <<tokens, definitions, reports>>,
         NodesInv', Len(nodes) <= Len(nodes'), value' \in 0..Len(nodes'),
         NEW id \in 1..Len(nodes'), HeadIs(id)
  PROVE  IInv'
<1> DEFINE f == [Top EXCEPT !.fn = "tail", !.node = id]
           new == <<f>>
<1>1. Top \in AnyFrame /\ Top.fn # "run" /\ ~AtBrace /\ Len(stack) > 1
  BY Here DEF AtBrace, At
<1>2. id \in Nat /\ id <= Len(nodes') /\ id # 0
  BY DEF NodesInv, ArenaOK
<1>3. f \in AnyFrame /\ f.fn = "tail" /\ f.node = id
  BY <1>1, <1>2 DEF AnyFrame, Fn
<1>4. FrameOK(f, Len(nodes'))
  BY <1>2, <1>3 DEF FrameOK
<1>5. stack' = <<f>> \o Tail(stack)
  BY DEF HeadIs
<1> HIDE DEF f
<1>6. Rebuilt(Len(stack) - 1, new)
  BY <1>1, <1>3, <1>5, Replaced DEF IInv
<1>7. new # <<>> /\ Len(new) = 1 /\ new[1] = f
  OBVIOUS
<1> HIDE DEF new
<1>8. Top' = f
  BY <1>6, <1>7, NewTop DEF IInv
<1>9. Opens(new)
  BY <1>3, <1>7 DEF Opens
<1>10. \A d \in 1..Len(new) : FrameOK(new[d], Len(nodes')) /\ new[d].fn # "run"
  BY <1>3, <1>4, <1>7
<1>11. At("tail")' => Top'.node # 0
  BY <1>2, <1>3, <1>8
<1> QED
  BY <1>1, <1>6, <1>9, <1>10, <1>11, GoesOn

(* A head that waits for an operand or values: three frames in place of the top one. *)
LEMMA ThreeFramesStep ==
  ASSUME IInv, mode = "go", mode' = "go", Top.fn = "expression", it' \in it..Len(tokens),
         UNCHANGED <<tokens, definitions, reports>>,
         NodesInv', Len(nodes) <= Len(nodes'), value' \in 0..Len(nodes'),
         NEW f \in AnyFrame, NEW g \in AnyFrame, NEW h \in AnyFrame,
         stack' = <<h, g, f>> \o Tail(stack),
         FrameOK(f, Len(nodes')), f.fn \notin {"run", "block"},
         FrameOK(g, Len(nodes')), g.fn \notin {"run", "block"},
         FrameOK(h, Len(nodes')), h.fn = "expression"
  PROVE  IInv'
<1> DEFINE new == <<f, g, h>>
<1>1. Top.fn # "run" /\ ~AtBrace /\ Len(stack) > 1
  BY Here DEF AtBrace, At
<1>2. Rebuilt(Len(stack) - 1, new)
  BY <1>1, ReplacedThree DEF IInv
<1>3. new # <<>> /\ Len(new) = 3 /\ new[1] = f /\ new[2] = g /\ new[3] = h
  OBVIOUS
<1> HIDE DEF new
<1>4. Top' = h
  BY <1>2, <1>3, NewTop DEF IInv
<1>5. \A d \in 1..Len(new) : new[d] = f \/ new[d] = g \/ new[d] = h
  BY <1>3
<1>6. Opens(new)
  BY <1>5 DEF Opens
<1>7. \A d \in 1..Len(new) : FrameOK(new[d], Len(nodes')) /\ new[d].fn # "run"
  BY <1>5
<1>8. ~At("tail")'
  BY <1>4 DEF At
<1> QED
  BY <1>1, <1>2, <1>6, <1>7, <1>8, GoesOn

(* The frame of the expression itself, which goes on as a loop later. *)
LEMMA LoopFrame ==
  ASSUME IInv, Top.fn = "expression", NEW size \in Nat, Len(nodes) <= size
  PROVE  /\ [Top EXCEPT !.fn = "tail"] \in AnyFrame /\ [Top EXCEPT !.fn = "tail"].fn = "tail"
         /\ FrameOK([Top EXCEPT !.fn = "tail"], size)
<1>1. Top \in AnyFrame /\ Top.node \in Nat /\ FrameOK(Top, Len(nodes)) /\ Len(nodes) \in Nat
  BY Here DEF AnyFrame
<1> DEFINE f == [Top EXCEPT !.fn = "tail"]
<1>2. f \in AnyFrame /\ f.fn = "tail" /\ f.node = Top.node
  BY <1>1 DEF AnyFrame, Fn
<1> HIDE DEF f
<1>3. FrameOK(f, size)
  BY <1>1, <1>2 DEF FrameOK, FillingFn, SignatureFn
<1> QED
  BY <1>2, <1>3 DEF f

(* The kinds of tokens that heads are written with give operators. *)
LEMMA HeadOps ==
  /\ \A kind \in DOMAIN PrefixOperator : PrefixOperator[kind] \in NodeOp
  /\ \A kind \in DOMAIN PostfixOperator : PostfixOperator[kind] \in NodeOp
  /\ LiteralKind \subseteq NodeOp /\ "none" \in NodeOp
BY DEF NodeOp, Operators

(* Every step before the loop of parse_expression. *)
LEMMA HeadStepPreserves ==
  ASSUME IInv, HeadStep
  PROVE  IInv'
<1>1. mode = "go" /\ Top.fn = "expression" /\ Top.fn # "run" /\ ~AtBrace /\ Len(stack) > 1
  BY Here DEF HeadStep, ExpressionMissing, on_leaf, on_prefix_left_brace, on_kw_return,
              on_prefix_operator, At, AtBrace
<1>2. /\ Len(nodes) \in Nat /\ value \in 0..Len(nodes) /\ After(it) \in it..Len(tokens)
      /\ tokens[it].offset \in 0..source_size_max /\ <<>> \in Seq(1..Len(nodes))
  BY Here DEF IInv, ValueInv
<1>3. ASSUME ExpressionMissing PROVE IInv'
  <2>1. Fail("expect_expression") /\ "expect_expression" \in Message
    BY <1>3 DEF ExpressionMissing, Message
  <2> QED
    BY <1>1, <2>1, FailsHere
<1>4. ASSUME NEW kind \in NodeKind, NEW op \in NodeOp,
             nodes' = Append(nodes, Node(kind, op, tokens[it].offset, <<>>)),
             UNCHANGED <<tokens, mode, value, definitions, reports>>
      PROVE  /\ NodesInv' /\ Len(nodes') = Len(nodes) + 1 /\ NewId = Len(nodes') /\ Len(nodes') \in Nat
             /\ value' \in 0..Len(nodes') /\ Len(nodes) <= Len(nodes') /\ NewId \in 1..Len(nodes')
  <2>1. NodesInv' /\ Len(nodes') = Len(nodes) + 1 /\ NewId = Len(nodes')
    BY <1>2, <1>4, CreatedHere
  <2> QED
    BY <1>2, <1>4, <2>1
<1>5. ASSUME on_leaf PROVE IInv'
  <2> DEFINE kind == IF peek = "identifier" THEN "ident_expr" ELSE "literal_expr"
             op == IF peek = "identifier" THEN "none" ELSE peek
  <2>1. /\ nodes' = Append(nodes, Node(kind, op, tokens[it].offset, <<>>))
        /\ it' = After(it) /\ HeadIs(NewId) /\ UNCHANGED <<tokens, mode, value, definitions, reports>>
    BY <1>5 DEF on_leaf, Create, Advance
  <2>2. kind \in NodeKind /\ op \in NodeOp
    BY <1>5, HeadOps DEF NodeKind, on_leaf
  <2> HIDE DEF kind, op
  <2>3. /\ NodesInv' /\ value' \in 0..Len(nodes') /\ Len(nodes) <= Len(nodes') /\ NewId \in 1..Len(nodes')
    BY <1>4, <2>1, <2>2
  <2> QED
    BY <1>1, <1>2, <2>1, <2>3, HeadIsStep
<1>6. ASSUME on_prefix_left_brace PROVE IInv'
  <2> DEFINE f == [Top EXCEPT !.fn = "tail"]
             g == Frame("block", NewId, statement)
  <2>1. /\ nodes' = Append(nodes, Node("block_expr", "none", tokens[it].offset, <<>>))
        /\ it' = After(it) /\ peek = "l_brace" /\ stack' = <<g, f>> \o Tail(stack)
        /\ UNCHANGED <<tokens, mode, value, definitions, reports>>
    BY <1>6 DEF on_prefix_left_brace, Create, Advance, BecomeAndCall
  <2>2. "block_expr" \in NodeKind /\ "none" \in NodeOp
    BY HeadOps DEF NodeKind
  <2>3. /\ NodesInv' /\ value' \in 0..Len(nodes') /\ Len(nodes) <= Len(nodes') /\ NewId \in 1..Len(nodes')
        /\ Len(nodes') \in Nat
    BY <1>4, <2>1, <2>2
  <2>4. f \in AnyFrame /\ f.fn = "tail" /\ FrameOK(f, Len(nodes'))
    BY <1>1, <2>3, LoopFrame
  <2>5. g \in AnyFrame /\ g.fn = "block" /\ FrameOK(g, Len(nodes'))
    BY <2>3, FillingFrame DEF Fn
  <2>6. it' > it /\ mode' = "go"
    BY <1>1, <2>1, Here
  <2> HIDE DEF f, g
  <2> QED
    BY <1>1, <1>2, <2>1, <2>3, <2>4, <2>5, <2>6, TwoFramesStep
<1>7. ASSUME on_kw_return PROVE IInv'
  <2>1. /\ nodes' = Append(nodes, Node("return_expr", "none", tokens[it].offset, <<>>))
        /\ it' = After(it) /\ mode' = "go"
        /\ UNCHANGED <<tokens, mode, value, definitions, reports>>
    BY <1>1, <1>7 DEF on_kw_return, Create, Advance
  <2>2. "return_expr" \in NodeKind /\ "none" \in NodeOp
    BY HeadOps DEF NodeKind
  <2>3. /\ NodesInv' /\ value' \in 0..Len(nodes') /\ Len(nodes) <= Len(nodes') /\ NewId \in 1..Len(nodes')
        /\ Len(nodes') \in Nat
    BY <1>4, <2>1, <2>2
  <2>4. CASE tokens[After(it)].kind \in HeadKind
    <3> DEFINE f == [Top EXCEPT !.fn = "tail"]
               g == Frame("return_values", NewId, statement)
               h == Expression(statement)
    <3>1. stack' = <<h, g, f>> \o Tail(stack)
      BY <1>7, <2>4 DEF on_kw_return
    <3>2. f \in AnyFrame /\ f.fn = "tail" /\ FrameOK(f, Len(nodes'))
      BY <1>1, <2>3, LoopFrame
    <3>3. g \in AnyFrame /\ g.fn = "return_values" /\ FrameOK(g, Len(nodes'))
      BY <2>3, FillingFrame DEF Fn
    <3>4. h \in AnyFrame /\ h.fn = "expression" /\ FrameOK(h, Len(nodes'))
      BY <2>3, ExpressionFrame DEF statement, postfix
    <3> HIDE DEF f, g, h
    <3> QED
      BY <1>1, <1>2, <2>1, <2>3, <3>1, <3>2, <3>3, <3>4, ThreeFramesStep
  <2>5. CASE tokens[After(it)].kind \notin HeadKind
    <3>1. HeadIs(NewId)
      BY <1>7, <2>5 DEF on_kw_return
    <3> QED
      BY <1>1, <1>2, <2>1, <2>3, <3>1, HeadIsStep
  <2> QED
    BY <2>4, <2>5
<1>8. ASSUME on_prefix_operator PROVE IInv'
  <2> DEFINE f == [Top EXCEPT !.fn = "tail"]
             g == Frame("operand", NewId, statement)
             h == Expression(prefix)
  <2>1. /\ nodes' = Append(nodes, Node("unary_expr", PrefixOperator[peek], tokens[it].offset, <<>>))
        /\ it' = After(it) /\ mode' = "go" /\ stack' = <<h, g, f>> \o Tail(stack)
        /\ UNCHANGED <<tokens, mode, value, definitions, reports>>
    BY <1>1, <1>8 DEF on_prefix_operator, Create, Advance
  <2>2. "unary_expr" \in NodeKind /\ PrefixOperator[peek] \in NodeOp
    BY <1>8, HeadOps DEF NodeKind, on_prefix_operator
  <2>3. /\ NodesInv' /\ value' \in 0..Len(nodes') /\ Len(nodes) <= Len(nodes') /\ NewId \in 1..Len(nodes')
        /\ Len(nodes') \in Nat
    BY <1>4, <2>1, <2>2
  <2>4. f \in AnyFrame /\ f.fn = "tail" /\ FrameOK(f, Len(nodes'))
    BY <1>1, <2>3, LoopFrame
  <2>5. g \in AnyFrame /\ g.fn = "operand" /\ FrameOK(g, Len(nodes'))
    BY <2>3, FillingFrame DEF Fn
  <2>6. h \in AnyFrame /\ h.fn = "expression" /\ FrameOK(h, Len(nodes'))
    BY <2>3, ExpressionFrame DEF statement, prefix, postfix
  <2> HIDE DEF f, g, h
  <2> QED
    BY <1>1, <1>2, <2>1, <2>3, <2>4, <2>5, <2>6, ThreeFramesStep
<1> QED
  BY <1>3, <1>5, <1>6, <1>7, <1>8 DEF HeadStep

(* What lookup_tail_parse_rule answers, except for calls, are operators of nodes. *)
LEMMA RuleOps ==
  ASSUME NEW p, tokens[p].kind # "l_paren"
  PROVE  TailRule(p).op \in NodeOp
<1>1. /\ \A kind \in DOMAIN AssignOperator : AssignOperator[kind] \in NodeOp
      /\ \A kind \in DOMAIN LogicalOperator : LogicalOperator[kind] \in NodeOp
      /\ \A kind \in DOMAIN ComparisonOperator : ComparisonOperator[kind] \in NodeOp
      /\ \A kind \in DOMAIN AdditiveOperator : AdditiveOperator[kind] \in NodeOp
      /\ \A kind \in DOMAIN MultiplicativeOperator : MultiplicativeOperator[kind] \in NodeOp
      /\ \A kind \in DOMAIN PostfixOperator : PostfixOperator[kind] \in NodeOp
      /\ "shr" \in NodeOp /\ "greater" \in NodeOp /\ "none" \in NodeOp
  BY DEF NodeOp, Operators
<1> QED
  BY <1>1 DEF TailRule

(* The right operand of an operator is asked for one of the precedences. *)
LEMMA PrecedenceTyped ==
  ASSUME NEW op
  PROVE  lookup_precedence_for_associativity(op) \in statement..postfix
BY DEF lookup_precedence_for_associativity, statement, assignment, logical, comparison,
       additive_or_bit, multiplicative, postfix

(* Every step of the loop of parse_expression and of what it calls. *)
LEMMA TailStepPreserves ==
  ASSUME IInv, TailStep
  PROVE  IInv'
<1>1. /\ Len(nodes) \in Nat /\ value \in 0..Len(nodes) /\ it \in it..Len(tokens)
      /\ After(it) \in it..Len(tokens) /\ After(After(it)) \in it..Len(tokens)
      /\ ArenaOK(nodes) /\ NodesInv
  BY Here DEF IInv, ValueInv, NodesInv
<1>2. mode = "return" => value \in 1..Len(nodes)
  BY <1>1 DEF IInv, ValueInv
<1>3. ASSUME At("tail")
      PROVE  /\ Top.node \in 1..Len(nodes) /\ <<Top.node>> \in Seq(1..Len(nodes))
             /\ nodes[Top.node].offset \in 0..source_size_max
  <2>1. Top.node \in 1..Len(nodes)
    BY <1>3, Here DEF IInv, ValueInv, FrameOK, AnyFrame
  <2>2. nodes[Top.node] \in AnyNode
    BY <2>1, <1>1 DEF ArenaOK
  <2> QED
    BY <2>1, <2>2 DEF AnyNode
<1>4. ASSUME NEW kind \in NodeKind, NEW op \in NodeOp, At("tail"),
             nodes' = Append(nodes, Node(kind, op, nodes[Top.node].offset, <<Top.node>>)),
             UNCHANGED <<tokens, mode, value, definitions, reports>>
      PROVE  /\ NodesInv' /\ value' \in 0..Len(nodes') /\ Len(nodes) <= Len(nodes')
             /\ NewId \in 1..Len(nodes') /\ Len(nodes') \in Nat
  <2>1. NodesInv' /\ Len(nodes') = Len(nodes) + 1 /\ NewId = Len(nodes')
    BY <1>3, <1>4, CreatedHere
  <2> QED
    BY <1>1, <1>4, <2>1
<1>5. ASSUME GoOnWith PROVE IInv'
  <2>1. /\ mode = "return" /\ Top.fn = "tail" /\ HeadIs(value) /\ mode' = "go" /\ value' = 0
        /\ UNCHANGED <<tokens, it, nodes, definitions, reports>>
    BY <1>5 DEF GoOnWith, Receives, Continue
  <2>2. NodesInv' /\ Len(nodes) <= Len(nodes') /\ value' \in 0..Len(nodes') /\ value \in 1..Len(nodes')
    BY <1>1, <1>2, <2>1 DEF NodesInv
  <2> QED
    BY <1>1, <2>1, <2>2, HeadIsStep
<1>6. ASSUME EndExpression PROVE IInv'
  <2>1. /\ At("tail") /\ mode = "go" /\ Top.fn # "run" /\ ~AtBrace /\ Return(Top.node)
        /\ UNCHANGED <<tokens, it, nodes, definitions, reports>>
    BY <1>6 DEF EndExpression, At, AtBrace
  <2>2. NodesInv' /\ Len(nodes) <= Len(nodes') /\ Top.node \in 1..Len(nodes')
    BY <1>1, <1>3, <2>1 DEF NodesInv
  <2> QED
    BY <1>1, <2>1, <2>2, ReturnStep
<1>7. ASSUME on_binary_operator PROVE IInv'
  <2> DEFINE op == TailRule(it).op
             f == Frame("operand", NewId, statement)
             g == Expression(lookup_precedence_for_associativity(op))
  <2>1. /\ At("tail") /\ mode = "go" /\ mode' = "go" /\ Top.fn = "tail" /\ ~AtBrace /\ Len(stack) > 1
        /\ peek # "l_paren"
        /\ it' = IF op = "shr" THEN After(After(it)) ELSE After(it)
        /\ nodes' = Append(nodes, Node("binary_expr", op, nodes[Top.node].offset, <<Top.node>>))
        /\ stack' = <<g, f>> \o stack
        /\ UNCHANGED <<tokens, mode, value, definitions, reports>>
    BY <1>7, Here DEF on_binary_operator, Create, At, AtBrace
  <2>2. op \in NodeOp /\ "binary_expr" \in NodeKind
    BY <2>1, RuleOps DEF peek, NodeKind
  <2>3. g \in AnyFrame /\ g.fn = "expression" /\ \A size \in Nat : FrameOK(g, size)
    BY PrecedenceTyped, ExpressionFrame
  <2> HIDE DEF op, g
  <2>4. /\ NodesInv' /\ value' \in 0..Len(nodes') /\ Len(nodes) <= Len(nodes')
        /\ NewId \in 1..Len(nodes') /\ Len(nodes') \in Nat
    BY <1>4, <2>1, <2>2
  <2>5. f \in AnyFrame /\ f.fn = "operand" /\ FrameOK(f, Len(nodes'))
    BY <2>4, FillingFrame DEF Fn
  <2>6. it' \in it..Len(tokens)
    BY <1>1, <2>1
  <2> HIDE DEF f
  <2> QED
    BY <2>1, <2>3, <2>4, <2>5, <2>6, TwoFramesStep
<1>8. ASSUME on_postfix_operator PROVE IInv'
  <2>1. /\ At("tail") /\ mode = "go" /\ mode' = "go" /\ Top.fn = "tail" /\ it' = After(it) /\ HeadIs(NewId)
        /\ nodes' = Append(nodes, Node("unary_expr", PostfixOperator[peek], nodes[Top.node].offset, <<Top.node>>))
        /\ UNCHANGED <<tokens, mode, value, definitions, reports>>
    BY <1>8 DEF on_postfix_operator, Create, At, Advance
  <2>2. PostfixOperator[peek] \in NodeOp /\ "unary_expr" \in NodeKind
    BY <1>8, HeadOps DEF on_postfix_operator, NodeKind
  <2>3. /\ NodesInv' /\ value' \in 0..Len(nodes') /\ Len(nodes) <= Len(nodes') /\ NewId \in 1..Len(nodes')
    BY <1>4, <2>1, <2>2
  <2> QED
    BY <1>1, <2>1, <2>3, HeadIsStep
<1>9. ASSUME on_infix_left_paren PROVE IInv'
  <2>1. /\ At("tail") /\ mode = "go" /\ mode' = "go" /\ Top.fn = "tail" /\ ~AtBrace /\ Len(stack) > 1
        /\ nodes' = Append(nodes, Node("call_expr", "none", nodes[Top.node].offset, <<Top.node>>))
        /\ UNCHANGED <<tokens, mode, value, definitions, reports>>
    BY <1>9, Here DEF on_infix_left_paren, Create, At, AtBrace
  <2>2. "none" \in NodeOp /\ "call_expr" \in NodeKind
    BY HeadOps DEF NodeKind
  <2>3. /\ NodesInv' /\ value' \in 0..Len(nodes') /\ Len(nodes) <= Len(nodes')
        /\ NewId \in 1..Len(nodes') /\ Len(nodes') \in Nat
    BY <1>4, <2>1, <2>2
  <2>4. CASE tokens[After(it)].kind = "r_paren"
    <3>1. it' = After(After(it)) /\ HeadIs(NewId)
      BY <1>9, <2>4 DEF on_infix_left_paren
    <3> QED
      BY <1>1, <2>1, <2>3, <3>1, HeadIsStep
  <2>5. CASE tokens[After(it)].kind # "r_paren"
    <3> DEFINE f == Frame("arguments", NewId, statement)
               g == Expression(statement)
    <3>1. it' = After(it) /\ stack' = <<g, f>> \o stack
      BY <1>9, <2>5 DEF on_infix_left_paren, Advance
    <3>2. f \in AnyFrame /\ f.fn = "arguments" /\ FrameOK(f, Len(nodes'))
      BY <2>3, FillingFrame DEF Fn
    <3>3. g \in AnyFrame /\ g.fn = "expression" /\ FrameOK(g, Len(nodes'))
      BY <2>3, ExpressionFrame DEF statement, postfix
    <3> HIDE DEF f, g
    <3> QED
      BY <1>1, <2>1, <2>3, <3>1, <3>2, <3>3, TwoFramesStep
  <2> QED
    BY <2>4, <2>5
<1>10. ASSUME mode = "return", Top.fn \in FillingFn
       PROVE  /\ ArenaOK(WithChild(nodes, Top.node, value)) /\ Top.node \in 1..Len(nodes)
              /\ Len(WithChild(nodes, Top.node, value)) = Len(nodes)
  BY <1>2, <1>10, NodeHere, PutHere
<1>11. ASSUME TakeOperand PROVE IInv'
  <2>1. /\ mode = "return" /\ Top.fn = "operand" /\ Top.fn # "run" /\ ~AtBrace /\ Return(Top.node)
        /\ nodes' = WithChild(nodes, Top.node, value) /\ UNCHANGED <<tokens, it, definitions, reports>>
    BY <1>11 DEF TakeOperand, Receives, AtBrace, At
  <2>2. NodesInv' /\ Len(nodes) <= Len(nodes') /\ Top.node \in 1..Len(nodes')
    BY <1>1, <1>10, <2>1 DEF NodesInv, FillingFn
  <2> QED
    BY <1>1, <2>1, <2>2, ReturnStep
<1>12. ASSUME mode = "return", mode' = "go", Top.fn \in {"return_values", "arguments"}, value' = 0,
              nodes' = WithChild(nodes, Top.node, value), it' = After(it),
              Call(Expression(statement)), UNCHANGED <<tokens, definitions, reports>>
       PROVE  IInv'
  <2>1. NodesInv' /\ Len(nodes) <= Len(nodes') /\ value' \in 0..Len(nodes') /\ Len(nodes') \in Nat
    BY <1>1, <1>10, <1>12 DEF NodesInv, FillingFn
  <2> DEFINE g == Expression(statement)
  <2>2. g \in AnyFrame /\ g.fn = "expression" /\ FrameOK(g, Len(nodes'))
    BY <2>1, ExpressionFrame DEF statement, postfix
  <2> HIDE DEF g
  <2>3. ~AtBrace /\ Len(stack) > 1
    BY <1>12, Here DEF AtBrace, At
  <2> QED
    BY <1>1, <1>12, <2>1, <2>2, <2>3, CallStep DEF g
<1>13. ASSUME mode = "return", Top.fn \in {"return_values", "arguments"},
              nodes' = WithChild(nodes, Top.node, value), it' = it \/ it' = After(it),
              Return(Top.node), UNCHANGED <<tokens, definitions, reports>>
       PROVE  IInv'
  <2>1. NodesInv' /\ Len(nodes) <= Len(nodes') /\ Top.node \in 1..Len(nodes')
    BY <1>1, <1>10, <1>13 DEF NodesInv, FillingFn
  <2>2. ~AtBrace /\ Top.fn # "run" /\ it' \in it..Len(tokens)
    BY <1>1, <1>13 DEF AtBrace, At
  <2> QED
    BY <1>13, <2>1, <2>2, ReturnStep
<1>14. ASSUME TakeReturnValue PROVE IInv'
  <2>1. CASE peek = "comma"
    BY <1>12, <1>14, <2>1 DEF TakeReturnValue, Receives, Advance, Continue
  <2>2. CASE peek # "comma"
    BY <1>13, <1>14, <2>2 DEF TakeReturnValue, Receives
  <2> QED
    BY <2>1, <2>2
<1>15. ASSUME TakeArgument PROVE IInv'
  <2>1. mode = "return" /\ Top.fn = "arguments" /\ Top.fn # "run" /\ ~AtBrace
    BY <1>15 DEF TakeArgument, Receives, AtBrace, At
  <2>2. CASE peek = "comma"
    <3>1. /\ nodes' = WithChild(nodes, Top.node, value) /\ it' = After(it) /\ Call(Expression(statement))
          /\ mode' = "go" /\ value' = 0 /\ UNCHANGED <<tokens, definitions, reports>>
      BY <1>15, <2>2 DEF TakeArgument, Advance, Continue
    <3> QED
      BY <1>12, <2>1, <3>1
  <2>3. CASE peek = "r_paren"
    <3>1. /\ nodes' = WithChild(nodes, Top.node, value) /\ it' = After(it) /\ Return(Top.node)
          /\ UNCHANGED <<tokens, definitions, reports>>
      BY <1>15, <2>3 DEF TakeArgument, Advance
    <3> QED
      BY <1>13, <2>1, <3>1
  <2>4. CASE peek \notin {"comma", "r_paren"}
    <3>1. /\ FailAt("expect_closing_paren_in_call", it, WithChild(nodes, Top.node, value))
          /\ "expect_closing_paren_in_call" \in Message
      BY <1>15, <2>4 DEF TakeArgument, Message
    <3>2. ArenaOK(WithChild(nodes, Top.node, value)) /\ Len(nodes) <= Len(WithChild(nodes, Top.node, value))
      BY <1>1, <1>10, <2>1 DEF FillingFn
    <3> QED
      BY <1>1, <2>1, <3>1, <3>2, FailStep
  <2> QED
    BY <2>2, <2>3, <2>4
<1> QED
  BY <1>5, <1>6, <1>7, <1>8, <1>9, <1>11, <1>14, <1>15 DEF TailStep

-----------------------------------------------------------------------------
(* The theorems *)

(* run_parser begins with run alone on the stack and nothing reported. *)
LEMMA InitInv ==
  ASSUME Init
  PROVE  IInv
<1>1. tokens \in Inputs /\ Len(tokens) \in Nat /\ Len(tokens) > 0 /\ it = 1
  BY InputsAssumption DEF Init
<1>2. CursorInv
  BY <1>1 DEF CursorInv
<1>3. NodesInv
  BY DEF Init, NodesInv, ArenaOK
<1> DEFINE frame == Frame("run", 0, statement)
<1>4. frame \in AnyFrame /\ frame.fn = "run" /\ frame.node = 0
  BY DEF Frame, AnyFrame, Fn, statement, postfix
<1>5. stack = <<frame>>
  BY DEF Init
<1> HIDE DEF frame
<1>6. stack \in Seq(AnyFrame) /\ Len(stack) = 1 /\ stack[1] = frame
  BY <1>4, <1>5
<1>7. FrameAt(stack, 1) = frame /\ Top = frame
  BY <1>6 DEF FrameAt, Top
<1>8. StackInv
  <2>1. ASSUME NEW d \in 1..Len(stack) PROVE d = 1
    BY <1>6
  <2>2. FrameOK(frame, Len(nodes))
    BY <1>4 DEF FrameOK, FillingFn, SignatureFn, Init
  <2> QED
    BY <1>4, <1>6, <1>7, <2>1, <2>2 DEF StackInv
<1>9. ValueInv
  BY <1>4, <1>7 DEF Init, ValueInv, At
<1>10. OrderInv
  BY DEF Init, OrderInv
<1>11. CountInv
  <2>1. AtEnd = {}
    BY DEF Init, AtEnd
  <2>2. Blocks = {}
    BY <1>4, <1>6, <1>7 DEF Blocks
  <2>3. Passed = {}
    BY <1>1 DEF Passed
  <2> QED
    BY <2>1, <2>2, <2>3, FS_EmptySet DEF CountInv, Paid
<1> QED
  BY <1>2, <1>3, <1>8, <1>9, <1>10, <1>11 DEF IInv

(* Nothing of the invariant depends on anything but the variables. *)
LEMMA StutterPreserves ==
  ASSUME IInv, UNCHANGED vars
  PROVE  IInv'
<1>1. CursorInv' /\ NodesInv'
  BY DEF vars, IInv, CursorInv, NodesInv
<1>2. StackInv'
  BY DEF vars, IInv, StackInv
<1>3. ValueInv'
  BY DEF vars, IInv, ValueInv, At, Top
<1>4. OrderInv'
  BY DEF vars, IInv, OrderInv, AtBrace, At, Top, peek
<1>5. CountInv'
  BY DEF vars, IInv, CountInv, Paid, AtEnd, Blocks, Passed
<1> QED
  BY <1>1, <1>2, <1>3, <1>4, <1>5 DEF IInv

(* Every step of every function keeps the invariant. *)
LEMMA NextPreserves ==
  ASSUME IInv, Next
  PROVE  IInv'
BY DefinitionStepPreserves, StatementStepPreserves, RecoveryStepPreserves, HeadStepPreserves,
   TailStepPreserves, StutterPreserves DEF Next, Returned

(***************************************************************************)
(* In every state of run_parser the cursor is in the list, run is at the   *)
(* bottom of the stack, frames and nodes refer to nodes that exist, the    *)
(* reports are behind the cursor, and every report about the end of the    *)
(* list but one is paid for by an opening brace.                           *)
(***************************************************************************)
THEOREM Inductive == Spec => []IInv
<1>1. Init => IInv
  BY InitInv
<1>2. IInv /\ [Next]_vars => IInv'
  BY NextPreserves, StutterPreserves
<1> QED
  BY <1>1, <1>2, PTL DEF Spec

(* The parser only reads the token list. *)
LEMMA TokensStay ==
  ASSUME Next
  PROVE  tokens' = tokens
<1> USE DEF FailAt, Fail, Expect
<1>1. CASE DefinitionStep
  BY <1>1 DEF DefinitionStep, FinishRun, parse_definition, PutDefinition, ExpectParen,
     NoParameters, SomeParameters, parse_function_definition_parameter, MoreParameters,
     parse_function_definition_outputs, parse_function_definition_output, MoreOutputs,
     ExpectBody, ReturnDefinition
<1>2. CASE StatementStep
  BY <1>2 DEF StatementStep, CloseBlock, parse_statement, ExpectSemicolon, PutStatement
<1>3. CASE RecoveryStep
  BY <1>3 DEF RecoveryStep, recover_at_definition_level, recover_at_statement_level, Unwind
<1>4. CASE HeadStep
  BY <1>4 DEF HeadStep, ExpressionMissing, on_leaf, on_prefix_left_brace, on_kw_return,
     on_prefix_operator
<1>5. CASE TailStep
  BY <1>5 DEF TailStep, GoOnWith, EndExpression, on_binary_operator, on_postfix_operator,
     on_infix_left_paren, TakeOperand, TakeReturnValue, TakeArgument
<1>6. CASE Returned
  BY <1>6 DEF Returned, vars
<1> QED
  BY <1>1, <1>2, <1>3, <1>4, <1>5, <1>6 DEF Next

(* A sequence of elements of a set is one over that set. *)
LEMMA SeqOfElements ==
  ASSUME NEW S, NEW T, NEW s \in Seq(S), \A i \in 1..Len(s) : s[i] \in T
  PROVE  s \in Seq(T)
<1>1. Len(s) \in Nat /\ s = [i \in 1..Len(s) |-> s[i]]
  OBVIOUS
<1> QED
  BY <1>1

(* The invariant includes the types. *)
LEMMA InvTyped ==
  ASSUME IInv
  PROVE  TypeOK
<1>1. tokens \in Seq(TokenType) /\ it \in 1..Len(tokens) /\ Len(tokens) \in Nat
  BY InputsAssumption DEF IInv, CursorInv
<1>2. Len(nodes) \in Nat /\ nodes \in Seq(AnyNode)
  BY DEF IInv, NodesInv, ArenaOK
<1>3. stack \in Seq(FrameType) /\ Len(stack) > 0
  <2>1. stack \in Seq(AnyFrame) /\ Len(stack) \in Nat /\ Len(stack) > 0
    BY DEF IInv, StackInv
  <2>2. ASSUME NEW i \in 1..Len(stack) PROVE stack[i] \in FrameType
    <3>1. Len(stack) + 1 - i \in 1..Len(stack) /\ Len(stack) + 1 - (Len(stack) + 1 - i) = i
      BY <2>1
    <3>2. stack[i] = FrameAt(stack, Len(stack) + 1 - i)
      BY <3>1 DEF FrameAt
    <3>3. stack[i] \in AnyFrame /\ stack[i].node <= Len(nodes)
      BY <2>1, <3>1, <3>2 DEF IInv, StackInv, FrameOK
    <3> QED
      BY <1>2, <3>3 DEF AnyFrame, FrameType, Fn
  <2> QED
    BY <2>1, <2>2, SeqOfElements
<1>4. nodes \in Seq(NodeType)
  <2>1. ASSUME NEW n \in 1..Len(nodes) PROVE nodes[n] \in NodeType
    <3>1. nodes[n] \in AnyNode
      BY <1>2
    <3>2. \A c \in 1..Len(nodes[n].children) : nodes[n].children[c] \in 1..Len(nodes)
      BY DEF IInv, NodesInv, ArenaOK
    <3>3. nodes[n].children \in Seq(Nat)
      BY <3>1 DEF AnyNode
    <3>4. nodes[n].children \in Seq(1..Len(nodes))
      BY <3>2, <3>3, SeqOfElements
    <3> QED
      BY <3>1, <3>4 DEF AnyNode, NodeType
  <2> QED
    BY <1>2, <2>1, SeqOfElements
<1>5. mode \in {"go", "return", "throw", "done"} /\ value \in 0..Len(nodes)
  BY DEF IInv, ValueInv
<1>6. definitions \in Seq(1..Len(nodes))
  <2>1. definitions \in Seq(Nat) /\ \A i \in 1..Len(definitions) : definitions[i] \in 1..Len(nodes)
    BY DEF IInv, ValueInv
  <2> QED
    BY <2>1, SeqOfElements
<1>7. reports \in Seq([message : Message, at : 1..Len(tokens)])
  <2>1. reports \in Seq([message : Message, at : Nat]) /\ \A i \in 1..Len(reports) : reports[i].at \in 1..it
    BY DEF IInv, OrderInv
  <2>2. ASSUME NEW i \in 1..Len(reports) PROVE reports[i] \in [message : Message, at : 1..Len(tokens)]
    <3>1. reports[i] \in [message : Message, at : Nat]
      BY <2>1, ElementOfSeq
    <3>2. reports[i].at \in 1..Len(tokens)
      <4>1. reports[i].at \in 1..it
        BY <2>1
      <4> QED
        BY <1>1, <4>1
    <3> QED
      BY <3>1, <3>2
  <2> DEFINE Report == [message : Message, at : 1..Len(tokens)]
  <2>3. \A i \in 1..Len(reports) : reports[i] \in Report
    BY <2>2
  <2> HIDE DEF Report
  <2>4. reports \in Seq(Report)
    BY <2>1, <2>3, SeqOfElements
  <2> QED
    BY <2>4 DEF Report
<1> QED
  BY <1>1, <1>3, <1>4, <1>5, <1>6, <1>7 DEF TypeOK

(***************************************************************************)
(* The cursor never leaves the token list, a return always finds a caller, *)
(* and every pointer in the tree, on the stack and in the list of          *)
(* definitions is to a node that was created.                              *)
(***************************************************************************)
THEOREM TypeCorrect == Spec => []TypeOK
<1>1. IInv => TypeOK
  BY InvTyped
<1> QED
  BY <1>1, Inductive, PTL

(* The invariant includes the order of reports; what was passed pays for those at the end. *)
LEMMA InvOrdered ==
  ASSUME IInv
  PROVE  ReportsInOrder
<1> DEFINE braces == {p \in 1..Len(tokens) : tokens[p].kind = "l_brace"}
<1>1. it \in 1..Len(tokens) /\ Len(tokens) \in Nat
  BY InputsAssumption DEF IInv, CursorInv
<1>2. /\ Cardinality(AtEnd) \in Nat /\ Cardinality(Blocks) \in Nat /\ Cardinality(Passed) \in Nat
  BY Counted DEF IInv
<1>3. Cardinality(AtEnd) + Cardinality(Blocks) <= Cardinality(Passed) + 1
  BY DEF IInv, CountInv
<1>4. Passed \subseteq braces
  BY <1>1 DEF Passed
<1>5. IsFiniteSet(braces)
  <2>1. IsFiniteSet(1..Len(tokens))
    BY <1>1, FS_Interval
  <2> QED
    BY <2>1, FS_Subset
<1>6. Cardinality(Passed) <= Cardinality(braces) /\ Cardinality(braces) \in Nat
  BY <1>4, <1>5, FS_Subset, FS_CardinalityType
<1> HIDE DEF braces
<1>7. Cardinality(AtEnd) <= Cardinality(braces) + 1
  BY <1>2, <1>3, <1>6
<1>8. \A i \in 1..Len(reports), j \in 1..Len(reports) :
        i < j => \/ reports[i].at < reports[j].at
                 \/ reports[i].at = Len(tokens) /\ reports[j].at = Len(tokens)
  BY DEF IInv, OrderInv
<1> QED
  BY <1>7, <1>8 DEF ReportsInOrder, AtEnd, braces

(***************************************************************************)
(* However many errors a file has, each report is about a token behind     *)
(* that of the report before it; only at the end of the file may several   *)
(* be about the same token, at most one per opening brace and one more.    *)
(***************************************************************************)
THEOREM ReportsStayInOrder == Spec => []ReportsInOrder
<1>1. IInv => ReportsInOrder
  BY InvOrdered
<1> QED
  BY <1>1, Inductive, PTL
=============================================================================
