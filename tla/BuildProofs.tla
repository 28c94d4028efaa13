---------------------------- MODULE BuildProofs ----------------------------
(***************************************************************************)
(* Proofs about the stages of build_source taken together.  What the lexer *)
(* and the parser keep on their own is proved in their modules, the        *)
(* parser's for token lists that end with their only end_of_file token.    *)
(* Here the lexer is shown to hand over such a list for every source, so   *)
(* that what is proved about the parser holds in every build.  Then what   *)
(* only the stages together can promise: positions that lead back to the   *)
(* text, reports that can be formatted, and sources that were read whole.  *)
(***************************************************************************)
EXTENDS Build, TLAPS

(* Well-founded relations; only that < is one on the natural numbers is used. *)
W == INSTANCE WellFoundedInduction

(* build_source has handed the token list to the parser. *)
Parsed == phase = "parse" \/ (phase = "done" /\ error = "none")

(* The parser's variables before its first step. *)
ParserFresh ==
  /\ parIt = 1 /\ stack = <<P!Frame("run", 0, P!statement)>> /\ mode = "go" /\ value = 0
  /\ nodes = <<>> /\ definitions = <<>> /\ parReports = <<>>

PhaseInv ==
  /\ source \in Inputs
  /\ phase \in {"lock", "lex", "parse", "done"}
  /\ phase = "lock" => lexPc = "run" /\ lexIt = 0 /\ tokens = <<>>
  /\ phase # "done" => error = "none"
  /\ phase = "done" /\ error = "none" => mode = "done"
  /\ ~Parsed => ParserFresh
  /\ Parsed => lexPc = "done"

(* What each stage keeps on its own. *)
LexerInv == L!IInv /\ L!EInv /\ L!OpenInv /\ L!StopInv
ParserInv == P!IInv /\ P!TInv /\ P!ShiftInv /\ P!LossInv /\ P!BraceInv

(* The lexer's invariant holds throughout, the parser's from when it has its list. *)
BInv == PhaseInv /\ LexerInv /\ (Parsed => ParserInv)

-----------------------------------------------------------------------------
(* The token kinds and bytes that the stages talk about are the same. *)
LEMMA SameNames ==
  /\ L!TokenType = TokenType
  /\ P!TokenType = TokenType
  /\ L!Byte = Byte
<1>1. L!TokenKind = TokenKind
  BY DEF TokenKind, VariableLengthKind, CommentKind, NumericKind, QuotedKind, KeywordKind,
     PunctuationKind, Lexeme, L!TokenKind, L!VariableLengthKind, L!CommentKind, L!NumericKind,
     L!QuotedKind, L!KeywordKind, L!PunctuationKind, L!Lexeme
<1>2. P!TokenKind = TokenKind
  BY DEF TokenKind, VariableLengthKind, CommentKind, NumericKind, QuotedKind, KeywordKind,
     PunctuationKind, Lexeme, P!TokenKind, P!VariableLengthKind, P!CommentKind, P!NumericKind,
     P!QuotedKind, P!KeywordKind, P!PunctuationKind, P!Lexeme
<1>3. L!Byte = Byte
  BY DEF Byte, Ascii, NUL, AsciiIdentifierChar, LowerLetter, UpperLetter, DecimalDigit,
     AsciiWhitespace, StrayAscii, Punctuation, L!Byte, L!Ascii, L!NUL, L!AsciiIdentifierChar,
     L!LowerLetter, L!UpperLetter, L!DecimalDigit, L!AsciiWhitespace, L!StrayAscii, L!Punctuation
<1> QED
  BY <1>1, <1>2, <1>3 DEF TokenType, L!TokenType, P!TokenType

(* What the lexer assumes of its constants, the build assumes too. *)
LEMMA LexerConstants ==
  /\ L!SourcesAssumption
  /\ L!KeywordsAssumption
  /\ L!SourceSizeAssumption
  /\ L!NonAsciiAssumption
<1>1. L!SourcesAssumption
  BY BuildAssumption, SameNames DEF L!SourcesAssumption
<1>2. L!KeywordKind = KeywordKind /\ L!LowerLetter = LowerLetter
  BY DEF KeywordKind, LowerLetter, L!KeywordKind, L!LowerLetter
<1>3. L!KeywordsAssumption
  BY <1>2, BuildAssumption DEF L!KeywordsAssumption
<1>4. L!SourceSizeAssumption
  BY SourceSizeAssumption DEF L!SourceSizeAssumption
<1>5. L!Ascii = Ascii
  BY DEF Ascii, NUL, AsciiIdentifierChar, LowerLetter, UpperLetter, DecimalDigit,
     AsciiWhitespace, StrayAscii, Punctuation, L!Ascii, L!NUL, L!AsciiIdentifierChar,
     L!LowerLetter, L!UpperLetter, L!DecimalDigit, L!AsciiWhitespace, L!StrayAscii, L!Punctuation
<1>6. L!NonAsciiAssumption
  BY <1>5, NonAsciiAssumption DEF L!NonAsciiAssumption
<1> QED
  BY <1>1, <1>3, <1>4, <1>6

(* The lists the parser is given are lists it is proved for. *)
LEMMA ParserConstants == P!InputsAssumption /\ P!SourceSizeAssumption
<1>1. P!InputsAssumption
  BY SameNames DEF TokenLists, P!InputsAssumption
<1>2. P!SourceSizeAssumption
  BY SourceSizeAssumption DEF P!SourceSizeAssumption
<1> QED
  BY <1>1, <1>2

-----------------------------------------------------------------------------
(* A set of natural numbers that is not empty has a least element. *)
LEMMA LeastElement ==
  ASSUME NEW S \in SUBSET Nat, S # {}
  PROVE  \E i \in S : \A j \in S : i <= j
<1> DEFINE less == {pair \in Nat \X Nat : pair[1] < pair[2]}
<1>1. PICK i \in S : \A j \in S : <<j, i>> \notin less
  <2>1. W!IsWellFoundedOn(less, Nat)
    BY W!NatLessThanWellFounded, Zenon DEF W!OpToRel
  <2> HIDE DEF less
  <2> QED
    BY <2>1, W!WFMin
<1>2. \A j \in S : ~(j < i)
  BY <1>1
<1> QED
  BY <1>2

(* Locking gives the lexer a sequence of bytes. *)
LEMMA TextTyped ==
  ASSUME source \in Inputs
  PROVE  get_text(source) \in Seq(Byte)
<1>1. source.content \in Seq(Byte)
  BY BuildAssumption
<1> DEFINE nuls == {i \in 1..Len(source.content) : source.content[i] = "NUL"}
<1>2. CASE source.origin = "file" \/ nuls = {}
  BY <1>1, <1>2 DEF get_text
<1>3. CASE ~(source.origin = "file" \/ nuls = {})
  <2> DEFINE first == CHOOSE i \in nuls : \A j \in nuls : i <= j
  <2>1. get_text(source) = SubSeq(source.content, 1, first - 1)
    BY <1>3 DEF get_text
  <2>2. \E i \in nuls : \A j \in nuls : i <= j
    <3>1. nuls \in SUBSET Nat /\ nuls # {}
      BY <1>1, <1>3
    <3> QED
      BY <3>1, LeastElement
  <2>3. first \in 1..Len(source.content)
    BY <2>2
  <2> HIDE DEF first
  <2> QED
    BY <1>1, <2>1, <2>3
<1> QED
  BY <1>2, <1>3

(* The stages do not disturb each other: what one keeps, another one's step leaves as it is. *)
LEMMA LexerStays ==
  ASSUME LexerInv, UNCHANGED <<text, tokens, lexer>>
  PROVE  LexerInv'
<1>1. UNCHANGED L!vars
  BY DEF lexer, L!vars
<1>2. L!IInv'
  BY <1>1, LexerConstants, L!StutterPreserves, Zenon DEF LexerInv
<1>3. L!EInv' /\ L!OpenInv' /\ L!StopInv'
  BY <1>1, LexerConstants, L!StutterSilent, Zenon DEF LexerInv
<1> QED
  BY <1>2, <1>3 DEF LexerInv

(* The same for the parser. *)
LEMMA ParserStays ==
  ASSUME ParserInv, UNCHANGED <<tokens, parser>>
  PROVE  ParserInv'
<1>1. UNCHANGED P!vars
  BY DEF parser, P!vars
<1>2. P!IInv' /\ P!TInv'
  BY <1>1, ParserConstants, P!StutterPreserves, P!StutterTree, Zenon DEF ParserInv
<1>3. P!ShiftInv'
  BY <1>1, ParserConstants, P!StutterShift, Zenon DEF ParserInv
<1>4. P!LossInv'
  BY <1>1, ParserConstants, P!StutterLoss, Zenon DEF ParserInv
<1>5. P!BraceInv'
  BY <1>1, ParserConstants, P!StutterBrace, Zenon DEF ParserInv
<1> QED
  BY <1>2, <1>3, <1>4, <1>5 DEF ParserInv

(***************************************************************************)
(* The lexer's list, once it is done, is one that the parser takes.        *)
(***************************************************************************)
LEMMA ListIsReady ==
  ASSUME L!IInv, lexPc = "done"
  PROVE  tokens \in TokenLists
<1>1. tokens \in Seq(TokenType)
  BY SameNames DEF L!IInv, L!TypeOK
<1>2. /\ Len(tokens) > 0
      /\ tokens[Len(tokens)].kind = "end_of_file"
      /\ \A i \in 1..(Len(tokens) - 1) : tokens[i].kind # "end_of_file"
  BY DEF L!IInv, L!TokenInv
<1>3. \A i \in 1..Len(tokens) : i = Len(tokens) \/ i \in 1..(Len(tokens) - 1)
  BY <1>1
<1> QED
  BY <1>1, <1>2, <1>3 DEF TokenLists

-----------------------------------------------------------------------------
(* The steps of build_source *)

(* Before the source is locked. *)
LEMMA InitBuild ==
  ASSUME Init
  PROVE  BInv
<1>1. L!IInv
  <2>1. text \in Seq(L!Byte)
    BY DEF Init
  <2> QED
    BY <2>1, LexerConstants, L!FreshInv, Zenon DEF Init
<1>2. PhaseInv /\ ~Parsed
  BY DEF Init, PhaseInv, Parsed, ParserFresh
<1>3. L!EInv /\ L!OpenInv /\ L!StopInv
  BY LexerConstants, L!FreshExtent, Zenon DEF Init
<1> QED
  BY <1>1, <1>2, <1>3 DEF BInv, LexerInv

(* The lexer gets its text, or the build is over. *)
LEMMA LockBuild ==
  ASSUME BInv, Lock
  PROVE  BInv'
<1>1. /\ PhaseInv /\ LexerInv /\ phase = "lock" /\ lexPc = "run" /\ lexIt = 0
      /\ error = "none" /\ tokens = <<>>
  BY DEF BInv, PhaseInv, Lock
<1>2. UNCHANGED <<source, tokens, lexer, parser>>
  BY DEF Lock
<1>3. \/ text' = get_text(source) /\ phase' = "lex" /\ error' = error
      \/ error' \in {"ENOENT", "EACCES"} /\ phase' = "done" /\ text' = text
  BY DEF Lock
<1>4. PhaseInv' /\ ~Parsed'
  BY <1>1, <1>2, <1>3 DEF PhaseInv, Parsed, ParserFresh, lexer, parser
<1>5. LexerInv'
  <2>1. CASE text' = text
    BY <1>1, <1>2, <2>1, LexerStays
  <2>2. CASE text' = get_text(source)
    <3>1. text' \in Seq(L!Byte)
      BY <1>1, <2>2, TextTyped, SameNames DEF PhaseInv
    <3>2. UNCHANGED <<emit_comments, lexIt, tokens, lexReports, lexPc, lexLocal>>
      BY <1>2 DEF lexer
    <3>3. L!IInv'
      BY <1>1, <3>1, <3>2, LexerConstants, L!TextPreserves, Zenon DEF LexerInv
    <3>4. tokens' = <<>> /\ lexPc' = "run"
      BY <1>1, <3>2
    <3>5. L!EInv' /\ L!OpenInv' /\ L!StopInv'
      BY <3>4 DEF L!EInv, L!OpenInv, L!StopInv, L!TokensOf, L!CommentKind
    <3> QED
      BY <3>3, <3>5 DEF LexerInv
  <2> QED
    BY <1>3, <2>1, <2>2
<1> QED
  BY <1>4, <1>5 DEF BInv

(* The lexer goes on. *)
LEMMA LexBuild ==
  ASSUME BInv, run_lexer
  PROVE  BInv'
<1>1. LexerInv /\ L!Next
  BY DEF BInv, run_lexer
<1>2. L!IInv'
  BY <1>1, LexerConstants, L!NextPreserves, Zenon DEF LexerInv
<1>3. L!EInv' /\ L!OpenInv' /\ L!StopInv'
  BY <1>1, LexerConstants, L!NextSilent, Zenon DEF LexerInv
<1>4. PhaseInv' /\ ~Parsed'
  BY DEF BInv, run_lexer, PhaseInv, Parsed, ParserFresh, parser
<1> QED
  BY <1>2, <1>3, <1>4 DEF BInv, LexerInv

(* The parser starts, with a list it is proved for. *)
LEMMA StartBuild ==
  ASSUME BInv, StartParser
  PROVE  BInv'
<1>1. PhaseInv /\ LexerInv /\ phase = "lex" /\ lexPc = "done" /\ ParserFresh
  BY DEF BInv, PhaseInv, StartParser, Parsed
<1>2. UNCHANGED <<source, error, text, tokens, lexer, parser>> /\ phase' = "parse"
  BY DEF StartParser
<1>3. P!Init
  BY <1>1, ListIsReady DEF LexerInv, ParserFresh, P!Init
<1>4. ParserInv
  <2>1. P!IInv /\ P!TInv
    BY <1>3, ParserConstants, P!InitInv, P!InitTree, Zenon
  <2>2. P!ShiftInv /\ P!LossInv /\ P!BraceInv
    BY <1>3, ParserConstants, P!InitShift, P!InitLoss, P!InitBrace, Zenon
  <2> QED
    BY <2>1, <2>2 DEF ParserInv
<1>5. ParserInv'
  BY <1>2, <1>4, ParserStays
<1>6. LexerInv'
  BY <1>1, <1>2, LexerStays
<1>7. PhaseInv'
  BY <1>1, <1>2 DEF PhaseInv, Parsed, lexer
<1> QED
  BY <1>5, <1>6, <1>7 DEF BInv

(* The parser goes on; the list stays the lexer's. *)
LEMMA ParseBuild ==
  ASSUME BInv, run_parser
  PROVE  BInv'
<1>1. PhaseInv /\ LexerInv /\ ParserInv /\ Parsed /\ P!Next /\ phase = "parse"
  BY DEF BInv, Parsed, run_parser
<1>2. P!IInv' /\ P!TInv' /\ tokens' = tokens
  BY <1>1, ParserConstants, P!NextPreserves, P!NextTree, P!TokensStay, Zenon DEF ParserInv
<1>3. ParserInv'
  <2>1. P!ShiftInv'
    BY <1>1, ParserConstants, P!NextShift, Zenon DEF ParserInv
  <2>2. P!LossInv'
    BY <1>1, ParserConstants, P!NextLoss, Zenon DEF ParserInv
  <2>3. P!BraceInv'
    BY <1>1, ParserConstants, P!NextBrace, Zenon DEF ParserInv
  <2> QED
    BY <1>2, <2>1, <2>2, <2>3 DEF ParserInv
<1>4. UNCHANGED <<source, phase, error, text, lexer>>
  BY DEF run_parser
<1>5. LexerInv'
  BY <1>1, <1>2, <1>4, LexerStays
<1>6. PhaseInv'
  BY <1>1, <1>4 DEF PhaseInv, Parsed, lexer
<1> QED
  BY <1>3, <1>5, <1>6 DEF BInv

(* The analyzer leaves the results alone, and so does whoever called build_source. *)
LEMMA RestBuild ==
  ASSUME BInv, run_semantic_analyzer \/ UNCHANGED vars
  PROVE  BInv'
<1>1. UNCHANGED <<source, error, text, tokens, lexer, parser>>
  BY DEF run_semantic_analyzer, vars
<1>2. \/ phase = "parse" /\ phase' = "done" /\ mode = "done"
      \/ phase' = phase
  BY DEF run_semantic_analyzer, vars
<1>3. LexerInv'
  BY <1>1, LexerStays DEF BInv
<1>4. Parsed' <=> Parsed
  BY <1>1, <1>2 DEF Parsed, BInv, PhaseInv
<1>5. Parsed' => ParserInv'
  BY <1>1, <1>4, ParserStays DEF BInv
<1>6. PhaseInv'
  BY <1>1, <1>2, <1>4 DEF BInv, PhaseInv, ParserFresh, lexer, parser
<1> QED
  BY <1>3, <1>5, <1>6 DEF BInv

-----------------------------------------------------------------------------
(***************************************************************************)
(* Every build keeps the lexer's invariant, and the parser's as soon as    *)
(* the parser has its list.                                                *)
(***************************************************************************)
THEOREM BuildInductive == Spec => []BInv
<1>1. Init => BInv
  BY InitBuild
<1>2. BInv /\ [Next]_vars => BInv'
  BY LockBuild, LexBuild, StartBuild, ParseBuild, RestBuild DEF Next, Returned
<1> QED
  BY <1>1, <1>2, PTL DEF Spec

(***************************************************************************)
(* For every source, refused ones included, the list with which run_parser *)
(* begins ends with its only end_of_file token, and its offsets grow.      *)
(***************************************************************************)
THEOREM ParserGetsItsInput == Spec => []ParserInputReady
<1>1. BInv => ParserInputReady
  <2> SUFFICES ASSUME BInv, phase = "parse" PROVE ParserInputReady
    BY DEF ParserInputReady
  <2>1. L!IInv /\ lexPc = "done"
    BY DEF BInv, LexerInv, PhaseInv, Parsed
  <2>2. L!TokensInOrder
    BY <2>1 DEF L!IInv, L!TokenInv, L!TokensInOrder
  <2> QED
    BY <2>1, <2>2, ListIsReady DEF ParserInputReady, TokenLists
<1> QED
  BY <1>1, BuildInductive, PTL

(***************************************************************************)
(* What the stages promise on their own holds in every build, whatever the *)
(* source.  Tokens and the lexer's reports are in source order.  As soon   *)
(* as there is a list to parse, the parser's cursor is in it, frames and   *)
(* trees refer to nodes that exist, its reports are in order, every tree   *)
(* groups its operators by their precedence, shifts are the pairs of angle *)
(* brackets without a gap, and what recovery loses has its own report.     *)
(***************************************************************************)
THEOREM StagesKeepTheirPromises ==
  Spec => [](/\ L!TypeOK /\ L!TokensInOrder /\ L!ReportsInOrder
             /\ Parsed => /\ P!TypeOK /\ P!ReportsInOrder /\ P!PrecedenceRespected
                          /\ P!ShiftsAreAdjacent /\ P!RecoveryLosesLittle)
<1>1. BInv => L!TypeOK /\ L!TokensInOrder /\ L!ReportsInOrder
  BY DEF BInv, LexerInv, L!IInv, L!TokenInv, L!TokensInOrder, L!ReportInv
<1>2. BInv => (Parsed => P!TypeOK /\ P!ReportsInOrder /\ P!PrecedenceRespected)
  BY ParserConstants, P!InvTyped, P!InvOrdered, P!InvGroups, Zenon DEF BInv, ParserInv
<1>3. BInv => (Parsed => P!ShiftsAreAdjacent /\ P!RecoveryLosesLittle)
  BY ParserConstants, P!AllPassed, P!InvExplains, Zenon DEF BInv, ParserInv
<1> QED
  BY <1>1, <1>2, <1>3, BuildInductive, PTL

-----------------------------------------------------------------------------
(* Recursive functions *)

(* What holds at 0 and goes over from each number to the next holds up to n. *)
LEMMA UpTo ==
  ASSUME NEW S, NEW n \in Nat, 0 \in S, \A i \in 1..n : i - 1 \in S => i \in S
  PROVE  \A i \in 0..n : i \in S
<1> DEFINE out == {i \in 0..n : i \notin S}
<1>1. ASSUME out # {} PROVE FALSE
  <2>1. out \in SUBSET Nat
    OBVIOUS
  <2>2. PICK i \in out : \A j \in out : i <= j
    BY <1>1, <2>1, LeastElement
  <2>3. i \in 0..n /\ i \notin S /\ i # 0
    BY <2>2
  <2>4. i \in 1..n /\ i - 1 \in 0..n /\ ~(i <= i - 1)
    BY <2>3
  <2>5. i - 1 \in S
    BY <2>2, <2>4
  <2> QED
    BY <2>3, <2>4, <2>5
<1> QED
  BY <1>1

(***************************************************************************)
(* A function that is defined from its first value on, each value by the   *)
(* one before it, exists.  step gives the value that follows v at i.       *)
(***************************************************************************)
Chain(f, n, V, first, step) ==
  f \in [0..n -> V] /\ f[0] = first /\ \A i \in 1..n : f[i] = step[i][f[i - 1]]

(* Such a function exists, whatever the first value and the steps. *)
LEMMA ChainExists ==
  ASSUME NEW V, NEW first \in V, NEW step \in [Nat -> [V -> V]], NEW n \in Nat
  PROVE  \E f : Chain(f, n, V, first, step)
<1> DEFINE S == {k \in Nat : \E f : Chain(f, k, V, first, step)}
<1>1. 0 \in S
  <2>1. Chain([i \in 0..0 |-> first], 0, V, first, step)
    BY DEF Chain
  <2> QED
    BY <2>1
<1>2. ASSUME NEW k \in 1..n, k - 1 \in S PROVE k \in S
  <2>1. PICK f : Chain(f, k - 1, V, first, step)
    BY <1>2
  <2>2. f[k - 1] \in V /\ k - 1 \in Nat /\ k \in Nat
    BY <2>1 DEF Chain
  <2>3. PICK v : v = step[k][f[k - 1]]
    OBVIOUS
  <2>4. v \in V
    BY <2>2, <2>3
  <2> DEFINE g == [i \in 0..k |-> IF i = k THEN v ELSE f[i]]
  <2>5. \A i \in 0..k : i # k => i \in 0..(k - 1)
    OBVIOUS
  <2>6. \A i \in 0..(k - 1) : f[i] \in V
    BY <2>1 DEF Chain
  <2>7. g \in [0..k -> V] /\ g[0] = first
    BY <2>1, <2>4, <2>5, <2>6 DEF Chain
  <2>8. ASSUME NEW i \in 1..k PROVE g[i] = step[i][g[i - 1]]
    <3>1. i - 1 \in 0..k /\ i - 1 # k /\ g[i - 1] = f[i - 1]
      OBVIOUS
    <3>2. CASE i = k
      BY <2>3, <3>1, <3>2
    <3>3. CASE i # k
      <4>1. i \in 1..(k - 1) /\ i \in 0..k
        BY <3>3
      <4>2. f[i] = step[i][f[i - 1]] /\ g[i] = f[i]
        BY <2>1, <3>3, <4>1 DEF Chain
      <4> QED
        BY <3>1, <4>2
    <3> QED
      BY <3>2, <3>3
  <2> HIDE DEF g
  <2>9. Chain(g, k, V, first, step)
    BY <2>7, <2>8 DEF Chain
  <2> QED
    BY <2>2, <2>9
<1> HIDE DEF S
<1>3. n \in S
  <2>1. \A i \in 0..n : i \in S
    BY <1>1, <1>2, UpTo
  <2> QED
    BY <2>1
<1> QED
  BY <1>3 DEF S

-----------------------------------------------------------------------------
(* Positions *)

(* The walk through the text satisfies its equation. *)
LEMMA WalkIs ==
  ASSUME Len(text) \in Nat
  PROVE  /\ Walk \in [0..Len(text) -> Nat \X Nat]
         /\ Walk[0] = <<1, 1>>
         /\ \A p \in 1..Len(text) :
              Walk[p] = CASE text[p] = "\n" -> <<Walk[p - 1][1] + 1, 1>>
                          [] text[p] = "\t" -> <<Walk[p - 1][1], Walk[p - 1][2] + tab_size>>
                          [] OTHER -> <<Walk[p - 1][1], Walk[p - 1][2] + 1>>
<1> DEFINE V == Nat \X Nat
           n == Len(text)
           after(p, v) == CASE text[p] = "\n" -> <<v[1] + 1, 1>>
                            [] text[p] = "\t" -> <<v[1], v[2] + tab_size>>
                            [] OTHER -> <<v[1], v[2] + 1>>
           step == [p \in Nat |-> [v \in V |-> after(p, v)]]
           Is(f) == f = [p \in 0..n |-> IF p = 0 THEN <<1, 1>> ELSE after(p, f[p - 1])]
<1>1. tab_size \in Nat
  BY BuildAssumption
<1>2. ASSUME NEW p, NEW v \in V PROVE after(p, v) \in V
  <2>1. v[1] \in Nat /\ v[2] \in Nat
    OBVIOUS
  <2> QED
    BY <1>1, <2>1
<1>3. <<1, 1>> \in V
  OBVIOUS
<1> HIDE DEF V, after
<1>4. step \in [Nat -> [V -> V]] /\ \A p \in Nat, v \in V : step[p][v] = after(p, v)
  BY <1>2
<1> HIDE DEF step
<1>5. PICK f : Chain(f, n, V, <<1, 1>>, step)
  BY <1>3, <1>4, ChainExists
<1>6. Is(f)
  <2>1. f \in [0..n -> V] /\ f[0] = <<1, 1>> /\ \A p \in 1..n : f[p] = step[p][f[p - 1]]
    BY <1>5 DEF Chain
  <2>2. ASSUME NEW p \in 1..n PROVE f[p] = after(p, f[p - 1])
    <3>1. p - 1 \in 0..n /\ p \in Nat
      OBVIOUS
    <3>2. f[p - 1] \in V
      BY <2>1, <3>1
    <3> QED
      BY <1>4, <2>1, <3>1, <3>2
  <2>3. \A p \in 0..n : p = 0 \/ p \in 1..n
    OBVIOUS
  <2>4. \A p \in 0..n : f[p] = IF p = 0 THEN <<1, 1>> ELSE after(p, f[p - 1])
    BY <2>1, <2>2, <2>3
  <2> QED
    BY <2>1, <2>4
<1>7. Walk = CHOOSE g : Is(g)
  BY DEF Walk, after
<1>8. Is(Walk)
  BY <1>6, <1>7
<1>9. \A p \in 1..n : Walk[p] = after(p, Walk[p - 1])
  BY <1>8, SMTT(30)
<1>10. Walk \in [0..n -> V] /\ Walk[0] = <<1, 1>>
  <2>1. DOMAIN Walk = 0..n /\ Walk = [p \in 0..n |-> Walk[p]]
    BY <1>8
  <2>2. Walk[0] = <<1, 1>>
    BY <1>8
  <2> DEFINE S == {p \in 0..n : Walk[p] \in V}
  <2>3. 0 \in S
    BY <1>3, <2>2
  <2>4. ASSUME NEW p \in 1..n, p - 1 \in S PROVE p \in S
    <3>1. p \in 0..n /\ Walk[p - 1] \in V
      BY <2>4
    <3> QED
      BY <1>2, <1>9, <3>1
  <2> HIDE DEF S
  <2>5. \A p \in 0..n : p \in S
    BY <2>3, <2>4, UpTo
  <2>6. \A p \in 0..n : Walk[p] \in V
    BY <2>5 DEF S
  <2> QED
    BY <2>1, <2>2, <2>6
<1> QED
  BY <1>9, <1>10 DEF V, after

(* Only a newline begins a line. *)
LEMMA WalkSteps ==
  ASSUME Len(text) \in Nat, NEW p \in 1..Len(text)
  PROVE  /\ text[p] = "\n" => Walk[p] = <<Walk[p - 1][1] + 1, 1>>
         /\ text[p] # "\n" =>
              Walk[p] = <<Walk[p - 1][1],
                          Walk[p - 1][2] + (IF text[p] = "\t" THEN tab_size ELSE 1)>>
<1>1. Walk[p] = CASE text[p] = "\n" -> <<Walk[p - 1][1] + 1, 1>>
                  [] text[p] = "\t" -> <<Walk[p - 1][1], Walk[p - 1][2] + tab_size>>
                  [] OTHER -> <<Walk[p - 1][1], Walk[p - 1][2] + 1>>
  BY WalkIs
<1>2. "\n" # "\t"
  OBVIOUS
<1> QED
  BY <1>1, <1>2

(* So do the two loops of locate. *)
LEMMA LinesAre ==
  ASSUME NEW range, Len(range) \in Nat
  PROVE  /\ LinesOf(range)[0] = <<1, 0>>
         /\ \A p \in 1..Len(range) :
              LinesOf(range)[p] = IF range[p] = "\n" THEN <<LinesOf(range)[p - 1][1] + 1, p>>
                                                     ELSE LinesOf(range)[p - 1]
<1> DEFINE V == Nat \X Nat
           n == Len(range)
           after(p, v) == IF range[p] = "\n" THEN <<v[1] + 1, p>> ELSE v
           step == [p \in Nat |-> [v \in V |-> after(p, v)]]
           Is(f) == f = [p \in 0..n |-> IF p = 0 THEN <<1, 0>> ELSE after(p, f[p - 1])]
<1>1. ASSUME NEW p \in Nat, NEW v \in V PROVE after(p, v) \in V
  <2>1. v[1] \in Nat
    OBVIOUS
  <2> QED
    BY <2>1
<1>2. <<1, 0>> \in V
  OBVIOUS
<1> HIDE DEF V, after
<1>3. step \in [Nat -> [V -> V]] /\ \A p \in Nat, v \in V : step[p][v] = after(p, v)
  BY <1>1
<1> HIDE DEF step
<1>4. PICK f : Chain(f, n, V, <<1, 0>>, step)
  BY <1>2, <1>3, ChainExists
<1>5. Is(f)
  <2>1. f \in [0..n -> V] /\ f[0] = <<1, 0>> /\ \A p \in 1..n : f[p] = step[p][f[p - 1]]
    BY <1>4 DEF Chain
  <2>2. ASSUME NEW p \in 1..n PROVE f[p] = after(p, f[p - 1])
    <3>1. p - 1 \in 0..n /\ p \in Nat
      OBVIOUS
    <3>2. f[p - 1] \in V
      BY <2>1, <3>1
    <3> QED
      BY <1>3, <2>1, <3>1, <3>2
  <2>3. \A p \in 0..n : p = 0 \/ p \in 1..n
    OBVIOUS
  <2>4. \A p \in 0..n : f[p] = IF p = 0 THEN <<1, 0>> ELSE after(p, f[p - 1])
    BY <2>1, <2>2, <2>3
  <2> QED
    BY <2>1, <2>4
<1>6. LinesOf(range) = CHOOSE g : Is(g)
  BY DEF LinesOf, after
<1>7. Is(LinesOf(range))
  BY <1>5, <1>6
<1>8. PICK g : g = LinesOf(range)
  OBVIOUS
<1>9. g[0] = <<1, 0>> /\ \A p \in 1..n : g[p] = after(p, g[p - 1])
  <2>1. g = [p \in 0..n |-> IF p = 0 THEN <<1, 0>> ELSE after(p, g[p - 1])]
    BY <1>7, <1>8
  <2>2. \A p \in 0..n : g[p] = IF p = 0 THEN <<1, 0>> ELSE after(p, g[p - 1])
    BY <2>1, Zenon
  <2>3. 0 \in 0..n /\ \A p \in 1..n : p \in 0..n /\ p # 0
    OBVIOUS
  <2> QED
    BY <2>2, <2>3
<1> QED
  BY <1>8, <1>9 DEF after

(* The columns of a line are what the second loop of locate says of them. *)
LEMMA ColumnsAre ==
  ASSUME NEW range, Len(range) \in Nat
  PROVE  /\ ColumnsOf(range, tab_size)[0] = 1
         /\ \A p \in 1..Len(range) :
              ColumnsOf(range, tab_size)[p]
                = ColumnsOf(range, tab_size)[p - 1] + (IF range[p] = "\t" THEN tab_size ELSE 1)
<1> DEFINE n == Len(range)
           after(p, v) == v + (IF range[p] = "\t" THEN tab_size ELSE 1)
           step == [p \in Nat |-> [v \in Nat |-> after(p, v)]]
           Is(f) == f = [p \in 0..n |-> IF p = 0 THEN 1 ELSE after(p, f[p - 1])]
<1>1. tab_size \in Nat
  BY BuildAssumption
<1>2. ASSUME NEW p \in Nat, NEW v \in Nat PROVE after(p, v) \in Nat
  BY <1>1
<1> HIDE DEF after
<1>3. step \in [Nat -> [Nat -> Nat]] /\ \A p \in Nat, v \in Nat : step[p][v] = after(p, v)
  BY <1>2
<1> HIDE DEF step
<1>4. PICK f : Chain(f, n, Nat, 1, step)
  BY <1>3, ChainExists
<1>5. Is(f)
  <2>1. f \in [0..n -> Nat] /\ f[0] = 1 /\ \A p \in 1..n : f[p] = step[p][f[p - 1]]
    BY <1>4 DEF Chain
  <2>2. ASSUME NEW p \in 1..n PROVE f[p] = after(p, f[p - 1])
    <3>1. p - 1 \in 0..n /\ p \in Nat
      OBVIOUS
    <3>2. f[p - 1] \in Nat
      BY <2>1, <3>1
    <3> QED
      BY <1>3, <2>1, <3>1, <3>2
  <2>3. \A p \in 0..n : p = 0 \/ p \in 1..n
    OBVIOUS
  <2>4. \A p \in 0..n : f[p] = IF p = 0 THEN 1 ELSE after(p, f[p - 1])
    BY <2>1, <2>2, <2>3
  <2> QED
    BY <2>1, <2>4
<1>6. ColumnsOf(range, tab_size) = CHOOSE g : Is(g)
  BY DEF ColumnsOf, after
<1>7. Is(ColumnsOf(range, tab_size))
  BY <1>5, <1>6
<1>8. PICK g : g = ColumnsOf(range, tab_size)
  OBVIOUS
<1>9. g[0] = 1 /\ \A p \in 1..n : g[p] = after(p, g[p - 1])
  BY <1>7, <1>8
<1> QED
  BY <1>8, <1>9 DEF after

(* Line l[1] begins after l[2] of the first p bytes. *)
LineOf(l, p) ==
  /\ l[2] \in 0..p
  /\ Walk[p][1] = l[1] /\ Walk[l[2]] = <<l[1], 1>>
  /\ \A q \in (l[2] + 1)..p : text[q] # "\n"

(* The first loop of locate finds the line in which the walk is, and its beginning. *)
LEMMA LinesWalk ==
  ASSUME text \in Seq(Byte), NEW o \in 0..Len(text), NEW lines, lines = LinesOf(SubSeq(text, 1, o))
  PROVE  \A p \in 0..o : LineOf(lines[p], p)
<1>1. PICK range : range = SubSeq(text, 1, o)
  OBVIOUS
<1>2. Len(range) = o /\ o \in Nat /\ Len(text) \in Nat /\ \A p \in 1..o : range[p] = text[p]
  BY <1>1
<1>3. /\ lines[0] = <<1, 0>>
      /\ \A p \in 1..o : lines[p] = IF text[p] = "\n" THEN <<lines[p - 1][1] + 1, p>> ELSE lines[p - 1]
  BY <1>1, <1>2, LinesAre, ZenonT(40)
<1>4. PICK w : w = Walk
  OBVIOUS
<1>5. /\ w \in [0..Len(text) -> Nat \X Nat] /\ w[0] = <<1, 1>>
      /\ \A p \in 1..Len(text) : text[p] = "\n" => w[p] = <<w[p - 1][1] + 1, 1>>
      /\ \A p \in 1..Len(text) : text[p] # "\n" => w[p][1] = w[p - 1][1]
  <2>1. w \in [0..Len(text) -> Nat \X Nat] /\ w[0] = <<1, 1>>
    BY <1>2, <1>4, WalkIs
  <2>2. ASSUME NEW p \in 1..Len(text)
        PROVE  /\ text[p] = "\n" => w[p] = <<w[p - 1][1] + 1, 1>>
               /\ text[p] # "\n" => w[p][1] = w[p - 1][1]
    BY <1>2, <1>4, WalkSteps
  <2> QED
    BY <2>1, <2>2
<1> DEFINE S == {p \in 0..o : LineOf(lines[p], p)}
<1>6. 0 \in S
  <2>1. 0 \in 0..o /\ \A q \in (0 + 1)..0 : FALSE
    BY <1>2
  <2> QED
    BY <1>3, <1>4, <1>5, <2>1 DEF LineOf
<1>7. ASSUME NEW p \in 1..o, p - 1 \in S PROVE p \in S
  <2>1. PICK l : l = lines[p - 1]
    OBVIOUS
  <2>2. /\ l[2] \in 0..(p - 1) /\ w[p - 1][1] = l[1] /\ w[l[2]] = <<l[1], 1>>
        /\ \A q \in (l[2] + 1)..(p - 1) : text[q] # "\n"
    BY <1>4, <1>7, <2>1 DEF LineOf
  <2>3. p \in 0..o /\ p \in 1..Len(text) /\ p \in Nat
    BY <1>2
  <2>4. CASE text[p] = "\n"
    <3>1. lines[p] = <<l[1] + 1, p>> /\ w[p] = <<l[1] + 1, 1>>
      BY <1>3, <1>5, <2>1, <2>2, <2>3, <2>4
    <3>2. p \in 0..p /\ \A q \in (p + 1)..p : FALSE
      BY <2>3
    <3>3. LineOf(lines[p], p)
      BY <1>4, <3>1, <3>2 DEF LineOf
    <3> QED
      BY <2>3, <3>3
  <2>5. CASE text[p] # "\n"
    <3>1. lines[p] = l /\ w[p][1] = l[1]
      BY <1>3, <1>5, <2>1, <2>2, <2>3, <2>5
    <3>2. l[2] \in 0..p /\ \A q \in (l[2] + 1)..p : q \in (l[2] + 1)..(p - 1) \/ q = p
      BY <2>2, <2>3
    <3>3. LineOf(lines[p], p)
      BY <1>4, <2>2, <2>5, <3>1, <3>2 DEF LineOf
    <3> QED
      BY <2>3, <3>3
  <2> QED
    BY <2>4, <2>5
<1> HIDE DEF S
<1>8. \A p \in 0..o : p \in S
  BY <1>2, <1>6, <1>7, UpTo
<1> QED
  BY <1>8 DEF S

(* What is left of a sequence from m on. *)
LEMMA Cut ==
  ASSUME NEW S, NEW s \in Seq(S), NEW m \in Nat, NEW n \in Nat, 1 <= m, m <= n + 1, n <= Len(s)
  PROVE  /\ Len(SubSeq(s, m, n)) = (n + 1) - m
         /\ \A k \in 1..((n + 1) - m) : SubSeq(s, m, n)[k] = s[(m + k) - 1]
<1>1. CASE m <= n
  BY <1>1
<1>2. CASE m = n + 1
  BY <1>2
<1> QED
  BY <1>1, <1>2

(* The second one adds up the columns of the walk from there. *)
LEMMA ColumnsWalk ==
  ASSUME text \in Seq(Byte), NEW o \in 0..Len(text), NEW l, LineOf(l, o),
         NEW rest, rest = SubSeq(SubSeq(text, 1, o), l[2] + 1, o)
  PROVE  ColumnsOf(rest, tab_size)[Len(rest)] = Walk[o][2]
<1>1. PICK s : s = l[2]
  OBVIOUS
<1>2. s \in 0..o /\ s \in Nat /\ o \in Nat /\ Len(text) \in Nat /\ o <= Len(text)
  BY <1>1 DEF LineOf
<1>3. PICK n : n = o - s
  OBVIOUS
<1>4. n \in Nat /\ s + n = o
  BY <1>2, <1>3
<1>5. Len(rest) = n /\ \A k \in 1..n : rest[k] = text[s + k]
  <2>1. PICK range : range = SubSeq(text, 1, o)
    OBVIOUS
  <2>2. range \in Seq(Byte) /\ Len(range) = o /\ \A p \in 1..o : range[p] = text[p]
    BY <1>2, <2>1
  <2>3. rest = SubSeq(range, s + 1, o) /\ s + 1 \in 1..(o + 1)
    BY <1>1, <1>2, <2>1
  <2>4. Len(rest) = n /\ \A k \in 1..n : rest[k] = range[s + k]
    <3>1. PICK m : m = s + 1
      OBVIOUS
    <3>2. m \in Nat /\ 1 <= m /\ m <= o + 1 /\ o \in Nat /\ o <= Len(range)
      BY <1>2, <2>2, <3>1
    <3>3. /\ Len(SubSeq(range, m, o)) = (o + 1) - m
          /\ \A k \in 1..((o + 1) - m) : SubSeq(range, m, o)[k] = range[(m + k) - 1]
      BY ONLY <2>2, <3>2, Cut
    <3>4. rest = SubSeq(range, m, o)
      BY <2>3, <3>1, Zenon
    <3>5. Len(rest) = (o + 1) - m /\ \A k \in 1..((o + 1) - m) : rest[k] = range[(m + k) - 1]
      BY <3>3, <3>4, Zenon
    <3>6. (o + 1) - m = n /\ \A k \in 1..n : (m + k) - 1 = s + k
      BY <1>2, <1>3, <3>1
    <3> QED
      BY <3>5, <3>6
  <2>5. ASSUME NEW k \in 1..n PROVE rest[k] = text[s + k]
    <3>1. s + k \in 1..o
      BY <1>2, <1>4
    <3>2. rest[k] = range[s + k]
      BY <2>4
    <3> QED
      BY <2>2, <3>1, <3>2
  <2> QED
    BY <2>4, <2>5
<1>6. PICK c : c = ColumnsOf(rest, tab_size)
  OBVIOUS
<1>7. c[0] = 1 /\ \A k \in 1..n : c[k] = c[k - 1] + (IF text[s + k] = "\t" THEN tab_size ELSE 1)
  <2>1. Len(rest) \in Nat
    BY <1>4, <1>5
  <2>2. c[0] = 1 /\ \A k \in 1..n : c[k] = c[k - 1] + (IF rest[k] = "\t" THEN tab_size ELSE 1)
    BY <1>5, <1>6, <2>1, ColumnsAre
  <2> QED
    BY <1>5, <2>2
<1>8. PICK w : w = Walk
  OBVIOUS
<1>9. w[s] = <<l[1], 1>> /\ \A q \in (s + 1)..o : text[q] # "\n"
  BY <1>1, <1>8 DEF LineOf
<1>10. \A p \in 1..Len(text) :
         text[p] # "\n" => w[p][2] = w[p - 1][2] + (IF text[p] = "\t" THEN tab_size ELSE 1)
  BY <1>2, <1>8, WalkSteps
<1> DEFINE S == {k \in 0..n : c[k] = w[s + k][2]}
<1>11. 0 \in S
  BY <1>2, <1>4, <1>7, <1>9
<1>12. ASSUME NEW k \in 1..n, k - 1 \in S PROVE k \in S
  <2>1. c[k - 1] = w[s + (k - 1)][2]
    BY <1>12
  <2>2. s + k \in 1..Len(text) /\ s + k \in (s + 1)..o /\ (s + k) - 1 = s + (k - 1) /\ k \in 0..n
    BY <1>2, <1>4
  <2>3. w[s + k][2] = w[(s + k) - 1][2] + (IF text[s + k] = "\t" THEN tab_size ELSE 1)
    BY <1>9, <1>10, <2>2
  <2>4. c[k] = c[k - 1] + (IF text[s + k] = "\t" THEN tab_size ELSE 1)
    BY <1>7
  <2> QED
    BY <2>1, <2>2, <2>3, <2>4
<1> HIDE DEF S
<1>13. n \in S
  <2>1. \A k \in 0..n : k \in S
    BY <1>4, <1>11, <1>12, UpTo
  <2> QED
    BY <1>4, <2>1
<1> QED
  BY <1>4, <1>5, <1>6, <1>8, <1>13 DEF S

(* locate answers with the place that the walk reaches. *)
LEMMA LocateWalks ==
  ASSUME text \in Seq(Byte), NEW o \in 0..Len(text), NEW location, location = locate(text, o, tab_size)
  PROVE  <<location.line, location.column>> = Walk[o]
<1>1. PICK l : l = LinesOf(SubSeq(text, 1, o))[o]
  OBVIOUS
<1>2. LineOf(l, o)
  <2>1. o \in 0..o
    OBVIOUS
  <2> QED
    BY <1>1, <2>1, LinesWalk
<1>3. PICK rest : rest = SubSeq(SubSeq(text, 1, o), l[2] + 1, o)
  OBVIOUS
<1>4. location.line = l[1] /\ location.column = ColumnsOf(rest, tab_size)[Len(rest)]
  BY <1>1, <1>3 DEF locate
<1>5. ColumnsOf(rest, tab_size)[Len(rest)] = Walk[o][2]
  BY <1>2, <1>3, ColumnsWalk
<1>6. Walk[o] \in Nat \X Nat
  BY WalkIs
<1> QED
  BY <1>2, <1>4, <1>5, <1>6 DEF LineOf

(* A place that is on a later line, or further right on the same one. *)
Earlier(a, b) == a[1] < b[1] \/ (a[1] = b[1] /\ a[2] < b[2])

(* The walk never comes back to a place. *)
LEMMA WalkGrows ==
  ASSUME Len(text) \in Nat, NEW p \in 0..Len(text), NEW q \in 0..Len(text), p < q
  PROVE  Walk[p] # Walk[q]
<1>1. PICK w, n : w = Walk /\ n = Len(text)
  OBVIOUS
<1>2. w \in [0..n -> Nat \X Nat] /\ n \in Nat /\ p \in 0..n /\ q \in 0..n
  BY <1>1, WalkIs
<1>3. ASSUME NEW k \in 0..n PROVE w[k][1] \in Nat /\ w[k][2] \in Nat
  BY <1>2
<1>4. ASSUME NEW k \in 1..n PROVE Earlier(w[k - 1], w[k])
  <2>1. k - 1 \in 0..n
    BY <1>2
  <2>2. w[k - 1][1] \in Nat /\ w[k - 1][2] \in Nat
    BY <1>3, <2>1
  <2>3. /\ text[k] = "\n" => w[k] = <<w[k - 1][1] + 1, 1>>
        /\ text[k] # "\n" =>
             w[k] = <<w[k - 1][1], w[k - 1][2] + (IF text[k] = "\t" THEN tab_size ELSE 1)>>
    BY <1>1, WalkSteps
  <2>4. tab_size \in Nat /\ tab_size # 0
    BY BuildAssumption
  <2>5. CASE text[k] = "\n"
    <3>1. w[k][1] = w[k - 1][1] + 1
      BY <2>3, <2>5
    <3> QED
      BY <2>2, <3>1 DEF Earlier
  <2>6. CASE text[k] # "\n"
    <3>1. /\ w[k][1] = w[k - 1][1]
          /\ w[k][2] = w[k - 1][2] + (IF text[k] = "\t" THEN tab_size ELSE 1)
      BY <2>3, <2>6
    <3> QED
      BY <2>2, <2>4, <3>1 DEF Earlier
  <2> QED
    BY <2>5, <2>6
<1> DEFINE S == {k \in 0..n : p < k => Earlier(w[p], w[k])}
<1>5. 0 \in S
  BY <1>2
<1>6. ASSUME NEW k \in 1..n, k - 1 \in S PROVE k \in S
  <2>1. k \in 0..n /\ k - 1 \in 0..n /\ Earlier(w[k - 1], w[k])
    BY <1>2, <1>4
  <2>2. CASE k - 1 = p
    BY <2>1, <2>2
  <2>3. CASE p < k - 1
    <3>1. Earlier(w[p], w[k - 1])
      BY <1>6, <2>3
    <3>2. Earlier(w[p], w[k])
      <4>1. PICK a, b, c : a = w[p] /\ b = w[k - 1] /\ c = w[k]
        OBVIOUS
      <4>2. /\ a[1] \in Nat /\ a[2] \in Nat /\ b[1] \in Nat /\ b[2] \in Nat
            /\ c[1] \in Nat /\ c[2] \in Nat
        BY <1>2, <1>3, <2>1, <4>1
      <4>3. Earlier(a, b) /\ Earlier(b, c)
        BY <2>1, <3>1, <4>1, Zenon
      <4>4. Earlier(a, c)
        BY ONLY <4>2, <4>3 DEF Earlier
      <4> QED
        BY <4>1, <4>4, Zenon
    <3> QED
      BY <2>1, <3>2
  <2>4. CASE k - 1 < p
    BY <1>2, <2>1, <2>4
  <2> QED
    BY <1>2, <2>1, <2>2, <2>3, <2>4
<1> HIDE DEF S
<1>7. q \in S
  <2>1. \A k \in 0..n : k \in S
    BY <1>2, <1>5, <1>6, UpTo
  <2> QED
    BY <1>2, <2>1
<1>8. Earlier(w[p], w[q])
  BY <1>7 DEF S
<1> QED
  BY <1>1, <1>2, <1>3, <1>8 DEF Earlier

(* So locate tells every two bytes apart. *)
LEMMA LocateExact ==
  ASSUME text \in Seq(Byte), NEW o \in 0..Len(text), NEW location, location = locate(text, o, tab_size)
  PROVE  {p \in 0..Len(text) : Walk[p] = <<location.line, location.column>>} = {o}
<1>1. <<location.line, location.column>> = Walk[o]
  BY LocateWalks
<1>2. ASSUME NEW p \in 0..Len(text), Walk[p] = Walk[o] PROVE p = o
  <2>1. Len(text) \in Nat
    OBVIOUS
  <2>2. ~(p < o) /\ ~(o < p)
    BY <1>2, <2>1, WalkGrows
  <2> QED
    BY <2>1, <2>2
<1> QED
  BY <1>1, <1>2

-----------------------------------------------------------------------------
(* What the reporter has received *)

(* The report of the j-th message of the lexer, and of the parser. *)
OfLexer(j) == ReportAt(lexReports[j].message, lexReports[j].offset)
OfParser(j) == ReportAt(parReports[j].message, tokens[parReports[j].at].offset)

(* What the reporter has received is from Source::lock, the lexer or the parser, in this order. *)
LEMMA ReceivedParts ==
  ASSUME Len(lexReports) \in Nat, Len(parReports) \in Nat, NEW i \in 1..Len(received)
  PROVE  \/ i \in 1..Len(LockReports) /\ received[i] = LockReports[i]
         \/ \E j \in 1..Len(lexReports) : i = Len(LockReports) + j /\ received[i] = OfLexer(j)
         \/ \E j \in 1..Len(parReports) :
              i = Len(LockReports) + Len(lexReports) + j /\ received[i] = OfParser(j)
<1>1. PICK a, b, c : /\ a = LockReports /\ b = [j \in 1..Len(lexReports) |-> OfLexer(j)]
                     /\ c = [j \in 1..Len(parReports) |-> OfParser(j)]
  OBVIOUS
<1>2. PICK e : e = received /\ e = (a \o b) \o c
  BY <1>1 DEF received, OfLexer, OfParser
<1>3. PICK S : /\ \A j \in 1..Len(lexReports) : OfLexer(j) \in S
               /\ \A j \in 1..Len(parReports) : OfParser(j) \in S
               /\ [message |-> "file_not_found", location |-> NoPosition] \in S
               /\ [message |-> "could_not_open_file", location |-> NoPosition] \in S
  <2> DEFINE T == {OfLexer(j) : j \in 1..Len(lexReports)} \cup {OfParser(j) : j \in 1..Len(parReports)}
                  \cup {[message |-> "file_not_found", location |-> NoPosition],
                        [message |-> "could_not_open_file", location |-> NoPosition]}
  <2>1. /\ \A j \in 1..Len(lexReports) : OfLexer(j) \in T
        /\ \A j \in 1..Len(parReports) : OfParser(j) \in T
        /\ [message |-> "file_not_found", location |-> NoPosition] \in T
        /\ [message |-> "could_not_open_file", location |-> NoPosition] \in T
    OBVIOUS
  <2> QED
    BY <2>1
<1>4. a \in Seq(S)
  BY <1>1, <1>3 DEF LockReports
<1>5. b \in Seq(S) /\ Len(b) = Len(lexReports) /\ \A j \in 1..Len(lexReports) : b[j] = OfLexer(j)
  BY <1>1, <1>3
<1>6. c \in Seq(S) /\ Len(c) = Len(parReports) /\ \A j \in 1..Len(parReports) : c[j] = OfParser(j)
  BY <1>1, <1>3
<1>7. i \in 1..Len(e) /\ e = (a \o b) \o c /\ a \in Seq(S) /\ b \in Seq(S) /\ c \in Seq(S)
  BY <1>2, <1>4, <1>5, <1>6
<1>8. \/ i \in 1..Len(a) /\ e[i] = a[i]
      \/ \E j \in 1..Len(b) : i = Len(a) + j /\ e[i] = b[j]
      \/ \E j \in 1..Len(c) : i = Len(a) + Len(b) + j /\ e[i] = c[j]
  <2>1. PICK d : d = a \o b
    OBVIOUS
  <2>2. /\ Len(a) \in Nat /\ Len(b) \in Nat /\ Len(c) \in Nat
        /\ d \in Seq(S) /\ Len(d) = Len(a) + Len(b)
        /\ \A j \in 1..Len(a) : d[j] = a[j]
        /\ \A j \in 1..Len(b) : d[Len(a) + j] = b[j]
    BY ONLY <1>7, <2>1
  <2>3. e = d \o c
    BY <1>7, <2>1, Zenon
  <2>4. /\ Len(e) = Len(d) + Len(c)
        /\ \A j \in 1..Len(d) : e[j] = d[j]
        /\ \A j \in 1..Len(c) : e[Len(d) + j] = c[j]
    <3>1. d \in Seq(S) /\ c \in Seq(S)
      BY <1>7, <2>2
    <3>2. Len(d \o c) = Len(d) + Len(c)
      BY ONLY <3>1
    <3>3. \A j \in 1..Len(d) : (d \o c)[j] = d[j]
      BY ONLY <3>1
    <3>4. \A j \in 1..Len(c) : (d \o c)[Len(d) + j] = c[j]
      BY ONLY <3>1
    <3> QED
      BY <2>3, <3>2, <3>3, <3>4, Zenon
  <2>5. i \in 1..Len(e)
    BY <1>7
  <2>6. \/ i \in 1..Len(a) /\ i \in 1..Len(d)
        \/ \E j \in 1..Len(b) : i = Len(a) + j /\ i \in 1..Len(d)
        \/ \E j \in 1..Len(c) : i = Len(d) + j
    <3>1. i \in 1..Len(a) \/ i - Len(a) \in 1..Len(b) \/ i - Len(d) \in 1..Len(c)
      BY <2>2, <2>4, <2>5
    <3>2. i - Len(a) \in 1..Len(b) => i = Len(a) + (i - Len(a)) /\ i \in 1..Len(d)
      BY <2>2, <2>4, <2>5
    <3>3. i - Len(d) \in 1..Len(c) => i = Len(d) + (i - Len(d))
      BY <2>2, <2>4, <2>5
    <3>4. i \in 1..Len(a) => i \in 1..Len(d)
      BY <2>2
    <3> QED
      BY <3>1, <3>2, <3>3, <3>4
  <2>7. \/ i \in 1..Len(a) /\ e[i] = a[i]
        \/ \E j \in 1..Len(b) : i = Len(a) + j /\ e[i] = b[j]
        \/ \E j \in 1..Len(c) : i = Len(a) + Len(b) + j /\ e[i] = c[j]
    BY <2>2, <2>4, <2>6
  <2> QED
    BY <2>7
<1> QED
  BY <1>1, <1>2, <1>5, <1>6, <1>8

(* What the stages have reported, and where: at offsets of the text. *)
LEMMA ReportsTyped ==
  ASSUME BInv
  PROVE  /\ text \in Seq(Byte) /\ Len(lexReports) \in Nat /\ Len(parReports) \in Nat
         /\ \A j \in 1..Len(lexReports) :
              lexReports[j].message \in L!Message /\ lexReports[j].offset \in 0..Len(text)
         /\ \A j \in 1..Len(parReports) :
              /\ parReports[j].message \in P!Message
              /\ tokens[parReports[j].at].offset \in 0..Len(text)
<1>1. /\ text \in Seq(Byte) /\ tokens \in Seq(TokenType)
      /\ lexReports \in Seq([message : L!Message, offset : 0..Len(text)])
  BY SameNames DEF BInv, LexerInv, L!IInv, L!TypeOK
<1>2. ASSUME NEW j \in 1..Len(lexReports)
      PROVE  lexReports[j].message \in L!Message /\ lexReports[j].offset \in 0..Len(text)
  <2>1. PICK R : R = [message : L!Message, offset : 0..Len(text)] /\ lexReports \in Seq(R)
    BY <1>1
  <2>2. lexReports[j] \in R
    <3>1. lexReports \in Seq(R) /\ j \in 1..Len(lexReports)
      BY <2>1
    <3> QED
      BY ONLY <3>1
  <2> QED
    BY <2>1, <2>2
<1>3. CASE ~Parsed
  <2>1. parReports = <<>>
    BY <1>3 DEF BInv, PhaseInv, ParserFresh
  <2>2. Len(parReports) = 0
    BY <2>1
  <2> QED
    BY <1>1, <1>2, <2>2
<1>4. CASE Parsed
  <2>1. lexPc = "done" /\ L!TokenInv /\ P!CursorInv /\ P!OrderInv
    BY <1>4 DEF BInv, LexerInv, ParserInv, PhaseInv, L!IInv, P!IInv
  <2>2. /\ parReports \in Seq([message : P!Message, at : Nat]) /\ parIt \in 1..Len(tokens)
        /\ \A j \in 1..Len(parReports) : parReports[j].at \in 1..parIt
    BY <2>1 DEF P!CursorInv, P!OrderInv
  <2>3. /\ Len(tokens) \in Nat /\ Len(tokens) > 0 /\ L!Ordered(tokens)
        /\ tokens[Len(tokens)].offset <= Len(text)
    BY <1>1, <2>1 DEF L!TokenInv
  <2>4. ASSUME NEW k \in 1..Len(tokens) PROVE tokens[k].offset \in 0..Len(text)
    <3>1. \A i \in 1..Len(tokens) : tokens[i] \in TokenType
      BY <1>1
    <3>2. \A i \in 1..Len(tokens) : tokens[i].offset \in Nat
      BY <3>1, SourceSizeAssumption DEF TokenType
    <3>3. Len(tokens) \in 1..Len(tokens) /\ Len(text) \in Nat
      BY <1>1, <2>3
    <3>4. k = Len(tokens) \/ tokens[k].offset < tokens[Len(tokens)].offset
      BY <2>3, <3>3 DEF L!Ordered
    <3> QED
      BY <2>3, <3>2, <3>3, <3>4
  <2>5. ASSUME NEW j \in 1..Len(parReports)
        PROVE  /\ parReports[j].message \in P!Message
               /\ tokens[parReports[j].at].offset \in 0..Len(text)
    <3>1. PICK R : R = [message : P!Message, at : Nat] /\ parReports \in Seq(R)
      BY <2>2
    <3>2. parReports[j] \in R
      <4>1. parReports \in Seq(R) /\ j \in 1..Len(parReports)
        BY <3>1
      <4> QED
        BY ONLY <4>1
    <3>3. parReports[j].at \in 1..Len(tokens)
      BY <2>2, <2>3
    <3> QED
      BY <2>4, <3>1, <3>2, <3>3
  <2> QED
    BY <1>1, <1>2, <2>2, <2>5
<1> QED
  BY <1>3, <1>4

(* The position of the report is the one of offset o, and of no other. *)
LeadsTo(report, o) ==
  {p \in 0..Len(text) : Walk[p] = <<report.location.line, report.location.column>>} = {o}

(* Where a report with a position points. *)
LEMMA PositionExact ==
  ASSUME text \in Seq(Byte), NEW message, message # "source_file_too_large",
         NEW o \in 0..Len(text), NEW report, report = ReportAt(message, o)
  PROVE  LeadsTo(report, o)
<1>1. PICK location : location = locate(text, o, tab_size)
  OBVIOUS
<1>2. report = [message |-> message, location |-> location]
  BY <1>1 DEF ReportAt
<1>3. report.location = location
  BY <1>2
<1>4. {p \in 0..Len(text) : Walk[p] = <<location.line, location.column>>} = {o}
  BY <1>1, LocateExact
<1> QED
  BY <1>3, <1>4 DEF LeadsTo

(***************************************************************************)
(* The line and column of every report lead back to the byte it is about,  *)
(* for every text, tabulator width and stage that reports: the two loops   *)
(* of SourceView::locate arrive where walking there does, no two bytes     *)
(* have one place, and no report is about an offset outside of the text.   *)
(***************************************************************************)
THEOREM PositionsLeadBack == Spec => []LocationsExact
<1>1. BInv => LocationsExact
  <2> SUFFICES ASSUME BInv, error = "none",
                      NEW i \in 1..Len(received), received[i].message # "source_file_too_large"
               PROVE  LET place == <<received[i].location.line, received[i].location.column>>
                          offset == IF i <= Len(lexReports) THEN lexReports[i].offset
                                    ELSE tokens[parReports[i - Len(lexReports)].at].offset
                      IN  {p \in 0..Len(text) : Walk[p] = place} = {offset}
    BY DEF LocationsExact
  <2>1. LockReports = <<>> /\ Len(LockReports) = 0
    BY DEF LockReports
  <2>2. /\ text \in Seq(Byte) /\ Len(lexReports) \in Nat /\ Len(parReports) \in Nat
        /\ \A j \in 1..Len(lexReports) : lexReports[j].offset \in 0..Len(text)
        /\ \A j \in 1..Len(parReports) : tokens[parReports[j].at].offset \in 0..Len(text)
    BY ReportsTyped
  <2>3. PICK report : report = received[i]
    OBVIOUS
  <2>4. \/ i \in 1..Len(LockReports)
        \/ \E j \in 1..Len(lexReports) : i = Len(LockReports) + j /\ report = OfLexer(j)
        \/ \E j \in 1..Len(parReports) : i = Len(LockReports) + Len(lexReports) + j /\ report = OfParser(j)
    BY <2>2, <2>3, ReceivedParts
  <2>5. CASE \E j \in 1..Len(lexReports) : i = Len(LockReports) + j /\ report = OfLexer(j)
    <3>1. i \in 1..Len(lexReports) /\ i <= Len(lexReports) /\ report = OfLexer(i)
      BY <2>1, <2>2, <2>5
    <3>2. PICK o, message : o = lexReports[i].offset /\ message = lexReports[i].message
      OBVIOUS
    <3>3. o \in 0..Len(text) /\ report = ReportAt(message, o)
      BY <2>2, <3>1, <3>2 DEF OfLexer
    <3>4. report.message = message
      BY <3>3 DEF ReportAt
    <3>5. message # "source_file_too_large"
      BY <2>3, <3>4
    <3>6. LeadsTo(report, o)
      BY <2>2, <3>3, <3>5, PositionExact
    <3> QED
      BY <2>3, <3>1, <3>2, <3>6 DEF LeadsTo
  <2>6. CASE \E j \in 1..Len(parReports) : i = Len(LockReports) + Len(lexReports) + j /\ report = OfParser(j)
    <3>1. PICK j \in 1..Len(parReports) : i = Len(lexReports) + j /\ report = OfParser(j)
      BY <2>1, <2>2, <2>6
    <3>2. i - Len(lexReports) = j /\ ~(i <= Len(lexReports))
      BY <2>2, <3>1
    <3>3. PICK o, message : o = tokens[parReports[j].at].offset /\ message = parReports[j].message
      OBVIOUS
    <3>4. o \in 0..Len(text) /\ report = ReportAt(message, o)
      BY <2>2, <3>1, <3>3 DEF OfParser
    <3>5. report.message = message
      BY <3>4 DEF ReportAt
    <3>6. message # "source_file_too_large"
      BY <2>3, <3>5
    <3>7. LeadsTo(report, o)
      BY <2>2, <3>4, <3>6, PositionExact
    <3> QED
      BY <2>3, <3>2, <3>3, <3>7 DEF LeadsTo
  <2> QED
    BY <2>1, <2>4, <2>5, <2>6
<1> QED
  BY <1>1, BuildInductive, PTL

-----------------------------------------------------------------------------
(* Formats *)

Scan == [open : BOOLEAN, count : Nat]

State(open, count) == [open |-> open, count |-> count]

(* What the loop of valid_for_message does at a character. *)
LEMMA SeenIs ==
  /\ \A n \in Nat : State(TRUE, n) \in Scan /\ State(FALSE, n) \in Scan
  /\ \A v \in Scan : \A c : Seen(v, c) \in Scan
  /\ \A v \in Scan : Seen(v, "x") = v
  /\ \A n \in Nat : Seen(State(FALSE, n), "{") = State(TRUE, n)
  /\ \A n \in Nat : Seen(State(TRUE, n), "{") = State(FALSE, n)
  /\ \A n \in Nat : Seen(State(TRUE, n), "}") = State(FALSE, n + 1)
<1>1. ASSUME NEW n \in Nat
      PROVE  State(TRUE, n) \in Scan /\ State(FALSE, n) \in Scan
  BY DEF State, Scan
<1>2. ASSUME NEW v \in Scan, NEW c PROVE Seen(v, c) \in Scan
  <2>1. v.open \in BOOLEAN /\ v.count \in Nat
    BY DEF Scan
  <2>2. CASE c = "{"
    <3>1. Seen(v, c) = [open |-> ~v.open, count |-> v.count]
      BY <2>2 DEF Seen
    <3>2. PICK b \in BOOLEAN : b = ~v.open
      OBVIOUS
    <3>3. Seen(v, c) = [open |-> b, count |-> v.count]
      BY <3>1, <3>2, Zenon
    <3> QED
      BY <2>1, <3>2, <3>3 DEF Scan
  <2>3. CASE c = "}" /\ v.open
    <3>1. Seen(v, c) = [open |-> FALSE, count |-> v.count + 1]
      BY <2>3 DEF Seen
    <3> QED
      BY <2>1, <3>1 DEF Scan
  <2>4. CASE ~(c = "{") /\ ~(c = "}" /\ v.open)
    <3>1. Seen(v, c) = v
      BY <2>4 DEF Seen
    <3> QED
      BY <3>1
  <2> QED
    BY <2>2, <2>3, <2>4
<1>3. ASSUME NEW v \in Scan PROVE Seen(v, "x") = v
  BY DEF Seen
<1>4. ASSUME NEW n \in Nat
      PROVE  /\ Seen(State(FALSE, n), "{") = State(TRUE, n)
             /\ Seen(State(TRUE, n), "{") = State(FALSE, n)
             /\ Seen(State(TRUE, n), "}") = State(FALSE, n + 1)
  <2>1. /\ State(FALSE, n).open = FALSE /\ State(FALSE, n).count = n
        /\ State(TRUE, n).open = TRUE /\ State(TRUE, n).count = n
    BY DEF State
  <2> QED
    BY <2>1 DEF Seen, State
<1> QED
  BY <1>1, <1>2, <1>3, <1>4

(* The scan of a format is a chain of such steps. *)
LEMMA ScanExists ==
  ASSUME NEW format, Len(format) \in Nat
  PROVE  \E seen : /\ seen[0] = State(FALSE, 0)
                   /\ \A i \in 1..Len(format) : seen[i] = Seen(seen[i - 1], format[i])
                   /\ placeholder_count(format) = seen[Len(format)].count
<1> DEFINE n == Len(format)
           step == [i \in Nat |-> [v \in Scan |-> Seen(v, format[i])]]
           Is(f) == f = [i \in 0..n |-> IF i = 0 THEN State(FALSE, 0) ELSE Seen(f[i - 1], format[i])]
<1>1. step \in [Nat -> [Scan -> Scan]] /\ \A i \in Nat, v \in Scan : step[i][v] = Seen(v, format[i])
  BY SeenIs
<1>2. State(FALSE, 0) \in Scan
  BY SeenIs
<1> HIDE DEF step
<1>3. PICK f : Chain(f, n, Scan, State(FALSE, 0), step)
  BY <1>1, <1>2, ChainExists
<1>4. Is(f)
  <2>1. f \in [0..n -> Scan] /\ f[0] = State(FALSE, 0) /\ \A i \in 1..n : f[i] = step[i][f[i - 1]]
    BY <1>3 DEF Chain
  <2>2. ASSUME NEW i \in 1..n PROVE f[i] = Seen(f[i - 1], format[i])
    <3>1. i - 1 \in 0..n /\ i \in Nat
      OBVIOUS
    <3>2. f[i - 1] \in Scan
      BY <2>1, <3>1
    <3> QED
      BY <1>1, <2>1, <3>1, <3>2
  <2>3. \A i \in 0..n : i = 0 \/ i \in 1..n
    OBVIOUS
  <2>4. \A i \in 0..n : f[i] = IF i = 0 THEN State(FALSE, 0) ELSE Seen(f[i - 1], format[i])
    BY <2>1, <2>2, <2>3
  <2> QED
    BY <2>1, <2>4
<1>5. PICK g : g = CHOOSE h : Is(h)
  OBVIOUS
<1>6. g = [i \in 0..n |-> IF i = 0 THEN State(FALSE, 0) ELSE Seen(g[i - 1], format[i])]
  BY <1>4, <1>5
<1>7. \A i \in 0..n : g[i] = IF i = 0 THEN State(FALSE, 0) ELSE Seen(g[i - 1], format[i])
  BY <1>6, Zenon
<1>8. 0 \in 0..n /\ \A i \in 1..n : i \in 0..n /\ i # 0
  OBVIOUS
<1>9. g[0] = State(FALSE, 0) /\ \A i \in 1..n : g[i] = Seen(g[i - 1], format[i])
  BY <1>7, <1>8
<1>10. placeholder_count(format) = g[n].count
  BY <1>5 DEF placeholder_count, State
<1> QED
  BY <1>9, <1>10

(* The state of the scan after each character, and the count it ends with. *)
LEMMA ScanOf ==
  ASSUME NEW format, NEW n \in Nat, Len(format) = n
  PROVE  \E seen : /\ seen[0] = State(FALSE, 0)
                   /\ \A i, j \in 0..n : i = j + 1 => seen[i] = Seen(seen[j], format[i])
                   /\ placeholder_count(format) = seen[n].count
<1>1. PICK seen : /\ seen[0] = State(FALSE, 0)
                  /\ \A i \in 1..Len(format) : seen[i] = Seen(seen[i - 1], format[i])
                  /\ placeholder_count(format) = seen[Len(format)].count
  BY ScanExists
<1>2. ASSUME NEW i \in 0..n, NEW j \in 0..n, i = j + 1 PROVE seen[i] = Seen(seen[j], format[i])
  <2>1. i \in 1..Len(format) /\ i - 1 = j
    BY <1>2
  <2> QED
    BY <1>1, <2>1
<1> QED
  BY <1>1, <1>2

(* What the count of a final state is, and the step that ends a placeholder. *)
LEMMA Counts ==
  /\ \A n \in Nat : State(FALSE, n).count = n
  /\ Seen(State(TRUE, 0), "}") = State(FALSE, 1)
<1>1. 0 \in Nat /\ 0 + 1 = 1
  OBVIOUS
<1>2. Seen(State(TRUE, 0), "}") = State(FALSE, 0 + 1)
  BY <1>1, SeenIs
<1> QED
  BY <1>1, <1>2 DEF State

(* The formats of the messages, by their braces: plain text, then one placeholder in each shape. *)
LEMMA PlainFormat == placeholder_count(<<"x">>) = 0
<1>1. PICK format : format = <<"x">>
  OBVIOUS
<1>2. /\ Len(format) = 1
      /\ format[1] = "x"
  BY <1>1
<1>3. PICK seen : /\ seen[0] = State(FALSE, 0)
                  /\ \A i, j \in 0..1 : i = j + 1 => seen[i] = Seen(seen[j], format[i])
                  /\ placeholder_count(format) = seen[1].count
  <2>1. 1 \in Nat /\ Len(format) = 1
    BY <1>2
  <2> QED
    BY <2>1, ScanOf, Zenon
<1>4. seen[1] = State(FALSE, 0)
  <2>1. seen[1] = Seen(seen[0], "x")
    <3>1. 1 \in 0..1 /\ 0 \in 0..1 /\ 1 = 0 + 1
      OBVIOUS
    <3> QED
      BY <1>2, <1>3, <3>1, Zenon
  <2>2. Seen(State(FALSE, 0), "x") = State(FALSE, 0)
    BY SeenIs
  <2> QED
    BY <1>3, <2>1, <2>2, Zenon
<1> QED
  BY <1>1, <1>3, <1>4, Counts

(* A placeholder with a specification between its braces counts once. *)
LEMMA SpecFormat == placeholder_count(<<"x", "{", "x", "}", "x">>) = 1
<1>1. PICK format : format = <<"x", "{", "x", "}", "x">>
  OBVIOUS
<1>2. /\ Len(format) = 5
      /\ format[1] = "x" /\ format[2] = "{" /\ format[3] = "x"
      /\ format[4] = "}" /\ format[5] = "x"
  BY <1>1
<1>3. PICK seen : /\ seen[0] = State(FALSE, 0)
                  /\ \A i, j \in 0..5 : i = j + 1 => seen[i] = Seen(seen[j], format[i])
                  /\ placeholder_count(format) = seen[5].count
  <2>1. 5 \in Nat /\ Len(format) = 5
    BY <1>2
  <2> QED
    BY <2>1, ScanOf, Zenon
<1>4. seen[1] = State(FALSE, 0)
  <2>1. seen[1] = Seen(seen[0], "x")
    <3>1. 1 \in 0..5 /\ 0 \in 0..5 /\ 1 = 0 + 1
      OBVIOUS
    <3> QED
      BY <1>2, <1>3, <3>1, Zenon
  <2>2. Seen(State(FALSE, 0), "x") = State(FALSE, 0)
    BY SeenIs
  <2> QED
    BY <1>3, <2>1, <2>2, Zenon
<1>5. seen[2] = State(TRUE, 0)
  <2>1. seen[2] = Seen(seen[1], "{")
    <3>1. 2 \in 0..5 /\ 1 \in 0..5 /\ 2 = 1 + 1
      OBVIOUS
    <3> QED
      BY <1>2, <1>3, <3>1, Zenon
  <2>2. Seen(State(FALSE, 0), "{") = State(TRUE, 0)
    BY SeenIs
  <2> QED
    BY <1>4, <2>1, <2>2, Zenon
<1>6. seen[3] = State(TRUE, 0)
  <2>1. seen[3] = Seen(seen[2], "x")
    <3>1. 3 \in 0..5 /\ 2 \in 0..5 /\ 3 = 2 + 1
      OBVIOUS
    <3> QED
      BY <1>2, <1>3, <3>1, Zenon
  <2>2. Seen(State(TRUE, 0), "x") = State(TRUE, 0)
    BY SeenIs
  <2> QED
    BY <1>5, <2>1, <2>2, Zenon
<1>7. seen[4] = State(FALSE, 1)
  <2>1. seen[4] = Seen(seen[3], "}")
    <3>1. 4 \in 0..5 /\ 3 \in 0..5 /\ 4 = 3 + 1
      OBVIOUS
    <3> QED
      BY <1>2, <1>3, <3>1, Zenon
  <2>2. Seen(State(TRUE, 0), "}") = State(FALSE, 1)
    BY Counts
  <2> QED
    BY <1>6, <2>1, <2>2, Zenon
<1>8. seen[5] = State(FALSE, 1)
  <2>1. seen[5] = Seen(seen[4], "x")
    <3>1. 5 \in 0..5 /\ 4 \in 0..5 /\ 5 = 4 + 1
      OBVIOUS
    <3> QED
      BY <1>2, <1>3, <3>1, Zenon
  <2>2. Seen(State(FALSE, 1), "x") = State(FALSE, 1)
    BY SeenIs
  <2> QED
    BY <1>7, <2>1, <2>2, Zenon
<1> QED
  BY <1>1, <1>3, <1>8, Counts

(* Two open braces are no placeholder; the {} after them is one. *)
LEMMA EscapedFormat == placeholder_count(<<"x", "{", "{", "x", "{", "}">>) = 1
<1>1. PICK format : format = <<"x", "{", "{", "x", "{", "}">>
  OBVIOUS
<1>2. /\ Len(format) = 6
      /\ format[1] = "x" /\ format[2] = "{" /\ format[3] = "{"
      /\ format[4] = "x" /\ format[5] = "{" /\ format[6] = "}"
  BY <1>1
<1>3. PICK seen : /\ seen[0] = State(FALSE, 0)
                  /\ \A i, j \in 0..6 : i = j + 1 => seen[i] = Seen(seen[j], format[i])
                  /\ placeholder_count(format) = seen[6].count
  <2>1. 6 \in Nat /\ Len(format) = 6
    BY <1>2
  <2> QED
    BY <2>1, ScanOf, Zenon
<1>4. seen[1] = State(FALSE, 0)
  <2>1. seen[1] = Seen(seen[0], "x")
    <3>1. 1 \in 0..6 /\ 0 \in 0..6 /\ 1 = 0 + 1
      OBVIOUS
    <3> QED
      BY <1>2, <1>3, <3>1, Zenon
  <2>2. Seen(State(FALSE, 0), "x") = State(FALSE, 0)
    BY SeenIs
  <2> QED
    BY <1>3, <2>1, <2>2, Zenon
<1>5. seen[2] = State(TRUE, 0)
  <2>1. seen[2] = Seen(seen[1], "{")
    <3>1. 2 \in 0..6 /\ 1 \in 0..6 /\ 2 = 1 + 1
      OBVIOUS
    <3> QED
      BY <1>2, <1>3, <3>1, Zenon
  <2>2. Seen(State(FALSE, 0), "{") = State(TRUE, 0)
    BY SeenIs
  <2> QED
    BY <1>4, <2>1, <2>2, Zenon
<1>6. seen[3] = State(FALSE, 0)
  <2>1. seen[3] = Seen(seen[2], "{")
    <3>1. 3 \in 0..6 /\ 2 \in 0..6 /\ 3 = 2 + 1
      OBVIOUS
    <3> QED
      BY <1>2, <1>3, <3>1, Zenon
  <2>2. Seen(State(TRUE, 0), "{") = State(FALSE, 0)
    BY SeenIs
  <2> QED
    BY <1>5, <2>1, <2>2, Zenon
<1>7. seen[4] = State(FALSE, 0)
  <2>1. seen[4] = Seen(seen[3], "x")
    <3>1. 4 \in 0..6 /\ 3 \in 0..6 /\ 4 = 3 + 1
      OBVIOUS
    <3> QED
      BY <1>2, <1>3, <3>1, Zenon
  <2>2. Seen(State(FALSE, 0), "x") = State(FALSE, 0)
    BY SeenIs
  <2> QED
    BY <1>6, <2>1, <2>2, Zenon
<1>8. seen[5] = State(TRUE, 0)
  <2>1. seen[5] = Seen(seen[4], "{")
    <3>1. 5 \in 0..6 /\ 4 \in 0..6 /\ 5 = 4 + 1
      OBVIOUS
    <3> QED
      BY <1>2, <1>3, <3>1, Zenon
  <2>2. Seen(State(FALSE, 0), "{") = State(TRUE, 0)
    BY SeenIs
  <2> QED
    BY <1>7, <2>1, <2>2, Zenon
<1>9. seen[6] = State(FALSE, 1)
  <2>1. seen[6] = Seen(seen[5], "}")
    <3>1. 6 \in 0..6 /\ 5 \in 0..6 /\ 6 = 5 + 1
      OBVIOUS
    <3> QED
      BY <1>2, <1>3, <3>1, Zenon
  <2>2. Seen(State(TRUE, 0), "}") = State(FALSE, 1)
    BY Counts
  <2> QED
    BY <1>8, <2>1, <2>2, Zenon
<1> QED
  BY <1>1, <1>3, <1>9, Counts

(* A placeholder in the middle of a format counts once. *)
LEMMA InnerFormat == placeholder_count(<<"x", "{", "}", "x">>) = 1
<1>1. PICK format : format = <<"x", "{", "}", "x">>
  OBVIOUS
<1>2. /\ Len(format) = 4
      /\ format[1] = "x" /\ format[2] = "{" /\ format[3] = "}"
      /\ format[4] = "x"
  BY <1>1
<1>3. PICK seen : /\ seen[0] = State(FALSE, 0)
                  /\ \A i, j \in 0..4 : i = j + 1 => seen[i] = Seen(seen[j], format[i])
                  /\ placeholder_count(format) = seen[4].count
  <2>1. 4 \in Nat /\ Len(format) = 4
    BY <1>2
  <2> QED
    BY <2>1, ScanOf, Zenon
<1>4. seen[1] = State(FALSE, 0)
  <2>1. seen[1] = Seen(seen[0], "x")
    <3>1. 1 \in 0..4 /\ 0 \in 0..4 /\ 1 = 0 + 1
      OBVIOUS
    <3> QED
      BY <1>2, <1>3, <3>1, Zenon
  <2>2. Seen(State(FALSE, 0), "x") = State(FALSE, 0)
    BY SeenIs
  <2> QED
    BY <1>3, <2>1, <2>2, Zenon
<1>5. seen[2] = State(TRUE, 0)
  <2>1. seen[2] = Seen(seen[1], "{")
    <3>1. 2 \in 0..4 /\ 1 \in 0..4 /\ 2 = 1 + 1
      OBVIOUS
    <3> QED
      BY <1>2, <1>3, <3>1, Zenon
  <2>2. Seen(State(FALSE, 0), "{") = State(TRUE, 0)
    BY SeenIs
  <2> QED
    BY <1>4, <2>1, <2>2, Zenon
<1>6. seen[3] = State(FALSE, 1)
  <2>1. seen[3] = Seen(seen[2], "}")
    <3>1. 3 \in 0..4 /\ 2 \in 0..4 /\ 3 = 2 + 1
      OBVIOUS
    <3> QED
      BY <1>2, <1>3, <3>1, Zenon
  <2>2. Seen(State(TRUE, 0), "}") = State(FALSE, 1)
    BY Counts
  <2> QED
    BY <1>5, <2>1, <2>2, Zenon
<1>7. seen[4] = State(FALSE, 1)
  <2>1. seen[4] = Seen(seen[3], "x")
    <3>1. 4 \in 0..4 /\ 3 \in 0..4 /\ 4 = 3 + 1
      OBVIOUS
    <3> QED
      BY <1>2, <1>3, <3>1, Zenon
  <2>2. Seen(State(FALSE, 1), "x") = State(FALSE, 1)
    BY SeenIs
  <2> QED
    BY <1>6, <2>1, <2>2, Zenon
<1> QED
  BY <1>1, <1>3, <1>7, Counts

(* And so does one at the end. *)
LEMMA LastFormat == placeholder_count(<<"x", "{", "}">>) = 1
<1>1. PICK format : format = <<"x", "{", "}">>
  OBVIOUS
<1>2. /\ Len(format) = 3
      /\ format[1] = "x" /\ format[2] = "{" /\ format[3] = "}"
  BY <1>1
<1>3. PICK seen : /\ seen[0] = State(FALSE, 0)
                  /\ \A i, j \in 0..3 : i = j + 1 => seen[i] = Seen(seen[j], format[i])
                  /\ placeholder_count(format) = seen[3].count
  <2>1. 3 \in Nat /\ Len(format) = 3
    BY <1>2
  <2> QED
    BY <2>1, ScanOf, Zenon
<1>4. seen[1] = State(FALSE, 0)
  <2>1. seen[1] = Seen(seen[0], "x")
    <3>1. 1 \in 0..3 /\ 0 \in 0..3 /\ 1 = 0 + 1
      OBVIOUS
    <3> QED
      BY <1>2, <1>3, <3>1, Zenon
  <2>2. Seen(State(FALSE, 0), "x") = State(FALSE, 0)
    BY SeenIs
  <2> QED
    BY <1>3, <2>1, <2>2, Zenon
<1>5. seen[2] = State(TRUE, 0)
  <2>1. seen[2] = Seen(seen[1], "{")
    <3>1. 2 \in 0..3 /\ 1 \in 0..3 /\ 2 = 1 + 1
      OBVIOUS
    <3> QED
      BY <1>2, <1>3, <3>1, Zenon
  <2>2. Seen(State(FALSE, 0), "{") = State(TRUE, 0)
    BY SeenIs
  <2> QED
    BY <1>4, <2>1, <2>2, Zenon
<1>6. seen[3] = State(FALSE, 1)
  <2>1. seen[3] = Seen(seen[2], "}")
    <3>1. 3 \in 0..3 /\ 2 \in 0..3 /\ 3 = 2 + 1
      OBVIOUS
    <3> QED
      BY <1>2, <1>3, <3>1, Zenon
  <2>2. Seen(State(TRUE, 0), "}") = State(FALSE, 1)
    BY Counts
  <2> QED
    BY <1>5, <2>1, <2>2, Zenon
<1> QED
  BY <1>1, <1>3, <1>6, Counts

(* Every message that a stage reports, or build_source itself, has the arguments its format asks for. *)
LEMMA FormatsHold ==
  ASSUME NEW message \in L!Message \cup P!Message \cup {"file_not_found", "could_not_open_file"}
  PROVE  valid_for_message(message)
<1> DEFINE plain == {"file_not_found", "missing_closing_quote", "unterminated_block_comment"}
           inner == {"could_not_open_file", "source_file_too_large"}
           last == ExpectMessage \ {"expect_brace_before_function_body"}
<1>1. \/ message \in plain
      \/ message = "invalid_character"
      \/ message = "expect_brace_before_function_body"
      \/ message \in inner
      \/ message \in last
  BY DEF L!Message, P!Message, ExpectMessage
<1>2. CASE message \in plain
  <2>1. get_message_format_string(message) = <<"x">> /\ ArgumentsOf(message) = 0
    BY <1>2 DEF get_message_format_string, ArgumentsOf, ExpectMessage
  <2> QED
    BY <2>1, PlainFormat, Zenon DEF valid_for_message
<1>3. CASE message = "invalid_character"
  <2>1. get_message_format_string(message) = <<"x", "{", "x", "}", "x">> /\ ArgumentsOf(message) = 1
    BY <1>3 DEF get_message_format_string, ArgumentsOf, ExpectMessage
  <2> QED
    BY <2>1, SpecFormat, Zenon DEF valid_for_message
<1>4. CASE message = "expect_brace_before_function_body"
  <2>1. /\ get_message_format_string(message) = <<"x", "{", "{", "x", "{", "}">>
        /\ ArgumentsOf(message) = 1
    BY <1>4 DEF get_message_format_string, ArgumentsOf, ExpectMessage
  <2> QED
    BY <2>1, EscapedFormat, Zenon DEF valid_for_message
<1>5. CASE message \in inner
  <2>1. get_message_format_string(message) = <<"x", "{", "}", "x">> /\ ArgumentsOf(message) = 1
    BY <1>5 DEF get_message_format_string, ArgumentsOf, ExpectMessage
  <2> QED
    BY <2>1, InnerFormat, Zenon DEF valid_for_message
<1>6. CASE message \in last
  <2>1. get_message_format_string(message) = <<"x", "{", "}">> /\ ArgumentsOf(message) = 1
    BY <1>6 DEF get_message_format_string, ArgumentsOf, ExpectMessage
  <2> QED
    BY <2>1, LastFormat, Zenon DEF valid_for_message
<1> QED
  BY <1>1, <1>2, <1>3, <1>4, <1>5, <1>6

(***************************************************************************)
(* The assertion of Reporter::report never fails, whatever the file        *)
(* contains and whichever stage reports: the loop of valid_for_message     *)
(* counts one placeholder in every format that takes an argument, also     *)
(* next to an escaped brace, and the stages report no other message.       *)
(***************************************************************************)
THEOREM ReportsStayFormatted == Spec => []ReportsFormatted
<1>1. BInv => ReportsFormatted
  <2> SUFFICES ASSUME BInv, NEW i \in 1..Len(received)
               PROVE  valid_for_message(received[i].message)
    BY DEF ReportsFormatted
  <2>1. /\ Len(lexReports) \in Nat /\ Len(parReports) \in Nat
        /\ \A j \in 1..Len(lexReports) : lexReports[j].message \in L!Message
        /\ \A j \in 1..Len(parReports) : parReports[j].message \in P!Message
    BY ReportsTyped
  <2>2. PICK report : report = received[i]
    OBVIOUS
  <2>3. \/ i \in 1..Len(LockReports) /\ report = LockReports[i]
        \/ \E j \in 1..Len(lexReports) : report = OfLexer(j)
        \/ \E j \in 1..Len(parReports) : report = OfParser(j)
    BY <2>1, <2>2, ReceivedParts
  <2>4. CASE i \in 1..Len(LockReports) /\ report = LockReports[i]
    <3>1. report \in {[message |-> "file_not_found", location |-> NoPosition],
                      [message |-> "could_not_open_file", location |-> NoPosition]}
      BY <2>4 DEF LockReports
    <3>2. report.message \in {"file_not_found", "could_not_open_file"}
      BY <3>1
    <3> QED
      BY <2>2, <3>2, FormatsHold
  <2>5. CASE \E j \in 1..Len(lexReports) : report = OfLexer(j)
    <3>1. PICK j \in 1..Len(lexReports) : report = OfLexer(j)
      BY <2>5
    <3>2. report.message = lexReports[j].message
      BY <3>1 DEF OfLexer, ReportAt
    <3>3. report.message \in L!Message
      BY <2>1, <3>2
    <3> QED
      BY <2>2, <3>3, FormatsHold
  <2>6. CASE \E j \in 1..Len(parReports) : report = OfParser(j)
    <3>1. PICK j \in 1..Len(parReports) : report = OfParser(j)
      BY <2>6
    <3>2. report.message = parReports[j].message
      BY <3>1 DEF OfParser, ReportAt
    <3>3. report.message \in P!Message
      BY <2>1, <3>2
    <3> QED
      BY <2>2, <3>3, FormatsHold
  <2> QED
    BY <2>3, <2>4, <2>5, <2>6
<1> QED
  BY <1>1, BuildInductive, PTL

-----------------------------------------------------------------------------
(* Accepted sources *)

(* Three sequences, one after the other: everything in them is there. *)
LEMMA Joined ==
  ASSUME NEW S, NEW a \in Seq(S), NEW b \in Seq(S), NEW c \in Seq(S), NEW e, e = (a \o b) \o c
  PROVE  /\ \A j \in 1..Len(a) : j \in 1..Len(e) /\ e[j] = a[j]
         /\ \A j \in 1..Len(b) : Len(a) + j \in 1..Len(e) /\ e[Len(a) + j] = b[j]
         /\ \A j \in 1..Len(c) : Len(a) + Len(b) + j \in 1..Len(e) /\ e[Len(a) + Len(b) + j] = c[j]
<1>1. PICK d : d = a \o b
  OBVIOUS
<1>2. /\ Len(a) \in Nat /\ Len(b) \in Nat /\ Len(c) \in Nat
      /\ d \in Seq(S) /\ Len(d) = Len(a) + Len(b)
      /\ \A j \in 1..Len(a) : d[j] = a[j]
      /\ \A j \in 1..Len(b) : d[Len(a) + j] = b[j]
  BY ONLY a \in Seq(S), b \in Seq(S), c \in Seq(S), <1>1
<1>3. e = d \o c
  BY <1>1, Zenon
<1>4. /\ Len(e) = Len(d) + Len(c)
      /\ \A j \in 1..Len(d) : e[j] = d[j]
      /\ \A j \in 1..Len(c) : e[Len(d) + j] = c[j]
  <2>1. d \in Seq(S) /\ c \in Seq(S)
    BY <1>2
  <2>2. Len(d \o c) = Len(d) + Len(c)
    BY ONLY <2>1
  <2>3. \A j \in 1..Len(d) : (d \o c)[j] = d[j]
    BY ONLY <2>1
  <2>4. \A j \in 1..Len(c) : (d \o c)[Len(d) + j] = c[j]
    BY ONLY <2>1
  <2> QED
    BY <1>3, <2>2, <2>3, <2>4, Zenon
<1>5. \A j \in 1..Len(a) : j \in 1..Len(d) /\ j \in 1..Len(e)
  BY <1>2, <1>4
<1>6. \A j \in 1..Len(b) : Len(a) + j \in 1..Len(d) /\ Len(a) + j \in 1..Len(e)
  BY <1>2, <1>4
<1>7. \A j \in 1..Len(c) : Len(d) + j \in 1..Len(e)
  BY <1>2, <1>4
<1> QED
  BY <1>2, <1>4, <1>5, <1>6, <1>7

(* The reporter has received everything that was reported. *)
LEMMA AllReceived ==
  ASSUME Len(lexReports) \in Nat, Len(parReports) \in Nat
  PROVE  /\ \A j \in 1..Len(LockReports) : j \in 1..Len(received) /\ received[j] = LockReports[j]
         /\ \A j \in 1..Len(lexReports) :
              \E i \in 1..Len(received) : received[i] = OfLexer(j)
         /\ \A j \in 1..Len(parReports) :
              \E i \in 1..Len(received) : received[i] = OfParser(j)
<1>1. PICK a, b, c : /\ a = LockReports /\ b = [j \in 1..Len(lexReports) |-> OfLexer(j)]
                     /\ c = [j \in 1..Len(parReports) |-> OfParser(j)]
  OBVIOUS
<1>2. PICK e : e = received /\ e = (a \o b) \o c
  BY <1>1 DEF received, OfLexer, OfParser
<1>3. PICK S : /\ \A j \in 1..Len(lexReports) : OfLexer(j) \in S
               /\ \A j \in 1..Len(parReports) : OfParser(j) \in S
               /\ [message |-> "file_not_found", location |-> NoPosition] \in S
               /\ [message |-> "could_not_open_file", location |-> NoPosition] \in S
  <2> DEFINE T == {OfLexer(j) : j \in 1..Len(lexReports)} \cup {OfParser(j) : j \in 1..Len(parReports)}
                  \cup {[message |-> "file_not_found", location |-> NoPosition],
                        [message |-> "could_not_open_file", location |-> NoPosition]}
  <2>1. /\ \A j \in 1..Len(lexReports) : OfLexer(j) \in T
        /\ \A j \in 1..Len(parReports) : OfParser(j) \in T
        /\ [message |-> "file_not_found", location |-> NoPosition] \in T
        /\ [message |-> "could_not_open_file", location |-> NoPosition] \in T
    OBVIOUS
  <2> QED
    BY <2>1
<1>4. a \in Seq(S)
  BY <1>1, <1>3 DEF LockReports
<1>5. b \in Seq(S) /\ Len(b) = Len(lexReports) /\ \A j \in 1..Len(lexReports) : b[j] = OfLexer(j)
  BY <1>1, <1>3
<1>6. c \in Seq(S) /\ Len(c) = Len(parReports) /\ \A j \in 1..Len(parReports) : c[j] = OfParser(j)
  BY <1>1, <1>3
<1>7. /\ \A j \in 1..Len(a) : j \in 1..Len(e) /\ e[j] = a[j]
      /\ \A j \in 1..Len(b) : Len(a) + j \in 1..Len(e) /\ e[Len(a) + j] = b[j]
      /\ \A j \in 1..Len(c) : Len(a) + Len(b) + j \in 1..Len(e) /\ e[Len(a) + Len(b) + j] = c[j]
  BY <1>2, <1>4, <1>5, <1>6, Joined
<1>8. /\ \A j \in 1..Len(b) : \E i \in 1..Len(e) : e[i] = b[j]
      /\ \A j \in 1..Len(c) : \E i \in 1..Len(e) : e[i] = c[j]
  BY <1>7
<1>9. \A j \in 1..Len(LockReports) : j \in 1..Len(received) /\ received[j] = LockReports[j]
  BY <1>1, <1>2, <1>7, Zenon
<1>10. ASSUME NEW j \in 1..Len(lexReports)
       PROVE  \E i \in 1..Len(received) : received[i] = OfLexer(j)
  BY <1>2, <1>5, <1>8, Zenon
<1>11. ASSUME NEW j \in 1..Len(parReports)
       PROVE  \E i \in 1..Len(received) : received[i] = OfParser(j)
  BY <1>2, <1>6, <1>8, Zenon
<1> QED
  BY <1>9, <1>10, <1>11, Zenon

(* Without an error the source was locked, the parser has been silent, and the lexer has *)
(* said at most that a comment stays open.                                               *)
LEMMA AcceptedSilent ==
  ASSUME BInv, Accepted
  PROVE  /\ error = "none" /\ mode = "done" /\ Parsed
         /\ \A j \in 1..Len(lexReports) : lexReports[j].message = "unterminated_block_comment"
         /\ parReports = <<>>
<1>1. /\ Len(lexReports) \in Nat /\ Len(parReports) \in Nat
      /\ \A j \in 1..Len(parReports) : parReports[j].message \in P!Message
  BY ReportsTyped
<1>2. \A i \in 1..Len(received) : received[i].message = "unterminated_block_comment"
  BY DEF Accepted, Errors, get_default_message_level
<1>3. error = "none"
  <2> SUFFICES ASSUME error # "none" PROVE FALSE
    OBVIOUS
  <2>1. 1 \in 1..Len(LockReports) /\ LockReports[1].message # "unterminated_block_comment"
    BY DEF LockReports
  <2> QED
    BY <1>1, <1>2, <2>1, AllReceived
<1>4. ASSUME NEW j \in 1..Len(lexReports)
      PROVE  lexReports[j].message = "unterminated_block_comment"
  <2>1. PICK i \in 1..Len(received) : received[i] = OfLexer(j)
    BY <1>1, AllReceived
  <2>2. OfLexer(j).message = lexReports[j].message
    BY DEF OfLexer, ReportAt
  <2> QED
    BY <1>2, <2>1, <2>2
<1>5. parReports = <<>>
  <2>1. ASSUME NEW j \in 1..Len(parReports) PROVE FALSE
    <3>1. PICK i \in 1..Len(received) : received[i] = OfParser(j)
      BY <1>1, AllReceived
    <3>2. OfParser(j).message = parReports[j].message
      BY DEF OfParser, ReportAt
    <3>3. "unterminated_block_comment" \notin P!Message
      BY DEF P!Message
    <3> QED
      BY <1>1, <1>2, <3>1, <3>2, <3>3
  <2>2. Len(parReports) = 0
    BY <1>1, <2>1
  <2>3. parReports \in Seq([message : P!Message, at : Nat])
    <3>1. Parsed
      BY <1>3 DEF Accepted, Parsed
    <3> QED
      BY <3>1 DEF BInv, ParserInv, P!IInv, P!OrderInv, P!CursorInv
  <2> QED
    BY <2>2, <2>3
<1>6. mode = "done" /\ Parsed
  BY <1>3 DEF BInv, PhaseInv, Parsed, Accepted
<1> QED
  BY <1>3, <1>4, <1>5, <1>6

(***************************************************************************)
(* No source is accepted that has not been read to its end, or in which a  *)
(* literal stays open.  Lexer::on_quote says nothing of a quote at the end *)
(* of the text or at a NUL; but then the literal comes right before        *)
(* end_of_file, and a list that Parser::parse takes without a report ends  *)
(* with a closing brace there.                                             *)
(***************************************************************************)
THEOREM AcceptedSourcesAreRead == Spec => []AcceptedIsRead
<1>1. BInv => AcceptedIsRead
  <2> SUFFICES ASSUME BInv, Accepted
               PROVE  /\ lexIt = Len(text)
                      /\ \A i \in 1..Len(tokens) : tokens[i].kind \in QuotedKind => Closed(tokens[i])
    BY DEF AcceptedIsRead
  <2>1. /\ mode = "done" /\ Parsed /\ parReports = <<>>
        /\ \A j \in 1..Len(lexReports) : lexReports[j].message = "unterminated_block_comment"
    BY AcceptedSilent
  <2>2. LexerInv /\ ParserInv /\ lexPc = "done"
    BY <2>1 DEF BInv, PhaseInv
  <2>3. /\ lexIt = Len(text)
        /\ \A i \in L!TokensOf(L!QuotedKind) : i # Len(tokens) - 1 =>
             /\ tokens[i].variable_length >= 2
             /\ text[tokens[i].offset + tokens[i].variable_length] = text[tokens[i].offset + 1]
    BY <2>1, <2>2, LexerConstants, L!SilentList, Zenon DEF LexerInv
  <2>4. Len(tokens) = 1 \/ tokens[Len(tokens) - 1].kind = "r_brace"
    BY <2>1, <2>2, ParserConstants, P!EndsWithBrace, Zenon DEF ParserInv
  <2>5. /\ Len(tokens) \in Nat /\ tokens[Len(tokens)].kind = "end_of_file"
    BY <2>2, ListIsReady DEF LexerInv, TokenLists
  <2>6. ASSUME NEW i \in 1..Len(tokens), tokens[i].kind \in QuotedKind
        PROVE  Closed(tokens[i])
    <3>1. "end_of_file" \notin QuotedKind /\ "r_brace" \notin QuotedKind /\ L!QuotedKind = QuotedKind
      BY DEF QuotedKind, L!QuotedKind
    <3>2. i # Len(tokens) /\ i # Len(tokens) - 1
      BY <2>4, <2>5, <2>6, <3>1
    <3>3. i \in L!TokensOf(L!QuotedKind)
      BY <2>6, <3>1 DEF L!TokensOf
    <3> QED
      BY <2>3, <3>2, <3>3 DEF Closed
  <2> QED
    BY <2>3, <2>6
<1> QED
  BY <1>1, BuildInductive, PTL
=============================================================================
