---------------------------- MODULE LexerProofs ----------------------------
(***************************************************************************)
(* Proofs that the lexer, for every set of texts, keyword table and size   *)
(* limit, keeps its cursor inside the text, leaves its tokens and its      *)
(* reports in source order and ends the list once.                         *)
(*                                                                         *)
(* None of these is inductive by itself.  While a handler is running, the  *)
(* cursor is past the start of the token it is working on, so the tokens   *)
(* already put must be compared with the start of that token, the          *)
(* frontier; and the lengths kept in the handler's locals must fit between *)
(* that start and the cursor.                                              *)
(***************************************************************************)
EXTENDS LexerProperties, TLAPS

(* All tokens of the list end at or before offset b. *)
Before(list, b) ==
  \A i \in 1..Len(list) : list[i].offset < b /\ End(list[i]) \in 0..b

(* The list has no end_of_file token. *)
Open(list) == \A i \in 1..Len(list) : list[i].kind # "end_of_file"

(* The offset before which the text has been turned into tokens. *)
Frontier == IF pc \in Loop THEN local.offset ELSE it

(* Only a text whose offsets fit a token is lexed. *)
SizeInv == pc \in {"source"} \cup Loop => Len(text) <= source_size_max

(* The locals of the running handler describe a stretch of text before the cursor. *)
LoopInv ==
  /\ pc \in Loop => /\ local.offset < it /\ local.kind # "end_of_file"
                    /\ pc = "quote" => local.kind \in QuotedKind
                    /\ pc \in {"line_comment", "block_comment"} => local.kind \in CommentKind
  /\ pc \in {"digits", "digit_gap"} =>
       /\ local.offset <= local.from
       /\ local.from < it
       /\ local.kind = "float_literal" => local.offset < local.from
                                          /\ local.offset + local.int_length <= local.from
  /\ pc = "digit_gap" => local.from + local.length <= it
  /\ pc = "block_comment" => local.unclosed_count >= 1

TokenInv ==
  /\ Ordered(tokens)
  /\ pc # "done" => Before(tokens, Frontier) /\ Open(tokens)
  /\ pc = "done" => /\ Len(tokens) > 0
                    /\ tokens[Len(tokens)].kind = "end_of_file"
                    /\ \A i \in 1..(Len(tokens) - 1) : tokens[i].kind # "end_of_file"
                    /\ tokens[Len(tokens)].offset <= Len(text)
  /\ pc = "run" => tokens = <<>>

(* A report at the cursor itself can only be about the newline that is skipped next. *)
ReportInv ==
  /\ ReportsInOrder
  /\ pc = "run" => reports = <<>>
  /\ pc \in Loop => \A i \in 1..Len(reports) : reports[i].offset < local.offset
  /\ pc = "source" => \A i \in 1..Len(reports) :
                        reports[i].offset < it \/ (reports[i].offset = it /\ peek = "\n")

IInv == TypeOK /\ SizeInv /\ LoopInv /\ TokenInv /\ ReportInv

-----------------------------------------------------------------------------
(* Facts about the operators of the model. *)

(* An offset within the limit is stored unchanged in the 24 bits of a token. *)
LEMMA Unmasked ==
  ASSUME NEW x \in Nat, NEW m \in Nat, x <= m
  PROVE  x % (m + 1) = x
BY SMT

(* A larger one is not made larger. *)
LEMMA MaskShrinks ==
  ASSUME NEW x \in Nat, NEW m \in Nat
  PROVE  x % (m + 1) \in Nat /\ x % (m + 1) <= x
BY SMT

(* The end_of_file token is at an offset of the text, or one past its last byte. *)
LEMMA EndOffset ==
  ASSUME TypeOK, NEW list \in Seq(TokenType)
  PROVE  LET new == Append(list, Token("end_of_file", it, 0))
         IN  new[Len(new)].offset <= Len(text)
<1>1. it \in Nat /\ Len(text) \in Nat /\ it <= Len(text)
  BY DEF TypeOK
<1>2. PICK t : t = Token("end_of_file", it, 0)
  OBVIOUS
<1>3. Append(list, t)[Len(Append(list, t))] = t
  OBVIOUS
<1>4. t.offset = it % (source_size_max + 1)
  BY <1>2 DEF Token
<1>5. t.offset <= Len(text)
  BY <1>1, <1>4, MaskShrinks, SourceSizeAssumption
<1> QED
  BY <1>2, <1>3, <1>5

(* A token is well-formed, whatever its offset. *)
LEMMA TokenIsTyped ==
  ASSUME NEW kind \in TokenKind, NEW offset \in Nat, NEW length \in Nat
  PROVE  Token(kind, offset, length) \in TokenType
<1>1. offset % (source_size_max + 1) \in 0..source_size_max
  BY SourceSizeAssumption, SMT
<1> QED
  BY <1>1 DEF Token, TokenType

(* How long a token is, by its kind. *)
LEMMA Widths ==
  ASSUME NEW t
  PROVE  /\ t.kind \in VariableLengthKind => Width(t) = t.variable_length
         /\ t.kind \in KeywordKind => Width(t) = Len(KeywordLexeme(t.kind))
         /\ t.kind \in PunctuationKind => Width(t) = Len(Lexeme[t.kind])
         /\ t.kind = "end_of_file" => Width(t) = 0
<1>1. KeywordKind \cap VariableLengthKind = {} /\ KeywordKind \cap PunctuationKind = {}
      /\ "end_of_file" \notin KeywordKind
  BY DEF KeywordKind, VariableLengthKind, CommentKind, NumericKind, QuotedKind, PunctuationKind, Lexeme
<1>2. VariableLengthKind \cap PunctuationKind = {} /\ "end_of_file" \notin VariableLengthKind
  BY DEF VariableLengthKind, CommentKind, NumericKind, QuotedKind, PunctuationKind, Lexeme
<1>3. "end_of_file" \notin PunctuationKind
  BY DEF PunctuationKind, Lexeme
<1> QED
  BY <1>1, <1>2, <1>3 DEF Width

(* A kind has one keyword. *)
LEMMA LexemeOf ==
  ASSUME NEW kw \in keywords
  PROVE  KeywordLexeme(kw.kind) = kw.lexeme
BY KeywordsAssumption DEF KeywordLexeme

(* Where a token of variable length ends, when its offset is within the limit. *)
LEMMA VariableEnds ==
  ASSUME NEW kind \in VariableLengthKind, NEW offset \in Nat, NEW length \in Nat,
         offset <= source_size_max
  PROVE  End(Token(kind, offset, length)) = offset + length
<1>1. PICK t : t = Token(kind, offset, length)
  OBVIOUS
<1>2. t.offset = offset /\ t.kind = kind /\ t.variable_length = length
  BY <1>1, Unmasked, SourceSizeAssumption DEF Token
<1> QED
  BY <1>1, <1>2, Widths DEF End

(* Where a keyword ends. *)
LEMMA KeywordEnds ==
  ASSUME NEW kind \in KeywordKind, NEW offset \in Nat, offset <= source_size_max
  PROVE  End(Token(kind, offset, 0)) = offset + Len(KeywordLexeme(kind))
<1>1. PICK t : t = Token(kind, offset, 0)
  OBVIOUS
<1>2. t.offset = offset /\ t.kind = kind /\ t.variable_length = 0
  BY <1>1, Unmasked, SourceSizeAssumption DEF Token
<1> QED
  BY <1>1, <1>2, Widths DEF End

(* Where punctuation ends. *)
LEMMA PunctuationEnds ==
  ASSUME NEW kind \in PunctuationKind, NEW offset \in Nat, offset <= source_size_max
  PROVE  End(Token(kind, offset, 0)) = offset + Len(Lexeme[kind])
<1>1. PICK t : t = Token(kind, offset, 0)
  OBVIOUS
<1>2. t.offset = offset /\ t.kind = kind /\ t.variable_length = 0
  BY <1>1, Unmasked, SourceSizeAssumption DEF Token
<1> QED
  BY <1>1, <1>2, Widths DEF End

(* Where the last token ends. *)
LEMMA EndOfFileEnds ==
  ASSUME NEW offset \in Nat, offset <= source_size_max
  PROVE  End(Token("end_of_file", offset, 0)) = offset
<1>1. PICK t : t = Token("end_of_file", offset, 0)
  OBVIOUS
<1>2. t.offset = offset /\ t.kind = "end_of_file" /\ t.variable_length = 0
  BY <1>1, Unmasked, SourceSizeAssumption DEF Token
<1> QED
  BY <1>1, <1>2, Widths DEF End

(* The offset of a token is a number. *)
LEMMA TokenNumbers ==
  ASSUME NEW t \in TokenType
  PROVE  t.offset \in Nat
BY SourceSizeAssumption DEF TokenType

(***************************************************************************)
(* Putting a token that starts at or after b and ends at or before e keeps *)
(* a list that lies before b in order, and the new list lies before e.     *)
(***************************************************************************)
LEMMA PutKeepsOrder ==
  ASSUME NEW list \in Seq(TokenType), NEW b \in Nat, NEW e \in Nat,
         NEW kind \in TokenKind, NEW offset \in Nat, NEW length \in Nat,
         Ordered(list), Before(list, b),
         b <= offset, offset < e, End(Token(kind, offset, length)) \in 0..e,
         offset <= source_size_max
  PROVE  LET new == Append(list, Token(kind, offset, length))
         IN  new \in Seq(TokenType) /\ Ordered(new) /\ Before(new, e)
<1> DEFINE t == Token(kind, offset, length)
           new == Append(list, t)
<1>1. t \in TokenType
  BY TokenIsTyped
<1>2. t.offset = offset /\ End(t) \in 0..e
  BY Unmasked, SourceSizeAssumption DEF Token
<1>3. /\ new \in Seq(TokenType)
      /\ Len(new) = Len(list) + 1
      /\ Len(list) \in Nat
      /\ new[Len(list) + 1] = t
      /\ \A i \in 1..Len(list) : new[i] = list[i]
  BY <1>1
<1>4. \A i \in 1..Len(list) : list[i].offset < offset /\ End(list[i]) \in 0..offset
  <2> SUFFICES ASSUME NEW i \in 1..Len(list)
               PROVE  list[i].offset < offset /\ End(list[i]) \in 0..offset
    OBVIOUS
  <2>1. list[i] \in TokenType
    OBVIOUS
  <2>2. list[i].offset \in Nat
    BY <2>1, TokenNumbers
  <2> QED
    BY <2>2 DEF Before
<1> HIDE DEF t, new
<1>5. Ordered(new)
  <2> SUFFICES ASSUME NEW i \in 1..Len(new), NEW j \in 1..Len(new), i < j
               PROVE  new[i].offset < new[j].offset /\ End(new[i]) <= new[j].offset
    BY DEF Ordered
  <2>1. CASE j <= Len(list)
    <3>1. i \in 1..Len(list) /\ j \in 1..Len(list)
      BY <1>3, <2>1
    <3>2. new[i] = list[i] /\ new[j] = list[j]
      BY <1>3, <3>1
    <3>3. list[i].offset < list[j].offset /\ End(list[i]) <= list[j].offset
      BY <3>1 DEF Ordered
    <3> QED
      BY <3>2, <3>3, Zenon
  <2>2. CASE j = Len(list) + 1
    <3>1. i \in 1..Len(list)
      BY <1>3, <2>2
    <3>2. new[i] = list[i] /\ new[j].offset = offset
      BY <1>2, <1>3, <2>2, <3>1
    <3>3. list[i].offset < offset /\ End(list[i]) <= offset
      BY <1>4, <3>1
    <3> QED
      BY <3>2, <3>3, Zenon
  <2> QED
    BY <2>1, <2>2, <1>3
<1>6. Before(new, e)
  <2> SUFFICES ASSUME NEW i \in 1..Len(new)
               PROVE  new[i].offset < e /\ End(new[i]) \in 0..e
    BY DEF Before
  <2>1. CASE i <= Len(list)
    <3>1. list[i] \in TokenType
      BY <2>1, <1>3
    <3> QED
      BY <2>1, <3>1, <1>3, <1>4, TokenNumbers
  <2>2. CASE i = Len(list) + 1
    BY <2>2, <1>2, <1>3
  <2> QED
    BY <2>1, <2>2, <1>3
<1> QED
  BY <1>3, <1>5, <1>6 DEF new, t

(* A list that lies before b lies before any later offset. *)
LEMMA BeforeLater ==
  ASSUME NEW list \in Seq(TokenType), NEW b \in Nat, NEW e \in Nat, Before(list, b), b <= e
  PROVE  Before(list, e)
<1> SUFFICES ASSUME NEW i \in 1..Len(list)
             PROVE  list[i].offset < e /\ End(list[i]) \in 0..e
  BY DEF Before
<1>1. list[i] \in TokenType
  OBVIOUS
<1> QED
  BY <1>1, TokenNumbers DEF Before

(* What has been said of lists of tokens, for a token that is put while lexing goes on. *)
LEMMA PutToken ==
  ASSUME NEW list \in Seq(TokenType), NEW b \in Nat, NEW e \in Nat,
         NEW kind \in TokenKind \ {"end_of_file"}, NEW offset \in Nat, NEW length \in Nat,
         Ordered(list), Before(list, b), Open(list),
         b <= offset, offset < e, End(Token(kind, offset, length)) \in 0..e,
         offset <= source_size_max
  PROVE  LET new == Append(list, Token(kind, offset, length))
         IN  new \in Seq(TokenType) /\ Ordered(new) /\ Before(new, e) /\ Open(new)
<1>1. LET new == Append(list, Token(kind, offset, length))
      IN  new \in Seq(TokenType) /\ Ordered(new) /\ Before(new, e)
  BY PutKeepsOrder
<1>2. Token(kind, offset, length) \in TokenType
  BY TokenIsTyped
<1>3. Token(kind, offset, length).kind # "end_of_file"
  BY DEF Token
<1>4. Open(Append(list, Token(kind, offset, length)))
  BY <1>2, <1>3 DEF Open
<1> QED
  BY <1>1, <1>4

ReportType == [message : Message, offset : 0..Len(text)]

(* A report about a later offset keeps the reports in order. *)
LEMMA ReportKeepsOrder ==
  ASSUME reports \in Seq(ReportType), ReportsInOrder,
         NEW message \in Message, NEW offset \in 0..Len(text),
         \A i \in 1..Len(reports) : reports[i].offset < offset,
         Report(message, offset), text' = text
  PROVE  /\ reports' \in Seq(ReportType)
         /\ ReportsInOrder'
         /\ \A i \in 1..Len(reports') : reports'[i].offset <= offset
<1> DEFINE r == [message |-> message, offset |-> offset]
<1>1. r \in ReportType /\ r.offset = offset
  BY DEF ReportType
<1>2. /\ reports' \in Seq(ReportType)
      /\ Len(reports') = Len(reports) + 1
      /\ Len(reports) \in Nat
      /\ reports'[Len(reports) + 1] = r
      /\ \A i \in 1..Len(reports) : reports'[i] = reports[i]
  BY <1>1 DEF Report
<1> HIDE DEF r
<1>3. ReportsInOrder'
  <2> SUFFICES ASSUME NEW i \in 1..Len(reports'), NEW j \in 1..Len(reports'), i < j
               PROVE  reports'[i].offset < reports'[j].offset
    BY DEF ReportsInOrder
  <2>1. CASE j <= Len(reports)
    BY <2>1, <1>2 DEF ReportsInOrder
  <2>2. CASE j = Len(reports) + 1
    BY <2>2, <1>1, <1>2
  <2> QED
    BY <2>1, <2>2, <1>2
<1>4. ASSUME NEW i \in 1..Len(reports')
      PROVE  reports'[i].offset <= offset
  <2>1. CASE i <= Len(reports)
    <3>1. reports[i] \in ReportType
      BY <2>1, <1>2
    <3>2. reports[i].offset \in Int /\ offset \in Int
      BY <3>1 DEF ReportType
    <3> QED
      BY <2>1, <3>2, <1>2
  <2>2. CASE i = Len(reports) + 1
    BY <2>2, <1>1, <1>2
  <2> QED
    BY <2>1, <2>2, <1>2
<1> QED
  BY <1>2, <1>3, <1>4

(* A character that some class names is neither the NUL at the end nor, but for whitespace, a newline. *)
LEMMA CharClasses ==
  /\ NUL \notin AsciiWhitespace \cup AsciiIdentifierChar \cup StrayAscii \cup Punctuation
  /\ NUL \notin NonAscii
  /\ "\n" \notin AsciiIdentifierChar \cup StrayAscii \cup Punctuation
  /\ "\n" \notin NonAscii
  /\ HexadecimalDigit \subseteq AsciiIdentifierChar
  /\ DecimalDigit \subseteq AsciiIdentifierChar
<1>1. NUL \in Ascii /\ "\n" \in Ascii
  BY DEF Ascii, AsciiWhitespace
<1>2. NUL \notin NonAscii /\ "\n" \notin NonAscii
  BY <1>1, NonAsciiAssumption
<1> QED
  BY <1>2 DEF NUL, AsciiWhitespace, AsciiIdentifierChar, StrayAscii, Punctuation,
              HexadecimalDigit, DecimalDigit, LowerLetter, UpperLetter

(* The text has a length and the cursor is an offset in it. *)
LEMMA TextLength ==
  ASSUME TypeOK
  PROVE  Len(text) \in Nat /\ it \in Nat /\ it <= Len(text)
BY DEF TypeOK

(* A character other than NUL is one of the text. *)
LEMMA PeekIsInText ==
  ASSUME TypeOK, peek # NUL
  PROVE  it + 1 \in 1..Len(text)
BY TextLength DEF peek, ByteAt

(* A multi-byte character takes at least one byte and none past the end. *)
LEMMA Utf8WidthFits ==
  ASSUME TypeOK, peek # NUL
  PROVE  Utf8Width(it) \in 1..(Len(text) - it)
<1>1. it \in Nat /\ Len(text) \in Nat /\ it < Len(text)
  BY TextLength, PeekIsInText
<1>2. \A b : announced_width(b) \in 1..4
  BY NonAsciiAssumption DEF announced_width, leading_ones
<1> QED
  BY <1>1, <1>2 DEF Utf8Width

-----------------------------------------------------------------------------
(* The shapes a step of the lexer can have. *)

(* A loop consumes characters and stays in the same handler. *)
LEMMA LoopStep ==
  ASSUME IInv, pc \in Loop, pc' \in Loop,
         UNCHANGED <<text, emit_comments, tokens, reports>>,
         it' \in it..Len(text), local' \in LocalsType, local'.offset = local.offset,
         LoopInv'
  PROVE  IInv'
<1>1. Len(text) \in Nat /\ it \in Nat
  BY TextLength DEF IInv
<1>2. TypeOK'
  BY <1>1 DEF IInv, TypeOK
<1>3. SizeInv'
  BY DEF IInv, SizeInv
<1>4. pc # "done" /\ pc # "run" /\ pc # "source" /\ pc' # "done" /\ pc' # "run" /\ pc' # "source"
  BY DEF Loop
<1>5. TokenInv'
  BY <1>4 DEF IInv, TokenInv, Frontier, Before, Open, Ordered
<1>6. ReportInv'
  BY <1>4 DEF IInv, ReportInv, ReportsInOrder
<1> QED
  BY <1>2, <1>3, <1>5, <1>6 DEF IInv

(* The dispatch loop calls a handler, which consumes its first characters and enters its loop. *)
LEMMA EnterStep ==
  ASSUME IInv, pc = "source", peek # "\n", pc' \in Loop,
         UNCHANGED <<text, emit_comments, tokens, reports>>,
         it' \in (it + 1)..Len(text), local' \in LocalsType, local'.offset = it,
         LoopInv'
  PROVE  IInv'
<1>1. Len(text) \in Nat /\ it \in Nat
  BY TextLength DEF IInv
<1>2. TypeOK'
  BY <1>1 DEF IInv, TypeOK
<1>3. SizeInv'
  BY DEF IInv, SizeInv
<1>4. pc \notin Loop /\ pc' # "done" /\ pc' # "run" /\ pc' # "source"
  BY DEF Loop
<1>5. TokenInv'
  BY <1>4 DEF IInv, TokenInv, Frontier, Before, Open, Ordered
<1>6. ReportInv'
  BY <1>4 DEF IInv, ReportInv, ReportsInOrder
<1> QED
  BY <1>2, <1>3, <1>5, <1>6 DEF IInv

(* A handler or the dispatch loop itself goes on to the next character of the source. *)
LEMMA SourceStep ==
  ASSUME IInv, pc \in {"source"} \cup Loop, pc' = "source",
         UNCHANGED <<text, emit_comments>>,
         it' \in it..Len(text), local' \in LocalsType,
         tokens' \in Seq(TokenType), Ordered(tokens'), Before(tokens', it'), Open(tokens'),
         reports' \in Seq(ReportType), ReportsInOrder',
         \A i \in 1..Len(reports') :
           reports'[i].offset < it' \/ (reports'[i].offset = it' /\ peek' = "\n")
  PROVE  IInv'
<1>1. Len(text) \in Nat /\ it \in Nat
  BY TextLength DEF IInv
<1>2. TypeOK'
  BY <1>1 DEF IInv, TypeOK, ReportType
<1>3. SizeInv'
  BY DEF IInv, SizeInv
<1>4. pc' \notin Loop /\ pc' # "done" /\ pc' # "run" /\ pc' # "digits" /\ pc' # "digit_gap"
      /\ pc' # "block_comment"
  BY DEF Loop
<1>5. LoopInv'
  BY <1>4 DEF LoopInv
<1>6. TokenInv'
  BY <1>4 DEF TokenInv, Frontier, Before, Open, Ordered
<1>7. ReportInv'
  BY <1>4 DEF ReportInv, ReportsInOrder
<1> QED
  BY <1>2, <1>3, <1>5, <1>6, <1>7 DEF IInv

(* The locals of no handler have the type of locals. *)
LEMMA NoLocalsTyped == NoLocals \in LocalsType
BY DEF NoLocals, LocalsType, TokenKind, VariableLengthKind

(* The frontier is an offset at or before the cursor, and everything put and reported lies before it. *)
LEMMA AtFrontier ==
  ASSUME IInv, pc \in Loop
  PROVE  /\ local.offset \in Nat /\ it \in Nat /\ Len(text) \in Nat
         /\ local.offset < it /\ it <= Len(text) /\ local.offset <= source_size_max
         /\ local.kind \in TokenKind \ {"end_of_file"}
         /\ source_size_max \in Nat
         /\ tokens \in Seq(TokenType)
         /\ Ordered(tokens) /\ Before(tokens, local.offset) /\ Open(tokens)
         /\ reports \in Seq(ReportType) /\ ReportsInOrder
         /\ \A i \in 1..Len(reports) : reports[i].offset < local.offset
<1>1. Len(text) \in Nat /\ it \in Nat /\ it <= Len(text)
  BY TextLength DEF IInv
<1>2. local.offset \in Nat /\ local.kind \in TokenKind
  BY DEF IInv, TypeOK, LocalsType
<1>3. local.offset < it /\ local.kind # "end_of_file"
  BY DEF IInv, LoopInv
<1>4. Len(text) <= source_size_max
  BY DEF IInv, SizeInv
<1>5. pc # "done"
  BY DEF Loop
<1> QED
  BY <1>1, <1>2, <1>3, <1>4, <1>5, SourceSizeAssumption
     DEF IInv, TypeOK, TokenInv, ReportInv, Frontier, ReportType

(* The same for the dispatch loop, where the frontier is the cursor. *)
LEMMA AtSource ==
  ASSUME IInv, pc = "source"
  PROVE  /\ it \in Nat /\ Len(text) \in Nat /\ it <= Len(text) /\ it <= source_size_max
         /\ Len(text) <= source_size_max /\ source_size_max \in Nat
         /\ tokens \in Seq(TokenType)
         /\ Ordered(tokens) /\ Before(tokens, it) /\ Open(tokens)
         /\ reports \in Seq(ReportType) /\ ReportsInOrder
         /\ peek # "\n" => \A i \in 1..Len(reports) : reports[i].offset < it
         /\ \A i \in 1..Len(reports) : reports[i].offset <= it
<1>1. Len(text) \in Nat /\ it \in Nat /\ it <= Len(text)
  BY TextLength DEF IInv
<1>2. Len(text) <= source_size_max
  BY DEF IInv, SizeInv
<1>3. pc \notin Loop /\ pc # "done"
  BY DEF Loop
<1>4. \A i \in 1..Len(reports) : reports[i].offset < it \/ (reports[i].offset = it /\ peek = "\n")
  BY DEF IInv, ReportInv
<1>5. reports \in Seq(ReportType)
  BY DEF IInv, TypeOK, ReportType
<1>6. \A i \in 1..Len(reports) : reports[i].offset \in Int
  <2> SUFFICES ASSUME NEW i \in 1..Len(reports)
               PROVE  reports[i].offset \in Int
    OBVIOUS
  <2>1. reports[i] \in ReportType
    BY <1>5
  <2> QED
    BY <2>1 DEF ReportType
<1> QED
  BY <1>1, <1>2, <1>3, <1>4, <1>5, <1>6, SourceSizeAssumption
     DEF IInv, TypeOK, TokenInv, ReportInv, Frontier

(* The token a handler has been working on can be put when it ends at offset e. *)
LEMMA PutAtFrontier ==
  ASSUME IInv, pc \in Loop, NEW kind \in TokenKind \ {"end_of_file"}, NEW length \in Nat,
         NEW e \in Nat, local.offset < e, End(Token(kind, local.offset, length)) \in 0..e
  PROVE  LET new == Append(tokens, Token(kind, local.offset, length))
         IN  new \in Seq(TokenType) /\ Ordered(new) /\ Before(new, e) /\ Open(new)
<1>1. /\ tokens \in Seq(TokenType) /\ local.offset \in Nat /\ local.offset <= source_size_max
      /\ Ordered(tokens) /\ Before(tokens, local.offset) /\ Open(tokens)
      /\ local.offset <= local.offset
  BY AtFrontier
<1> QED
  BY <1>1, PutToken

(* A handler leaves its loop without a report. *)
LEMMA ReturnStep ==
  ASSUME IInv, pc \in Loop, Return, UNCHANGED <<text, emit_comments, reports>>,
         it' \in it..Len(text),
         tokens' \in Seq(TokenType), Ordered(tokens'), Before(tokens', it'), Open(tokens')
  PROVE  IInv'
<1>1. reports' \in Seq(ReportType) /\ ReportsInOrder'
  BY AtFrontier DEF ReportsInOrder
<1>2. \A i \in 1..Len(reports') : reports'[i].offset < it'
  <2> SUFFICES ASSUME NEW i \in 1..Len(reports)
               PROVE  reports[i].offset < it'
    OBVIOUS
  <2>1. reports[i] \in ReportType
    BY AtFrontier
  <2>2. reports[i].offset \in Int
    BY <2>1 DEF ReportType
  <2> QED
    BY <2>2, AtFrontier
<1>3. pc' = "source" /\ local' \in LocalsType
  BY NoLocalsTyped DEF Return
<1> QED
  BY <1>1, <1>2, <1>3, SourceStep

(* A handler leaves its loop after a report about its token or a character it has come to. *)
LEMMA ReturnReportingStep ==
  ASSUME IInv, pc \in Loop, Return, UNCHANGED <<text, emit_comments>>,
         it' \in it..Len(text),
         tokens' \in Seq(TokenType), Ordered(tokens'), Before(tokens', it'), Open(tokens'),
         NEW message \in Message, NEW offset \in 0..Len(text), Report(message, offset),
         local.offset <= offset, offset < it' \/ (offset = it' /\ peek' = "\n")
  PROVE  IInv'
<1>1. \A i \in 1..Len(reports) : reports[i].offset < offset
  <2> SUFFICES ASSUME NEW i \in 1..Len(reports)
               PROVE  reports[i].offset < offset
    OBVIOUS
  <2>1. reports[i] \in ReportType
    BY AtFrontier
  <2>2. reports[i].offset \in Int
    BY <2>1 DEF ReportType
  <2> QED
    BY <2>2, AtFrontier
<1>2. /\ reports' \in Seq(ReportType) /\ ReportsInOrder'
      /\ \A i \in 1..Len(reports') : reports'[i].offset <= offset
  BY <1>1, AtFrontier, ReportKeepsOrder
<1>3. ASSUME NEW i \in 1..Len(reports')
      PROVE  reports'[i].offset < it' \/ (reports'[i].offset = it' /\ peek' = "\n")
  <2>1. reports'[i] \in ReportType
    BY <1>2
  <2>2. reports'[i].offset \in Int /\ it' \in Int /\ offset \in Int
    BY <2>1, AtFrontier DEF ReportType
  <2>3. reports'[i].offset <= offset
    BY <1>2
  <2> QED
    BY <2>2, <2>3
<1>4. pc' = "source" /\ local' \in LocalsType
  BY NoLocalsTyped DEF Return
<1> QED
  BY <1>2, <1>3, <1>4, SourceStep

-----------------------------------------------------------------------------
(* The invariant is preserved, loop by loop. *)

(* No byte of a keyword is outside ASCII. *)
LEMMA Letters ==
  /\ LowerLetter \cap NonAscii = {}
  /\ NUL \notin LowerLetter /\ NUL \notin NonAscii
  /\ NUL \in Ascii \ AsciiIdentifierChar
  /\ AsciiIdentifierChar \cap NonAscii = {}
  /\ DecimalDigit \cap NonAscii = {}
  /\ LowerLetter \subseteq AsciiIdentifierChar
<1>1. AsciiIdentifierChar \subseteq Ascii /\ NUL \in Ascii
  BY DEF Ascii
<1>2. LowerLetter \subseteq AsciiIdentifierChar /\ DecimalDigit \subseteq AsciiIdentifierChar
  BY DEF AsciiIdentifierChar
<1>3. NUL \notin AsciiIdentifierChar
  BY CharClasses
<1> QED
  BY <1>1, <1>2, <1>3, NonAsciiAssumption

(* The tail of a sequence, byte by byte, as it is encoded. *)
LEMMA EncodedTail ==
  ASSUME NEW S, NEW word \in Seq(S), Len(word) > 0, NEW i \in 1..TailWidth
  PROVE  Encode(Tail(word))[i] = IF i <= Len(word) - 1 THEN word[i + 1] ELSE NUL
<1>1. Tail(word) \in Seq(S) /\ Len(Tail(word)) = Len(word) - 1
      /\ \A k \in 1..(Len(word) - 1) : Tail(word)[k] = word[k + 1]
  OBVIOUS
<1> QED
  BY <1>1, KeywordsAssumption DEF Encode

(* The tail of the word in [o, e), byte by byte, as it is encoded. *)
LEMMA EncodedText ==
  ASSUME text \in Seq(Byte), NEW o \in Nat, NEW e \in Nat, o < e, e <= Len(text),
         NEW i \in 1..TailWidth
  PROVE  Encode(SubSeq(text, o + 2, e))[i] = IF i <= e - o - 1 THEN text[o + 1 + i] ELSE NUL
<1>1. Len(SubSeq(text, o + 2, e)) = e - o - 1
      /\ \A k \in 1..(e - o - 1) : SubSeq(text, o + 2, e)[k] = text[o + 1 + k]
  BY Len(text) \in Nat, SMTT(30)
<1> QED
  BY <1>1, KeywordsAssumption DEF Encode

(* A keyword that is spelled by the word in [o, e) is not longer: its letters are no zero bytes. *)
LEMMA KeywordFits ==
  ASSUME text \in Seq(Byte), NEW o \in Nat, NEW e \in Nat, o < e, e <= Len(text),
         NEW kw \in KeywordsSpelled(o, e)
  PROVE  kw \in keywords /\ Len(kw.lexeme) \in 1..(e - o)
<1>1. /\ kw \in keywords /\ e - o <= TailWidth + 1
      /\ Encode(Tail(kw.lexeme)) = Encode(SubSeq(text, o + 2, e))
  BY DEF KeywordsSpelled, KeywordsFor
<1> DEFINE word == kw.lexeme
           n == Len(kw.lexeme) - 1
           m == e - o - 1
<1>2. /\ word \in Seq(LowerLetter) /\ n \in 0..TailWidth /\ m \in 0..TailWidth
      /\ TailWidth \in Nat /\ Len(word) = n + 1 /\ Len(text) \in Nat
  BY <1>1, KeywordsAssumption
<1>3. \A i \in 1..(n + 1) : word[i] \in LowerLetter
  BY <1>2
<1>4. ASSUME NEW i \in 1..TailWidth
      PROVE  (IF i <= n THEN word[i + 1] ELSE NUL) = (IF i <= m THEN text[o + 1 + i] ELSE NUL)
  <2>1. Len(word) > 0
    BY <1>2
  <2>2. Encode(Tail(word))[i] = IF i <= n THEN word[i + 1] ELSE NUL
    BY <1>2, <2>1, EncodedTail
  <2>3. Encode(SubSeq(text, o + 2, e))[i] = IF i <= m THEN text[o + 1 + i] ELSE NUL
    BY EncodedText
  <2> QED
    BY <1>1, <2>2, <2>3
<1> HIDE DEF word, n, m
<1>5. ~(n > m)
  <2> SUFFICES ASSUME n > m PROVE FALSE
    OBVIOUS
  <2>1. n \in 1..TailWidth /\ ~(n <= m) /\ n + 1 \in 1..(n + 1)
    BY <1>2
  <2>2. word[n + 1] = NUL
    BY <1>2, <1>4, <2>1
  <2> QED
    BY <1>3, <2>1, <2>2, Letters
<1>6. Len(word) \in 1..(e - o)
  BY <1>2, <1>5 DEF m
<1> QED
  BY <1>1, <1>6 DEF word

(* A word that ends at offset end is put as one token. *)
LEMMA PutWordInOrder ==
  ASSUME IInv, pc \in Loop, NEW end \in Nat, it <= end, end <= Len(text),
         PutWord(local.offset, local.may_be_keyword, end)
  PROVE  tokens' \in Seq(TokenType) /\ Ordered(tokens') /\ Before(tokens', end) /\ Open(tokens')
<1>1. PICK o : o = local.offset
  OBVIOUS
<1>2. /\ o \in Nat /\ o < end /\ text \in Seq(Byte) /\ o <= source_size_max
      /\ PutWord(o, local.may_be_keyword, end)
  BY <1>1, AtFrontier DEF IInv, TypeOK
<1>3. \E kind \in TokenKind \ {"end_of_file"}, length \in Nat :
        /\ tokens' = Append(tokens, Token(kind, o, length))
        /\ End(Token(kind, o, length)) \in 0..end
  <2> DEFINE spelled == IF local.may_be_keyword THEN KeywordsSpelled(o, end) ELSE {}
  <2>1. CASE \E kw \in spelled : Put(kw.kind, o, 0)
    <3>1. PICK kw \in KeywordsSpelled(o, end) : Put(kw.kind, o, 0)
      BY <2>1
    <3>2. kw \in keywords /\ Len(kw.lexeme) \in 1..(end - o)
      BY <1>2, KeywordFits
    <3>3. kw.kind \in KeywordKind /\ kw.kind \in TokenKind \ {"end_of_file"}
      BY <3>2, KeywordsAssumption DEF TokenKind, KeywordKind
    <3>4. End(Token(kw.kind, o, 0)) = o + Len(kw.lexeme)
      BY <1>2, <3>2, <3>3, KeywordEnds, LexemeOf
    <3>5. tokens' = Append(tokens, Token(kw.kind, o, 0)) /\ 0 \in Nat
      BY <3>1 DEF Put
    <3>6. End(Token(kw.kind, o, 0)) \in 0..end
      BY <1>2, <3>2, <3>4
    <3> QED
      BY <3>3, <3>5, <3>6
  <2>2. CASE Put("identifier", o, end - o)
    <3>1. end - o \in Nat /\ o + (end - o) = end
      BY <1>2
    <3>2. "identifier" \in TokenKind \ {"end_of_file"} /\ "identifier" \in VariableLengthKind
      BY DEF TokenKind, VariableLengthKind
    <3>3. End(Token("identifier", o, end - o)) = end
      BY <1>2, <3>1, <3>2, VariableEnds
    <3>4. tokens' = Append(tokens, Token("identifier", o, end - o))
      BY <2>2 DEF Put
    <3> QED
      BY <3>1, <3>2, <3>3, <3>4
  <2> QED
    BY <1>2, <2>1, <2>2 DEF PutWord
<1>4. PICK kind \in TokenKind \ {"end_of_file"}, length \in Nat :
        /\ tokens' = Append(tokens, Token(kind, local.offset, length))
        /\ End(Token(kind, local.offset, length)) \in 0..end
  BY <1>1, <1>3
<1>5. local.offset < end
  BY <1>1, <1>2
<1> QED
  BY <1>4, <1>5, PutAtFrontier

(* Every iteration of consume_word, and the token put after it, keep the invariant. *)
LEMMA WordStepPreserves ==
  ASSUME IInv, WordStep
  PROVE  IInv'
<1>1. ASSUME ConsumeIdentifierChar PROVE IInv'
  <2>1. it + 1 \in 1..Len(text)
    BY <1>1, CharClasses, PeekIsInText DEF IInv, ConsumeIdentifierChar
  <2>2. pc \in Loop /\ pc' \in Loop /\ local' = local /\ local \in LocalsType
    BY <1>1 DEF ConsumeIdentifierChar, Loop, IInv, TypeOK
  <2>3. it' \in it..Len(text)
    BY <1>1, <2>1, <2>2, AtFrontier DEF ConsumeIdentifierChar, Advance
  <2>4. LoopInv'
    BY <1>1, <2>2, <2>3, AtFrontier DEF ConsumeIdentifierChar, LoopInv, Advance
  <2> QED
    BY <1>1, <2>2, <2>3, <2>4, LoopStep DEF ConsumeIdentifierChar
<1>2. ASSUME EndWord PROVE IInv'
  <2>1. pc \in Loop /\ it' \in it..Len(text) /\ it' = it
    BY <1>2, AtFrontier DEF EndWord, Loop
  <2>2. tokens' \in Seq(TokenType) /\ Ordered(tokens') /\ Before(tokens', it) /\ Open(tokens')
    BY <1>2, <2>1, AtFrontier, PutWordInOrder DEF EndWord
  <2> QED
    BY <1>2, <2>1, <2>2, ReturnStep DEF EndWord
<1>3. ASSUME ContinueWordUtf8 PROVE IInv'
  <2>1. pc \in Loop /\ pc' \in Loop /\ local' = local /\ local \in LocalsType
    BY <1>3 DEF ContinueWordUtf8, Loop, IInv, TypeOK
  <2>2. Utf8Width(it) \in 1..(Len(text) - it)
    BY <1>3, CharClasses, Utf8WidthFits DEF IInv, ContinueWordUtf8
  <2>3. it' \in it..Len(text)
    BY <1>3, <2>1, <2>2, AtFrontier DEF ContinueWordUtf8, Advance
  <2>4. LoopInv'
    BY <1>3, <2>1, <2>3, AtFrontier DEF ContinueWordUtf8, LoopInv
  <2> QED
    BY <1>3, <2>1, <2>3, <2>4, LoopStep DEF ContinueWordUtf8
<1>4. ASSUME BreakWordUtf8 PROVE IInv'
  <2>1. pc \in Loop
    BY <1>4 DEF BreakWordUtf8, Loop
  <2>2. Utf8Width(it) \in 1..(Len(text) - it)
    BY <1>4, CharClasses, Utf8WidthFits DEF IInv, BreakWordUtf8
  <2>3. it' = it + Utf8Width(it) /\ it' \in it..Len(text) /\ it < it' /\ it' \in Nat
    BY <1>4, <2>1, <2>2, AtFrontier DEF BreakWordUtf8, Advance
  <2>4. tokens' \in Seq(TokenType) /\ Ordered(tokens') /\ Before(tokens', it') /\ Open(tokens')
    BY <1>4, <2>1, <2>3, AtFrontier, PutWordInOrder DEF BreakWordUtf8
  <2>5. Report("invalid_character", it) /\ "invalid_character" \in Message
    BY <1>4 DEF BreakWordUtf8, Message
  <2>6. it \in 0..Len(text) /\ local.offset <= it
    BY <2>1, AtFrontier
  <2> QED
    BY <1>4, <2>1, <2>3, <2>4, <2>5, <2>6, ReturnReportingStep DEF BreakWordUtf8
<1> QED
  BY <1>1, <1>2, <1>3, <1>4 DEF WordStep

(* The integer part, the fraction or the digits after a prefix are finished. *)
LEMMA FinishDigitsPreserves ==
  ASSUME IInv, pc \in {"digits", "digit_gap"}, NEW length \in Nat, local.from + length <= it,
         FinishDigits(length), UNCHANGED <<text, emit_comments, reports>>
  PROVE  IInv'
<1>1. pc \in Loop
  BY DEF Loop
<1>2. /\ local.from \in Nat /\ local.int_length \in Nat
      /\ local.offset <= local.from /\ local.from < it
  BY DEF IInv, TypeOK, LocalsType, LoopInv
<1>3. local.offset + length <= it
  BY <1>1, <1>2, AtFrontier
<1>4. ASSUME NEW kind \in TokenKind \ {"end_of_file"}, NEW n \in Nat,
             End(Token(kind, local.offset, n)) \in 0..it,
             Put(kind, local.offset, n), Return, it' = it
      PROVE  IInv'
  <2>1. tokens' \in Seq(TokenType) /\ Ordered(tokens') /\ Before(tokens', it) /\ Open(tokens')
    BY <1>1, <1>4, AtFrontier, PutAtFrontier DEF Put
  <2>2. it' \in it..Len(text)
    BY <1>1, <1>4, AtFrontier
  <2> QED
    BY <1>1, <1>4, <2>1, <2>2, ReturnStep
<1>5. {"float_literal", "dec_int_literal", "dot"} \subseteq TokenKind \ {"end_of_file"}
  BY DEF TokenKind, VariableLengthKind, NumericKind, PunctuationKind, Lexeme
<1>6. ASSUME NEW kind \in NumericKind, NEW n \in Nat
       PROVE  End(Token(kind, local.offset, n)) = local.offset + n
  <2>1. kind \in VariableLengthKind
    BY DEF VariableLengthKind
  <2> QED
    BY <1>1, <2>1, AtFrontier, VariableEnds
<1>7. ASSUME NEW o \in Nat, o <= source_size_max
       PROVE  End(Token("dot", o, 0)) = o + 1
  <2>1. "dot" \in PunctuationKind /\ Lexeme["dot"] = <<".">>
    BY DEF PunctuationKind, Lexeme
  <2>2. Len(Lexeme["dot"]) = 1
    BY <2>1
  <2> QED
    BY <1>7, <2>1, <2>2, PunctuationEnds
<1>8. {"hex_int_literal", "bin_int_literal", "oct_int_literal", "dec_int_literal", "float_literal"}
         \subseteq NumericKind
  BY DEF NumericKind
<1>9. local.offset \in Nat /\ it \in Nat /\ local.offset + length \in 0..it
  BY <1>1, <1>3, AtFrontier
<1>10. CASE /\ local.kind \in {"hex_int_literal", "bin_int_literal", "oct_int_literal"}
            /\ Put(local.kind, local.offset, length) /\ Return /\ UNCHANGED it
  <2>1. End(Token(local.kind, local.offset, length)) \in 0..it
    BY <1>10, <1>6, <1>8, <1>9
  <2> QED
    BY <1>1, <1>4, <1>10, <2>1, AtFrontier
<1>11. CASE Put("dec_int_literal", local.offset, length) /\ Return /\ UNCHANGED it
  <2>1. End(Token("dec_int_literal", local.offset, length)) \in 0..it
    BY <1>6, <1>8, <1>9
  <2> QED
    BY <1>4, <1>5, <1>11, <2>1
<1>12. CASE /\ peek = "." /\ Advance(1)
            /\ EnterDigits("float_literal", local.offset, it, length) /\ UNCHANGED tokens
  <2>1. it + 1 \in 1..Len(text)
    BY <1>12, PeekIsInText DEF IInv, NUL
  <2>2. it' = it + 1 /\ it' \in it..Len(text)
    BY <1>1, <1>12, <2>1, AtFrontier DEF Advance
  <2>3. /\ pc' = "digits"
        /\ local' = [NoLocals EXCEPT !.kind = "float_literal", !.offset = local.offset,
                                     !.from = it, !.int_length = length]
    BY <1>12 DEF EnterDigits, Enter
  <2>4. /\ local' \in LocalsType /\ local'.offset = local.offset /\ local'.from = it
        /\ local'.kind = "float_literal" /\ local'.int_length = length
    BY <1>1, <1>5, <2>3, AtFrontier, NoLocalsTyped DEF LocalsType
  <2>5. LoopInv'
    BY <1>1, <1>3, <2>2, <2>3, <2>4, AtFrontier DEF LoopInv
  <2>6. pc' \in Loop
    BY <2>3 DEF Loop
  <2> QED
    BY <1>1, <1>12, <2>2, <2>4, <2>5, <2>6, LoopStep
<1>13. CASE /\ local.kind = "float_literal"
            /\ IF length > 1
               THEN Put("float_literal", local.offset, local.from - local.offset + length)
               ELSE tokens' = tokens \o <<Token("dec_int_literal", local.offset, local.int_length),
                                          Token("dot", local.from, 0)>>
            /\ Return
            /\ UNCHANGED it
  <2>1. local.offset < local.from /\ local.offset + local.int_length <= local.from
    BY <1>13 DEF IInv, LoopInv
  <2>4. Return /\ it' = it
    BY <1>13
  <2>2. CASE Put("float_literal", local.offset, local.from - local.offset + length)
    <3>1. /\ local.from - local.offset + length \in Nat
          /\ local.offset + (local.from - local.offset + length) \in 0..it
      BY <1>1, <1>2, AtFrontier
    <3>2. End(Token("float_literal", local.offset, local.from - local.offset + length)) \in 0..it
      BY <1>6, <1>8, <3>1
    <3> QED
      BY <1>4, <1>5, <2>2, <2>4, <3>1, <3>2
  <2>3. CASE tokens' = tokens \o <<Token("dec_int_literal", local.offset, local.int_length),
                                   Token("dot", local.from, 0)>>
    <3> DEFINE one == Append(tokens, Token("dec_int_literal", local.offset, local.int_length))
    <3>1. one \in Seq(TokenType) /\ Ordered(one) /\ Before(one, local.from) /\ Open(one)
      <4>1. local.offset + local.int_length \in 0..local.from
        BY <1>2, <1>9, <2>1
      <4>2. End(Token("dec_int_literal", local.offset, local.int_length)) \in 0..local.from
        BY <1>2, <1>6, <1>8, <4>1
      <4> QED
        BY <1>1, <1>2, <1>5, <2>1, <4>2, PutAtFrontier
    <3>2. local.from <= source_size_max /\ End(Token("dot", local.from, 0)) \in 0..it
      <4>1. local.from <= source_size_max
        BY <1>1, <1>2, AtFrontier DEF IInv, SizeInv
      <4>2. End(Token("dot", local.from, 0)) = local.from + 1
        BY <1>2, <1>7, <4>1
      <4> QED
        BY <1>2, <1>9, <4>1, <4>2
    <3>3. LET two == Append(one, Token("dot", local.from, 0))
          IN  two \in Seq(TokenType) /\ Ordered(two) /\ Before(two, it) /\ Open(two)
      <4>1. local.from <= local.from /\ it \in Nat
        BY <1>1, <1>2, AtFrontier
      <4> HIDE DEF one
      <4> QED
        BY <4>1, <1>2, <1>5, <3>1, <3>2, PutToken
    <3>4. tokens' = Append(one, Token("dot", local.from, 0))
      <4>1. /\ Token("dec_int_literal", local.offset, local.int_length) \in TokenType
            /\ Token("dot", local.from, 0) \in TokenType
        BY <1>1, <1>2, <1>5, AtFrontier, TokenIsTyped
      <4> QED
        BY <1>1, <2>3, <4>1, AtFrontier
    <3>5. it' \in it..Len(text)
      BY <1>1, <2>4, AtFrontier
    <3> QED
      BY <1>1, <2>4, <3>3, <3>4, <3>5, ReturnStep
  <2> QED
    BY <1>13, <2>2, <2>3
<1>14. CASE /\ IF length > 1
               THEN Put("float_literal", local.offset, length)
               ELSE Put("dot", local.offset, 0)
            /\ Return
            /\ UNCHANGED it
  <2>1. local.offset <= source_size_max /\ local.offset < it
    BY <1>1, AtFrontier
  <2>2. End(Token("dot", local.offset, 0)) = local.offset + 1
    BY <1>7, <1>9, <2>1
  <2>3. /\ End(Token("dot", local.offset, 0)) \in 0..it
        /\ End(Token("float_literal", local.offset, length)) \in 0..it
    BY <1>6, <1>8, <1>9, <2>1, <2>2
  <2> QED
    BY <1>4, <1>5, <1>14, <2>3
<1> QED
  BY <1>10, <1>11, <1>12, <1>13, <1>14 DEF FinishDigits

(* A loop that takes one character of the text and keeps its locals. *)
LEMMA ConsumeStep ==
  ASSUME IInv, pc \in Loop, pc' = pc, local' = local, peek # NUL, Advance(1),
         UNCHANGED <<text, emit_comments, tokens, reports>>
  PROVE  IInv'
<1>1. it + 1 \in 1..Len(text)
  BY PeekIsInText DEF IInv
<1>2. it' = it + 1 /\ it' \in it..Len(text)
  BY <1>1, AtFrontier DEF Advance
<1>3. local \in LocalsType
  BY DEF IInv, TypeOK
<1>4. LoopInv'
  BY <1>2, <1>3, AtFrontier DEF IInv, LoopInv, LocalsType
<1> QED
  BY <1>2, <1>3, <1>4, LoopStep

(* Every iteration of consume_digit_sequence, and what its callers put, keep the invariant. *)
LEMMA DigitStepPreserves ==
  ASSUME IInv, DigitStep
  PROVE  IInv'
<1>1. ASSUME pc \in {"digits", "digit_gap"}
      PROVE  /\ pc \in Loop /\ local \in LocalsType /\ local.from \in Nat /\ local.length \in Nat
             /\ it \in Nat /\ local.from < it /\ it - local.from \in Nat
             /\ local.from + (it - local.from) <= it
  <2>1. pc \in Loop
    BY <1>1 DEF Loop
  <2>2. local \in LocalsType /\ local.from \in Nat /\ local.length \in Nat
    BY DEF IInv, TypeOK, LocalsType
  <2>3. local.from < it
    BY <1>1 DEF IInv, LoopInv
  <2> QED
    BY <2>1, <2>2, <2>3, AtFrontier
<1>2. \A kind : NUL \notin DigitSet(kind)
  BY CharClasses DEF DigitSet
<1>3. ASSUME ConsumeDigit PROVE IInv'
  BY <1>1, <1>2, <1>3, ConsumeStep DEF ConsumeDigit
<1>4. ASSUME OpenDigitGap PROVE IInv'
  <2>1. pc = "digits" /\ pc' = "digit_gap" /\ local' = [local EXCEPT !.length = it - local.from]
    BY <1>4 DEF OpenDigitGap, Enter
  <2>2. it + 1 \in 1..Len(text)
    BY <1>4, CharClasses, PeekIsInText DEF IInv, OpenDigitGap
  <2>3. it' = it + 1 /\ it' \in it..Len(text)
    BY <1>1, <1>4, <2>1, <2>2 DEF OpenDigitGap, Advance
  <2>4. /\ local' \in LocalsType /\ local'.offset = local.offset /\ local'.kind = local.kind
        /\ local'.from = local.from /\ local'.int_length = local.int_length
        /\ local'.length = it - local.from
    BY <1>1, <2>1 DEF LocalsType
  <2>5. LoopInv'
    BY <1>1, <2>1, <2>3, <2>4, AtFrontier DEF IInv, LoopInv
  <2> QED
    BY <1>1, <1>4, <2>1, <2>3, <2>4, <2>5, LoopStep DEF OpenDigitGap, Loop
<1>5. ASSUME EndDigits PROVE IInv'
  BY <1>1, <1>5, FinishDigitsPreserves DEF EndDigits
<1>6. ASSUME SkipDigitGap PROVE IInv'
  BY <1>1, <1>6, CharClasses, ConsumeStep DEF SkipDigitGap
<1>7. ASSUME CloseDigitGap PROVE IInv'
  <2>1. pc = "digit_gap" /\ pc' = "digits" /\ local' = local
    BY <1>7 DEF CloseDigitGap, Goto
  <2>2. it + 1 \in 1..Len(text)
    BY <1>2, <1>7, PeekIsInText DEF IInv, CloseDigitGap
  <2>3. it' = it + 1 /\ it' \in it..Len(text)
    BY <1>1, <1>7, <2>1, <2>2 DEF CloseDigitGap, Advance
  <2>4. LoopInv'
    BY <1>1, <2>1, <2>3, AtFrontier DEF IInv, LoopInv
  <2> QED
    BY <1>1, <1>7, <2>1, <2>3, <2>4, LoopStep DEF CloseDigitGap, Loop
<1>8. ASSUME EndDigitGap PROVE IInv'
  <2>1. local.from + local.length <= it
    BY <1>8 DEF EndDigitGap, IInv, LoopInv
  <2> QED
    BY <1>1, <1>8, <2>1, FinishDigitsPreserves DEF EndDigitGap
<1> QED
  BY <1>3, <1>4, <1>5, <1>6, <1>7, <1>8 DEF DigitStep

(* The comment is put, or left out, when it ends at offset end. *)
LEMMA PutCommentInOrder ==
  ASSUME IInv, pc \in {"line_comment", "block_comment"}, NEW end \in Nat, it <= end, PutComment(end)
  PROVE  tokens' \in Seq(TokenType) /\ Ordered(tokens') /\ Before(tokens', end) /\ Open(tokens')
<1> pc \in Loop
  BY DEF Loop
<1>1. /\ end - local.offset \in Nat /\ local.offset < end
      /\ local.offset + (end - local.offset) = end /\ local.offset <= end
      /\ local.offset \in Nat
  BY AtFrontier
<1>2. CASE Put(local.kind, local.offset, end - local.offset)
  <2>1. local.kind \in TokenKind \ {"end_of_file"} /\ local.kind \in VariableLengthKind
    BY AtFrontier DEF IInv, LoopInv, VariableLengthKind, CommentKind
  <2>2. End(Token(local.kind, local.offset, end - local.offset)) = end
    BY <1>1, <2>1, AtFrontier, VariableEnds
  <2>3. tokens' = Append(tokens, Token(local.kind, local.offset, end - local.offset))
    BY <1>2 DEF Put
  <2> QED
    BY <1>1, <2>1, <2>2, <2>3, PutAtFrontier
<1>3. CASE UNCHANGED tokens
  <2>1. tokens \in Seq(TokenType) /\ Ordered(tokens) /\ Before(tokens, local.offset) /\ Open(tokens)
    BY AtFrontier
  <2>2. Before(tokens, end)
    BY <1>1, <2>1, BeforeLater
  <2> QED
    BY <1>3, <2>1, <2>2
<1> QED
  BY <1>2, <1>3 DEF PutComment

(* Every iteration of the two comment loops keeps the invariant. *)
LEMMA CommentStepPreserves ==
  ASSUME IInv, CommentStep
  PROVE  IInv'
<1>1. ASSUME pc \in {"line_comment", "block_comment"}
      PROVE  pc \in Loop /\ it \in it..Len(text) /\ it \in Nat /\ Len(text) \in Nat
  <2>1. pc \in Loop
    BY <1>1 DEF Loop
  <2> QED
    BY <2>1, AtFrontier
<1>2. ASSUME ConsumeLineCommentChar PROVE IInv'
  BY <1>1, <1>2, ConsumeStep DEF ConsumeLineCommentChar
<1>3. ASSUME EndLineComment PROVE IInv'
  <2>1. tokens' \in Seq(TokenType) /\ Ordered(tokens') /\ Before(tokens', it) /\ Open(tokens')
    BY <1>1, <1>3, PutCommentInOrder DEF EndLineComment
  <2> QED
    BY <1>1, <1>3, <2>1, ReturnStep DEF EndLineComment
<1>4. ASSUME NEW chars \in {<<"/", "*">>, <<"*", "/">>}, pc = "block_comment",
             Follows(it, chars), Advance(2)
      PROVE  it' = it + 2 /\ it' \in it..Len(text) /\ it' \in Nat
  <2>1. Len(chars) = 2
    BY <1>4
  <2> QED
    BY <1>1, <1>4, <2>1 DEF Follows, Advance
<1>5. ASSUME pc = "block_comment" PROVE local \in LocalsType /\ local.unclosed_count \in Nat \ {0}
  BY <1>5 DEF IInv, TypeOK, LocalsType, LoopInv
<1>6. ASSUME NEW n \in Nat \ {0}, pc = "block_comment", pc' = pc,
             it' \in it..Len(text), local' = [local EXCEPT !.unclosed_count = n],
             UNCHANGED <<text, emit_comments, tokens, reports>>
      PROVE  IInv'
  <2>1. /\ local' \in LocalsType /\ local'.offset = local.offset /\ local'.kind = local.kind
        /\ local'.unclosed_count = n
    BY <1>5, <1>6 DEF LocalsType
  <2>2. LoopInv'
    BY <1>1, <1>6, <2>1, AtFrontier DEF IInv, LoopInv
  <2> QED
    BY <1>1, <1>6, <2>1, <2>2, LoopStep
<1>7. ASSUME NestBlockComment PROVE IInv'
  <2>1. local.unclosed_count + 1 \in Nat \ {0} /\ pc = "block_comment"
    BY <1>5, <1>7 DEF NestBlockComment
  <2>2. it' \in it..Len(text)
    BY <1>4, <1>7 DEF NestBlockComment
  <2> QED
    BY <1>6, <1>7, <2>1, <2>2 DEF NestBlockComment
<1>8. ASSUME CloseBlockComment PROVE IInv'
  <2>1. it' = it + 2 /\ it' \in it..Len(text) /\ it' \in Nat /\ pc = "block_comment"
    BY <1>4, <1>8 DEF CloseBlockComment
  <2>2. CASE local.unclosed_count = 1
    <3>1. tokens' \in Seq(TokenType) /\ Ordered(tokens') /\ Before(tokens', it') /\ Open(tokens')
      BY <1>1, <1>8, <2>1, <2>2, PutCommentInOrder DEF CloseBlockComment
    <3> QED
      BY <1>1, <1>8, <2>1, <2>2, <3>1, ReturnStep DEF CloseBlockComment
  <2>3. CASE local.unclosed_count # 1
    <3>1. local.unclosed_count - 1 \in Nat \ {0}
      BY <1>5, <2>1, <2>3
    <3> QED
      BY <1>6, <1>8, <2>1, <2>3, <3>1 DEF CloseBlockComment
  <2> QED
    BY <2>2, <2>3
<1>9. ASSUME ConsumeBlockCommentChar PROVE IInv'
  <2>1. it' = it + 1 /\ it' \in it..Len(text)
    BY <1>1, <1>9 DEF ConsumeBlockCommentChar, valid, Advance
  <2>2. LoopInv'
    BY <1>1, <1>5, <1>9, <2>1, AtFrontier DEF ConsumeBlockCommentChar, IInv, LoopInv
  <2> QED
    BY <1>1, <1>5, <1>9, <2>1, <2>2, LoopStep DEF ConsumeBlockCommentChar
<1>10. ASSUME AbandonBlockComment PROVE IInv'
  <2>1. tokens' \in Seq(TokenType) /\ Ordered(tokens') /\ Before(tokens', it) /\ Open(tokens')
    BY <1>1, <1>10, PutCommentInOrder DEF AbandonBlockComment
  <2>2. /\ "unterminated_block_comment" \in Message
        /\ local.offset \in 0..Len(text) /\ local.offset <= local.offset /\ local.offset < it
    BY <1>1, <1>10, AtFrontier DEF AbandonBlockComment, Message
  <2>3. it' = it /\ Return /\ Report("unterminated_block_comment", local.offset) /\ pc \in Loop
        /\ UNCHANGED <<text, emit_comments>>
    BY <1>1, <1>10 DEF AbandonBlockComment
  <2>4. it' \in it..Len(text) /\ local.offset < it' /\ Before(tokens', it')
    BY <1>1, <1>10, <2>1, <2>2, <2>3 DEF AbandonBlockComment
  <2> QED
    BY <2>1, <2>2, <2>3, <2>4, ReturnReportingStep
<1> QED
  BY <1>2, <1>3, <1>7, <1>8, <1>9, <1>10 DEF CommentStep

(* Every iteration of the loop of on_quote keeps the invariant. *)
LEMMA QuoteStepPreserves ==
  ASSUME IInv, QuoteStep
  PROVE  IInv'
<1>1. ASSUME pc = "quote"
      PROVE  /\ pc \in Loop /\ it \in it..Len(text) /\ it \in Nat /\ local \in LocalsType
             /\ local.kind \in TokenKind \ {"end_of_file"} /\ local.offset \in Nat
             /\ local.offset < it
  <2>1. pc \in Loop /\ local \in LocalsType
    BY <1>1 DEF Loop, IInv, TypeOK
  <2> QED
    BY <2>1, AtFrontier
<1>2. ASSUME pc = "quote"
      PROVE  /\ local.kind \in QuotedKind
             /\ \A n \in Nat : End(Token(local.kind, local.offset, n)) = local.offset + n
  <2>1. pc \in Loop
    BY <1>2 DEF Loop
  <2>2. local.kind \in QuotedKind /\ local.kind \in VariableLengthKind
    BY <1>2, <2>1 DEF IInv, LoopInv, VariableLengthKind
  <2>3. \A n \in Nat : End(Token(local.kind, local.offset, n)) = local.offset + n
    BY <2>1, <2>2, AtFrontier, VariableEnds
  <2> QED
    BY <2>2, <2>3
<1>3. ASSUME ConsumeQuotedChar PROVE IInv'
  <2>1. pc = "quote" /\ pc' = "quote" /\ peek # NUL
    BY <1>3 DEF ConsumeQuotedChar
  <2>2. it + 1 \in 1..Len(text)
    BY <2>1, PeekIsInText DEF IInv
  <2>3. it' = it + 1 /\ it' \in it..Len(text)
    BY <1>1, <1>3, <2>1, <2>2 DEF ConsumeQuotedChar, Advance
  <2>4. local' \in LocalsType /\ local'.offset = local.offset /\ local'.kind = local.kind
    <3>1. (peek = "\\" /\ ~local.ignore_quote) \in BOOLEAN
      OBVIOUS
    <3> QED
      BY <1>1, <1>3, <2>1, <3>1 DEF ConsumeQuotedChar, LocalsType
  <2>5. LoopInv'
    BY <1>1, <1>2, <2>1, <2>3, <2>4 DEF LoopInv
  <2> QED
    BY <1>1, <1>3, <2>1, <2>3, <2>4, <2>5, LoopStep DEF ConsumeQuotedChar
<1>4. ASSUME CloseQuote PROVE IInv'
  <2>1. pc = "quote" /\ peek # NUL
    BY <1>4 DEF CloseQuote, Closes, QuoteKind, NUL
  <2>2. it + 1 \in 1..Len(text)
    BY <2>1, PeekIsInText DEF IInv
  <2>3. it' = it + 1 /\ it' \in it..Len(text) /\ it' \in Nat
    BY <1>1, <1>4, <2>1, <2>2 DEF CloseQuote, Advance
  <2>4. /\ it + 1 - local.offset \in Nat /\ local.offset < it'
        /\ End(Token(local.kind, local.offset, it + 1 - local.offset)) \in 0..it'
    <3>1. PICK n : n = it + 1 - local.offset
      OBVIOUS
    <3>2. n \in Nat /\ local.offset < it' /\ local.offset + n \in 0..it'
      BY <1>1, <2>1, <2>3, <3>1
    <3>3. End(Token(local.kind, local.offset, n)) \in 0..it'
      BY <1>2, <2>1, <3>2
    <3> QED
      BY <3>1, <3>2, <3>3
  <2>5. tokens' \in Seq(TokenType) /\ Ordered(tokens') /\ Before(tokens', it') /\ Open(tokens')
    BY <1>1, <1>4, <2>1, <2>3, <2>4, PutAtFrontier DEF CloseQuote, Put
  <2> QED
    BY <1>1, <1>4, <2>1, <2>3, <2>5, ReturnStep DEF CloseQuote
<1>5. ASSUME AbandonQuote PROVE IInv'
  <2>1. pc = "quote" /\ it' = it /\ Return /\ UNCHANGED <<text, emit_comments>>
    BY <1>5 DEF AbandonQuote
  <2>2. /\ it - local.offset \in Nat /\ local.offset < it
        /\ End(Token(local.kind, local.offset, it - local.offset)) \in 0..it
    BY <1>1, <1>2, <2>1
  <2>3. tokens' \in Seq(TokenType) /\ Ordered(tokens') /\ Before(tokens', it') /\ Open(tokens')
    BY <1>1, <1>5, <2>1, <2>2, PutAtFrontier DEF AbandonQuote, Put
  <2>4. CASE peek = "\n"
    <3>1. Report("missing_closing_quote", it) /\ "missing_closing_quote" \in Message
      BY <1>5, <2>4 DEF AbandonQuote, Message
    <3>2. it \in 0..Len(text) /\ local.offset <= it /\ it' \in it..Len(text) /\ pc \in Loop
      BY <1>1, <2>1, <2>2, TextLength DEF IInv
    <3>3. it = it' /\ peek' = "\n"
      BY <2>1, <2>4 DEF peek, ByteAt
    <3> QED
      BY <2>1, <2>3, <3>1, <3>2, <3>3, ReturnReportingStep
  <2>5. CASE peek # "\n"
    BY <1>1, <1>5, <2>1, <2>3, <2>5, ReturnStep DEF AbandonQuote
  <2> QED
    BY <2>4, <2>5
<1> QED
  BY <1>3, <1>4, <1>5 DEF QuoteStep

-----------------------------------------------------------------------------
(* The alternatives of the operator handlers put tokens of a known kind and take characters. *)
LEMMA AlternativesTyped ==
  ASSUME NEW i \in DOMAIN Alternatives
  PROVE  /\ Alternatives[i].kind \in TokenKind \ {"end_of_file"}
         /\ Alternatives[i].kind \in PunctuationKind \cup CommentKind
         /\ Alternatives[i].chars \in Seq(Punctuation)
         /\ Len(Alternatives[i].chars) \in Nat \ {0}
<1> DEFINE kinds == PunctuationKind \cup CommentKind
           alternatives == [chars : Seq(Punctuation) \ {<<>>}, kind : kinds]
<1>1. Alternatives \in Seq(alternatives)
  BY DEF Alternatives, Alternative, Punctuation, PunctuationKind, Lexeme, CommentKind
<1>2. Alternatives[i] \in alternatives
  <2> HIDE DEF alternatives
  <2>1. i \in 1..Len(Alternatives)
    BY <1>1
  <2> QED
    BY <1>1, <2>1
<1>3. kinds \subseteq TokenKind \ {"end_of_file"}
  BY DEF TokenKind, VariableLengthKind, PunctuationKind, CommentKind, Lexeme
<1> QED
  BY <1>2, <1>3

(* Put, for a token of the dispatch loop that starts at the cursor and ends at offset e. *)
LEMMA PutAtCursor ==
  ASSUME IInv, pc = "source", NEW kind \in TokenKind \ {"end_of_file"},
         NEW e \in Nat, it < e, End(Token(kind, it, 0)) \in 0..e
  PROVE  LET new == Append(tokens, Token(kind, it, 0))
         IN  new \in Seq(TokenType) /\ Ordered(new) /\ Before(new, e) /\ Open(new)
<1>1. /\ tokens \in Seq(TokenType) /\ it \in Nat /\ it <= source_size_max /\ it <= it
      /\ Ordered(tokens) /\ Before(tokens, it) /\ Open(tokens) /\ 0 \in Nat
  BY AtSource
<1> QED
  BY <1>1, PutToken

(* The dispatch loop moves on without a report. *)
LEMMA DispatchOnStep ==
  ASSUME IInv, pc = "source", UNCHANGED <<text, emit_comments, reports, pc, local>>,
         it' \in (it + 1)..Len(text),
         tokens' \in Seq(TokenType), Ordered(tokens'), Before(tokens', it'), Open(tokens')
  PROVE  IInv'
<1>1. reports' \in Seq(ReportType) /\ ReportsInOrder'
  BY AtSource DEF ReportsInOrder
<1>2. \A i \in 1..Len(reports') : reports'[i].offset < it'
  <2> SUFFICES ASSUME NEW i \in 1..Len(reports)
               PROVE  reports[i].offset < it'
    OBVIOUS
  <2>1. reports[i] \in ReportType
    BY AtSource
  <2>2. reports[i].offset \in Int /\ it \in Int /\ it' \in Int
    BY <2>1, AtSource DEF ReportType
  <2>3. reports[i].offset <= it
    BY AtSource
  <2> QED
    BY <2>2, <2>3
<1>3. local' \in LocalsType /\ it' \in it..Len(text)
  BY AtSource DEF IInv, TypeOK
<1> QED
  BY <1>1, <1>2, <1>3, SourceStep

(* Alternative i is the punctuation of kind k. *)
Spells(i, k) == Alternatives[i].chars = Lexeme[k] /\ Alternatives[i].kind = k

(* Every kind of punctuation but the dot is in the table; >> and the comments are in addition. *)
LEMMA SpellingTable ==
  /\ DOMAIN Alternatives = 1..49
  /\ \A k \in PunctuationKind \ {"dot"} : \E i \in 1..49 : Spells(i, k)
  /\ \A i \in (1..49) \ {15, 32, 33} : \E k \in PunctuationKind : Spells(i, k)
  /\ Alternatives[15].chars = <<">", ">">> /\ Alternatives[15].kind = "r_angle"
  /\ Alternatives[32].chars = <<"/", "/">> /\ Alternatives[32].kind = "line_comment"
  /\ Alternatives[33].chars = <<"/", "*">> /\ Alternatives[33].kind = "block_comment"
<1>1. /\ Spells(1, "l_paren") /\ Spells(2, "r_paren") /\ Spells(3, "l_bracket")
      /\ Spells(4, "r_bracket") /\ Spells(5, "l_brace") /\ Spells(6, "r_brace")
      /\ Spells(7, "comma") /\ Spells(8, "semicolon") /\ Spells(9, "caret")
  BY DEF Spells, Alternatives, Alternative, Lexeme
<1>2. /\ Spells(10, "l_angle_angle_eq") /\ Spells(11, "l_angle_angle") /\ Spells(12, "l_angle_eq")
      /\ Spells(13, "l_angle") /\ Spells(14, "r_angle_angle_eq") /\ Spells(16, "r_angle_eq")
      /\ Spells(17, "r_angle") /\ Spells(18, "colon_colon") /\ Spells(19, "colon")
  BY DEF Spells, Alternatives, Alternative, Lexeme
<1>3. /\ Spells(20, "eq_eq") /\ Spells(21, "thick_arrow") /\ Spells(22, "eq")
      /\ Spells(23, "plus_plus") /\ Spells(24, "plus_eq") /\ Spells(25, "plus")
      /\ Spells(26, "thin_arrow") /\ Spells(27, "minus_minus") /\ Spells(28, "minus_eq")
      /\ Spells(29, "minus")
  BY DEF Spells, Alternatives, Alternative, Lexeme
<1>4. /\ Spells(30, "star_eq") /\ Spells(31, "star") /\ Spells(34, "slash_eq")
      /\ Spells(35, "slash") /\ Spells(36, "percent_eq") /\ Spells(37, "percent")
      /\ Spells(38, "and_and_eq") /\ Spells(39, "and_and")
  BY DEF Spells, Alternatives, Alternative, Lexeme
<1>5. /\ Spells(40, "ampersand_eq") /\ Spells(41, "ampersand") /\ Spells(42, "pipe_pipe_eq")
      /\ Spells(43, "pipe_pipe") /\ Spells(44, "pipe_eq") /\ Spells(45, "pipe")
      /\ Spells(46, "tilde_eq") /\ Spells(47, "tilde") /\ Spells(48, "bang_eq")
      /\ Spells(49, "bang")
  BY DEF Spells, Alternatives, Alternative, Lexeme
<1>6. LET kinds == {"l_paren", "r_paren", "l_bracket", "r_bracket", "l_brace", "r_brace",
                    "comma", "semicolon", "caret"}
      IN  /\ kinds \subseteq PunctuationKind
          /\ \A k \in kinds : \E i \in 1..9 : Spells(i, k)
          /\ \A i \in 1..9 : \E k \in kinds : Spells(i, k)
  <2> DEFINE kinds == {"l_paren", "r_paren", "l_bracket", "r_bracket", "l_brace", "r_brace",
                     "comma", "semicolon", "caret"}
  <2>1. kinds \subseteq PunctuationKind
    BY DEF PunctuationKind, Lexeme
  <2>2. \A k \in kinds : \E i \in 1..9 : Spells(i, k)
    BY <1>1
  <2>3. \A i \in 1..9 : \E k \in kinds : Spells(i, k)
    BY <1>1
  <2> QED
    BY <2>1, <2>2, <2>3
<1>7. LET kinds == {"l_angle_angle_eq", "l_angle_angle", "l_angle_eq", "l_angle",
                    "r_angle_angle_eq", "r_angle_eq", "r_angle", "colon_colon", "colon"}
      IN  /\ kinds \subseteq PunctuationKind
          /\ \A k \in kinds : \E i \in 10..19 : Spells(i, k)
          /\ \A i \in (10..19) \ {15} : \E k \in kinds : Spells(i, k)
  <2> DEFINE kinds == {"l_angle_angle_eq", "l_angle_angle", "l_angle_eq", "l_angle",
                     "r_angle_angle_eq", "r_angle_eq", "r_angle", "colon_colon", "colon"}
  <2>1. kinds \subseteq PunctuationKind
    BY DEF PunctuationKind, Lexeme
  <2>2. \A k \in kinds : \E i \in 10..19 : Spells(i, k)
    BY <1>2
  <2>3. \A i \in (10..19) \ {15} : \E k \in kinds : Spells(i, k)
    BY <1>2
  <2> QED
    BY <2>1, <2>2, <2>3
<1>8. LET kinds == {"eq_eq", "thick_arrow", "eq", "plus_plus", "plus_eq", "plus", "thin_arrow",
                    "minus_minus", "minus_eq", "minus"}
      IN  /\ kinds \subseteq PunctuationKind
          /\ \A k \in kinds : \E i \in 20..29 : Spells(i, k)
          /\ \A i \in 20..29 : \E k \in kinds : Spells(i, k)
  <2> DEFINE kinds == {"eq_eq", "thick_arrow", "eq", "plus_plus", "plus_eq", "plus", "thin_arrow",
                     "minus_minus", "minus_eq", "minus"}
  <2>1. kinds \subseteq PunctuationKind
    BY DEF PunctuationKind, Lexeme
  <2>2. \A k \in kinds : \E i \in 20..29 : Spells(i, k)
    BY <1>3
  <2>3. \A i \in 20..29 : \E k \in kinds : Spells(i, k)
    BY <1>3
  <2> QED
    BY <2>1, <2>2, <2>3
<1>9. LET kinds == {"star_eq", "star", "slash_eq", "slash", "percent_eq", "percent",
                    "and_and_eq", "and_and"}
      IN  /\ kinds \subseteq PunctuationKind
          /\ \A k \in kinds : \E i \in 30..39 : Spells(i, k)
          /\ \A i \in (30..39) \ {32, 33} : \E k \in kinds : Spells(i, k)
  <2> DEFINE kinds == {"star_eq", "star", "slash_eq", "slash", "percent_eq", "percent",
                     "and_and_eq", "and_and"}
  <2>1. kinds \subseteq PunctuationKind
    BY DEF PunctuationKind, Lexeme
  <2>2. \A k \in kinds : \E i \in 30..39 : Spells(i, k)
    BY <1>4
  <2>3. \A i \in (30..39) \ {32, 33} : \E k \in kinds : Spells(i, k)
    BY <1>4
  <2> QED
    BY <2>1, <2>2, <2>3
<1>10. LET kinds == {"ampersand_eq", "ampersand", "pipe_pipe_eq", "pipe_pipe", "pipe_eq", "pipe",
                     "tilde_eq", "tilde", "bang_eq", "bang"}
      IN  /\ kinds \subseteq PunctuationKind
          /\ \A k \in kinds : \E i \in 40..49 : Spells(i, k)
          /\ \A i \in 40..49 : \E k \in kinds : Spells(i, k)
  <2> DEFINE kinds == {"ampersand_eq", "ampersand", "pipe_pipe_eq", "pipe_pipe", "pipe_eq", "pipe",
                     "tilde_eq", "tilde", "bang_eq", "bang"}
  <2>1. kinds \subseteq PunctuationKind
    BY DEF PunctuationKind, Lexeme
  <2>2. \A k \in kinds : \E i \in 40..49 : Spells(i, k)
    BY <1>5
  <2>3. \A i \in 40..49 : \E k \in kinds : Spells(i, k)
    BY <1>5
  <2> QED
    BY <2>1, <2>2, <2>3
<1>11. PunctuationKind \subseteq {"dot"}
        \cup {"l_paren", "r_paren", "l_bracket", "r_bracket", "l_brace", "r_brace", "comma",
              "semicolon", "caret"}
        \cup {"l_angle_angle_eq", "l_angle_angle", "l_angle_eq", "l_angle", "r_angle_angle_eq",
              "r_angle_eq", "r_angle", "colon_colon", "colon"}
        \cup {"eq_eq", "thick_arrow", "eq", "plus_plus", "plus_eq", "plus", "thin_arrow",
              "minus_minus", "minus_eq", "minus"}
        \cup {"star_eq", "star", "slash_eq", "slash", "percent_eq", "percent", "and_and_eq",
              "and_and"}
        \cup {"ampersand_eq", "ampersand", "pipe_pipe_eq", "pipe_pipe", "pipe_eq", "pipe",
              "tilde_eq", "tilde", "bang_eq", "bang"}
  BY DEF PunctuationKind, Lexeme
<1>12. /\ DOMAIN Alternatives = 1..49
       /\ Alternatives[15].chars = <<">", ">">> /\ Alternatives[15].kind = "r_angle"
       /\ Alternatives[32].chars = <<"/", "/">> /\ Alternatives[32].kind = "line_comment"
       /\ Alternatives[33].chars = <<"/", "*">> /\ Alternatives[33].kind = "block_comment"
  BY DEF Alternatives, Alternative
<1>13. \A k \in PunctuationKind \ {"dot"} : \E i \in 1..49 : Spells(i, k)
  BY <1>6, <1>7, <1>8, <1>9, <1>10, <1>11
<1>14. \A i \in (1..49) \ {15, 32, 33} : \E k \in PunctuationKind : Spells(i, k)
  <2>1. \A i \in 1..49 : \/ i \in 1..9 \/ i \in 10..19 \/ i \in 20..29 \/ i \in 30..39 \/ i \in 40..49
    OBVIOUS
  <2> QED
    BY <2>1, <1>6, <1>7, <1>8, <1>9, <1>10
<1> QED
  BY <1>12, <1>13, <1>14

(***************************************************************************)
(* The handlers of a first character c try three characters before two     *)
(* and two before one: the last alternatives of Alternatives that begin    *)
(* with c and have three characters, or two or more.                       *)
(***************************************************************************)
LastOfThree(c) ==
  CASE c = "<" -> 10 [] c = ">" -> 14 [] c = "&" -> 38 [] c = "|" -> 42 [] OTHER -> 0

LastOfTwo(c) ==
  CASE c = "<" -> 12 [] c = ">" -> 16 [] c = ":" -> 18 [] c = "=" -> 21 [] c = "+" -> 24
    [] c = "-" -> 28 [] c = "*" -> 30 [] c = "/" -> 34 [] c = "%" -> 36 [] c = "&" -> 40
    [] c = "|" -> 44 [] c = "~" -> 46 [] c = "!" -> 48 [] OTHER -> 0

(* Alternative i stands where the length of its characters says. *)
InPlace(i) ==
  LET chars == Alternatives[i].chars
  IN  /\ Len(chars) \in 1..3
      /\ Len(chars) = 3 <=> i <= LastOfThree(chars[1])
      /\ Len(chars) >= 2 <=> i <= LastOfTwo(chars[1])
      /\ chars[1] # "."

(* Alternative i begins with c and has n characters. *)
Shape(i, c, n) == Alternatives[i].chars[1] = c /\ Len(Alternatives[i].chars) = n

(* What the table says of itself, alternative by alternative. *)
LEMMA AllInPlace ==
  ASSUME NEW i \in DOMAIN Alternatives
  PROVE  InPlace(i) /\ i \in 1..49
<1>1. /\ Shape(1, "(", 1) /\ Shape(2, ")", 1) /\ Shape(3, "[", 1) /\ Shape(4, "]", 1)
      /\ Shape(5, "{", 1) /\ Shape(6, "}", 1) /\ Shape(7, ",", 1) /\ Shape(8, ";", 1)
      /\ Shape(9, "^", 1)
  BY DEF Shape, Alternatives, Alternative
<1>2. /\ Shape(10, "<", 3) /\ Shape(11, "<", 2) /\ Shape(12, "<", 2) /\ Shape(13, "<", 1)
      /\ Shape(14, ">", 3) /\ Shape(15, ">", 2) /\ Shape(16, ">", 2) /\ Shape(17, ">", 1)
      /\ Shape(18, ":", 2) /\ Shape(19, ":", 1)
  BY DEF Shape, Alternatives, Alternative
<1>3. /\ Shape(20, "=", 2) /\ Shape(21, "=", 2) /\ Shape(22, "=", 1) /\ Shape(23, "+", 2)
      /\ Shape(24, "+", 2) /\ Shape(25, "+", 1) /\ Shape(26, "-", 2) /\ Shape(27, "-", 2)
      /\ Shape(28, "-", 2) /\ Shape(29, "-", 1)
  BY DEF Shape, Alternatives, Alternative
<1>4. /\ Shape(30, "*", 2) /\ Shape(31, "*", 1) /\ Shape(32, "/", 2) /\ Shape(33, "/", 2)
      /\ Shape(34, "/", 2) /\ Shape(35, "/", 1) /\ Shape(36, "%", 2) /\ Shape(37, "%", 1)
      /\ Shape(38, "&", 3) /\ Shape(39, "&", 2)
  BY DEF Shape, Alternatives, Alternative
<1>5. /\ Shape(40, "&", 2) /\ Shape(41, "&", 1) /\ Shape(42, "|", 3) /\ Shape(43, "|", 2)
      /\ Shape(44, "|", 2) /\ Shape(45, "|", 1) /\ Shape(46, "~", 2) /\ Shape(47, "~", 1)
      /\ Shape(48, "!", 2) /\ Shape(49, "!", 1)
  BY DEF Shape, Alternatives, Alternative
<1>6. ASSUME NEW j \in 1..49, NEW c, NEW n \in 1..3, Shape(j, c, n), c # ".",
             n = 3 <=> j <= LastOfThree(c), n >= 2 <=> j <= LastOfTwo(c)
      PROVE  InPlace(j)
  BY <1>6 DEF Shape, InPlace
<1>7. \A j \in 1..9 : InPlace(j)
  <2>1. ASSUME NEW j \in 1..9, NEW c, Shape(j, c, 1), LastOfThree(c) = 0, LastOfTwo(c) = 0, c # "."
        PROVE  InPlace(j)
    BY <1>6, <2>1
  <2>2. \A c \in {"(", ")", "[", "]", "{", "}", ",", ";", "^"} :
          LastOfThree(c) = 0 /\ LastOfTwo(c) = 0 /\ c # "."
    BY DEF LastOfThree, LastOfTwo
  <2>3. /\ 1 \in 1..9 /\ 2 \in 1..9 /\ 3 \in 1..9 /\ 4 \in 1..9 /\ 5 \in 1..9
        /\ 6 \in 1..9 /\ 7 \in 1..9 /\ 8 \in 1..9 /\ 9 \in 1..9
    OBVIOUS
  <2>4. /\ InPlace(1) /\ InPlace(2) /\ InPlace(3) /\ InPlace(4) /\ InPlace(5)
        /\ InPlace(6) /\ InPlace(7) /\ InPlace(8) /\ InPlace(9)
    BY <1>1, <2>1, <2>2, <2>3, Zenon
  <2> QED
    BY <2>4
<1>8. \A j \in 10..13 : InPlace(j)
  <2>1. LastOfThree("<") = 10 /\ LastOfTwo("<") = 12 /\ "<" # "."
    BY DEF LastOfThree, LastOfTwo
  <2>2. InPlace(10) /\ InPlace(11) /\ InPlace(12) /\ InPlace(13)
    BY <1>2, <1>6, <2>1, SMTT(40)
  <2> QED
    BY <2>2
<1>9. \A j \in 14..17 : InPlace(j)
  <2>1. LastOfThree(">") = 14 /\ LastOfTwo(">") = 16 /\ ">" # "."
    BY DEF LastOfThree, LastOfTwo
  <2>2. InPlace(14) /\ InPlace(15) /\ InPlace(16) /\ InPlace(17)
    BY <1>2, <1>6, <2>1, SMTT(40)
  <2> QED
    BY <2>2
<1>10. \A j \in 18..19 : InPlace(j)
  <2>1. LastOfThree(":") = 0 /\ LastOfTwo(":") = 18 /\ ":" # "."
    BY DEF LastOfThree, LastOfTwo
  <2>2. InPlace(18) /\ InPlace(19)
    BY <1>2, <1>6, <2>1, SMTT(40)
  <2> QED
    BY <2>2
<1>11. \A j \in 20..22 : InPlace(j)
  <2>1. LastOfThree("=") = 0 /\ LastOfTwo("=") = 21 /\ "=" # "."
    BY DEF LastOfThree, LastOfTwo
  <2>2. InPlace(20) /\ InPlace(21) /\ InPlace(22)
    BY <1>3, <1>6, <2>1, SMTT(40)
  <2> QED
    BY <2>2
<1>12. \A j \in 23..25 : InPlace(j)
  <2>1. LastOfThree("+") = 0 /\ LastOfTwo("+") = 24 /\ "+" # "."
    BY DEF LastOfThree, LastOfTwo
  <2>2. InPlace(23) /\ InPlace(24) /\ InPlace(25)
    BY <1>3, <1>6, <2>1, SMTT(40)
  <2> QED
    BY <2>2
<1>13. \A j \in 26..29 : InPlace(j)
  <2>1. LastOfThree("-") = 0 /\ LastOfTwo("-") = 28 /\ "-" # "."
    BY DEF LastOfThree, LastOfTwo
  <2>2. InPlace(26) /\ InPlace(27) /\ InPlace(28) /\ InPlace(29)
    BY <1>3, <1>6, <2>1, SMTT(40)
  <2> QED
    BY <2>2
<1>14. \A j \in 30..31 : InPlace(j)
  <2>1. LastOfThree("*") = 0 /\ LastOfTwo("*") = 30 /\ "*" # "."
    BY DEF LastOfThree, LastOfTwo
  <2>2. InPlace(30) /\ InPlace(31)
    BY <1>4, <1>6, <2>1, SMTT(40)
  <2> QED
    BY <2>2
<1>15. \A j \in 32..35 : InPlace(j)
  <2>1. LastOfThree("/") = 0 /\ LastOfTwo("/") = 34 /\ "/" # "."
    BY DEF LastOfThree, LastOfTwo
  <2>2. InPlace(32) /\ InPlace(33) /\ InPlace(34) /\ InPlace(35)
    BY <1>4, <1>6, <2>1, SMTT(40)
  <2> QED
    BY <2>2
<1>16. \A j \in 36..37 : InPlace(j)
  <2>1. LastOfThree("%") = 0 /\ LastOfTwo("%") = 36 /\ "%" # "."
    BY DEF LastOfThree, LastOfTwo
  <2>2. InPlace(36) /\ InPlace(37)
    BY <1>4, <1>6, <2>1, SMTT(40)
  <2> QED
    BY <2>2
<1>17. \A j \in 38..41 : InPlace(j)
  <2>1. LastOfThree("&") = 38 /\ LastOfTwo("&") = 40 /\ "&" # "."
    BY DEF LastOfThree, LastOfTwo
  <2>2. InPlace(38) /\ InPlace(39) /\ InPlace(40) /\ InPlace(41)
    BY <1>4, <1>5, <1>6, <2>1, SMTT(40)
  <2> QED
    BY <2>2
<1>18. \A j \in 42..45 : InPlace(j)
  <2>1. LastOfThree("|") = 42 /\ LastOfTwo("|") = 44 /\ "|" # "."
    BY DEF LastOfThree, LastOfTwo
  <2>2. InPlace(42) /\ InPlace(43) /\ InPlace(44) /\ InPlace(45)
    BY <1>5, <1>6, <2>1, SMTT(40)
  <2> QED
    BY <2>2
<1>19. \A j \in 46..47 : InPlace(j)
  <2>1. LastOfThree("~") = 0 /\ LastOfTwo("~") = 46 /\ "~" # "."
    BY DEF LastOfThree, LastOfTwo
  <2>2. InPlace(46) /\ InPlace(47)
    BY <1>5, <1>6, <2>1, SMTT(40)
  <2> QED
    BY <2>2
<1>20. \A j \in 48..49 : InPlace(j)
  <2>1. LastOfThree("!") = 0 /\ LastOfTwo("!") = 48 /\ "!" # "."
    BY DEF LastOfThree, LastOfTwo
  <2>2. InPlace(48) /\ InPlace(49)
    BY <1>5, <1>6, <2>1, SMTT(40)
  <2> QED
    BY <2>2
<1>21. DOMAIN Alternatives = 1..49
  BY DEF Alternatives, Alternative
<1>22. \A j \in 1..49 : j \in 1..9 \/ j \in 10..13 \/ j \in 14..17 \/ j \in 18..19 \/ j \in 20..22
                        \/ j \in 23..25 \/ j \in 26..29 \/ j \in 30..31 \/ j \in 32..35 \/ j \in 36..37
                        \/ j \in 38..41 \/ j \in 42..45 \/ j \in 46..47 \/ j \in 48..49
  OBVIOUS
<1> QED
  BY <1>7, <1>8, <1>9, <1>10, <1>11, <1>12, <1>13, <1>14,
     <1>15, <1>16, <1>17, <1>18, <1>19, <1>20, <1>21, <1>22

(* The characters of >> are an alternative of their own, no other one has them. *)
LEMMA OnlyShift ==
  ASSUME NEW i \in DOMAIN Alternatives, Alternatives[i].chars = <<">", ">">>
  PROVE  i = 15
<1>1. InPlace(i) /\ i \in 1..49
  BY AllInPlace
<1>2. Len(Alternatives[i].chars) = 2 /\ Alternatives[i].chars[1] = ">" /\ Alternatives[i].chars[2] = ">"
  OBVIOUS
<1>3. i <= LastOfTwo(">") /\ ~(i <= LastOfThree(">"))
  BY <1>1, <1>2 DEF InPlace
<1>4. LastOfTwo(">") = 16 /\ LastOfThree(">") = 14
  BY DEF LastOfTwo, LastOfThree
<1>5. Alternatives[16].chars[2] = "="
  BY DEF Alternatives, Alternative
<1> QED
  BY <1>1, <1>2, <1>3, <1>4, <1>5

(* What an alternative puts ends where its characters do, or, for >>, one byte before that. *)
LEMMA AlternativeEnds ==
  ASSUME NEW i \in DOMAIN Alternatives, Alternatives[i].kind \notin CommentKind,
         NEW offset \in Nat, offset <= source_size_max
  PROVE  /\ i # 15 => End(Token(Alternatives[i].kind, offset, 0)) = offset + Len(Alternatives[i].chars)
         /\ i = 15 => End(Token(Alternatives[i].kind, offset, 0)) = offset + 1
<1>1. i \in 1..49 /\ i # 32 /\ i # 33
  BY SpellingTable DEF CommentKind
<1>2. CASE i = 15
  <2>1. Alternatives[i].kind = "r_angle" /\ Alternatives[i].chars = <<">", ">">>
    BY <1>2, SpellingTable
  <2>2. "r_angle" \in PunctuationKind /\ Lexeme["r_angle"] = <<">">>
    BY DEF PunctuationKind, Lexeme
  <2>3. Len(Lexeme["r_angle"]) = 1
    BY <2>2
  <2>4. End(Token("r_angle", offset, 0)) = offset + 1
    BY <2>2, <2>3, PunctuationEnds
  <2> QED
    BY <1>2, <2>1, <2>4
<1>3. CASE i # 15
  <2>1. PICK k \in PunctuationKind : Spells(i, k)
    BY <1>1, <1>3, SpellingTable
  <2>2. Alternatives[i].kind = k /\ Alternatives[i].chars = Lexeme[k] /\ 0 \in Nat
    BY <2>1 DEF Spells
  <2>3. End(Token(k, offset, 0)) = offset + Len(Lexeme[k])
    BY <2>2, PunctuationEnds
  <2> QED
    BY <1>3, <2>2, <2>3
<1> QED
  BY <1>2, <1>3

(* The operator handlers keep the invariant. *)
LEMMA OperatorPreserves ==
  ASSUME IInv, on_operator
  PROVE  IInv'
<1>1. PICK i \in DOMAIN Alternatives :
        /\ Matched(i)
        /\ Advance(Len(Alternatives[i].chars))
        /\ Act(Alternatives[i].chars, Alternatives[i].kind)
  BY DEF on_operator
<1> DEFINE chars == Alternatives[i].chars
           kind == Alternatives[i].kind
<1>2. /\ kind \in TokenKind \ {"end_of_file"} /\ chars \in Seq(Punctuation)
      /\ Len(chars) \in Nat \ {0}
  BY AlternativesTyped
<1>3. pc = "source" /\ UNCHANGED <<text, emit_comments, reports>>
  BY DEF on_operator
<1>4. Follows(it, chars) /\ it' = it + Len(chars) /\ Act(chars, kind)
  BY <1>1 DEF Matched, Advance
<1> HIDE DEF chars, kind
<1>5. it' \in (it + 1)..Len(text) /\ it' \in Nat /\ it \in Nat /\ Len(text) \in Nat
  BY <1>2, <1>3, <1>4, AtSource DEF Follows
<1>6. peek # "\n"
  <2>1. text[it + 1] = chars[1] /\ chars[1] \in Punctuation
    BY <1>2, <1>4 DEF Follows
  <2> QED
    BY <1>5, <2>1, CharClasses DEF peek, ByteAt
<1>7. CASE /\ chars = <<">", ">">>
           /\ tokens' = tokens \o <<Token(kind, it, 0), Token(kind, it + 1, 0)>>
           /\ UNCHANGED <<pc, local>>
  <2>1. Len(chars) = 2
    BY <1>7
  <2>2. it' = it + 2
    BY <1>4, <2>1
  <2> DEFINE one == Append(tokens, Token(kind, it, 0))
  <2>3. /\ it <= source_size_max /\ it + 1 <= source_size_max /\ it + 1 <= it + 1 /\ it + 1 < it'
        /\ it + 1 \in Nat
    BY <1>3, <1>5, <2>2, AtSource
  <2>4. kind \notin CommentKind /\ i = 15
    <3>1. i \in DOMAIN Alternatives /\ Alternatives[i].chars = <<">", ">">>
      BY <1>7 DEF chars
    <3>2. i = 15
      BY <3>1, OnlyShift
    <3> QED
      BY <3>2, SpellingTable DEF kind, CommentKind
  <2>5. \A o \in Nat : o <= source_size_max => End(Token(kind, o, 0)) = o + 1
    BY <2>4, AlternativeEnds DEF kind
  <2>6. End(Token(kind, it, 0)) \in 0..(it + 1) /\ End(Token(kind, it + 1, 0)) \in 0..it'
    BY <1>5, <2>2, <2>3, <2>5
  <2>7. one \in Seq(TokenType) /\ Ordered(one) /\ Before(one, it + 1) /\ Open(one)
    BY <1>2, <1>3, <1>5, <2>3, <2>6, PutAtCursor
  <2>8. LET two == Append(one, Token(kind, it + 1, 0))
        IN  two \in Seq(TokenType) /\ Ordered(two) /\ Before(two, it') /\ Open(two)
    <3> HIDE DEF one
    <3> QED
      BY <1>2, <1>5, <2>7, <2>3, <2>6, PutToken
  <2>9. tokens' = Append(one, Token(kind, it + 1, 0))
    <3>1. Token(kind, it, 0) \in TokenType /\ Token(kind, it + 1, 0) \in TokenType
      BY <1>2, <1>5, TokenIsTyped
    <3> QED
      BY <1>3, <1>7, <3>1, AtSource
  <2> QED
    BY <1>3, <1>5, <1>7, <2>8, <2>9, DispatchOnStep
<1>8. CASE /\ kind \in CommentKind
           /\ Enter(kind, [NoLocals EXCEPT !.offset = it, !.kind = kind, !.unclosed_count = 1])
           /\ UNCHANGED tokens
  <2>1. /\ pc' = kind
        /\ local' = [NoLocals EXCEPT !.offset = it, !.kind = kind, !.unclosed_count = 1]
    BY <1>8 DEF Enter
  <2>2. local' \in LocalsType /\ local'.offset = it /\ local'.kind = kind /\ local'.unclosed_count = 1
    BY <1>2, <1>5, <2>1, NoLocalsTyped DEF LocalsType
  <2>3. pc' \in Loop /\ pc' # "digits" /\ pc' # "digit_gap" /\ pc' # "quote"
    BY <1>8, <2>1 DEF Loop, CommentKind
  <2>4. LoopInv'
    BY <1>2, <1>5, <1>8, <2>2, <2>3 DEF LoopInv
  <2> QED
    BY <1>3, <1>5, <1>6, <1>8, <2>2, <2>3, <2>4, EnterStep
<1>9. CASE /\ kind \notin CommentKind /\ Put(kind, it, 0) /\ UNCHANGED <<pc, local>>
  <2>1. End(Token(kind, it, 0)) = it + Len(chars) \/ End(Token(kind, it, 0)) = it + 1
    BY <1>3, <1>9, AtSource, AlternativeEnds DEF kind, chars
  <2>2. End(Token(kind, it, 0)) \in 0..it'
    BY <1>2, <1>4, <1>5, <2>1
  <2>3. tokens' \in Seq(TokenType) /\ Ordered(tokens') /\ Before(tokens', it') /\ Open(tokens')
    BY <1>2, <1>3, <1>5, <1>9, <2>2, PutAtCursor DEF Put
  <2> QED
    BY <1>3, <1>5, <1>9, <2>3, DispatchOnStep
<1> QED
  BY <1>4, <1>7, <1>8, <1>9 DEF Act

(* The end of the text, or the refusal of a text, puts the only end_of_file token. *)
LEMMA PutEnd ==
  ASSUME TypeOK, Ordered(tokens), Before(tokens, it), Open(tokens), it <= source_size_max,
         Put("end_of_file", it, 0)
  PROVE  /\ tokens' \in Seq(TokenType) /\ Ordered(tokens')
         /\ Len(tokens') > 0 /\ tokens'[Len(tokens')].kind = "end_of_file"
         /\ \A i \in 1..(Len(tokens') - 1) : tokens'[i].kind # "end_of_file"
<1> DEFINE t == Token("end_of_file", it, 0)
<1>1. /\ tokens \in Seq(TokenType) /\ it \in Nat /\ it <= it /\ it < it + 1
      /\ it + 1 \in Nat /\ "end_of_file" \in TokenKind /\ 0 \in Nat
  BY TextLength DEF TypeOK, TokenKind
<1>2. End(t) \in 0..(it + 1)
  BY <1>1, EndOfFileEnds
<1>3. tokens' = Append(tokens, t)
  BY DEF Put
<1>4. tokens' \in Seq(TokenType) /\ Ordered(tokens')
  BY <1>1, <1>3, <1>2, PutKeepsOrder
<1>5. t \in TokenType /\ t.kind = "end_of_file"
  BY <1>1, TokenIsTyped DEF Token
<1> HIDE DEF t
<1>6. /\ Len(tokens') = Len(tokens) + 1 /\ Len(tokens) \in Nat
      /\ tokens'[Len(tokens) + 1] = t
      /\ \A i \in 1..Len(tokens) : tokens'[i] = tokens[i]
  BY <1>1, <1>3, <1>5
<1> QED
  BY <1>4, <1>5, <1>6 DEF Open

(* The size check of Lexer::run keeps the invariant. *)
LEMMA RunStepPreserves ==
  ASSUME IInv, RunStep
  PROVE  IInv'
<1>1. ASSUME RefuseSource PROVE IInv'
  <2>1. pc = "run" /\ pc' = "done" /\ UNCHANGED <<text, emit_comments, it, local>>
    BY <1>1 DEF RefuseSource, Goto
  <2>2. tokens = <<>> /\ reports = <<>>
    BY <2>1 DEF IInv, TokenInv, ReportInv
  <2>3. /\ pc' \notin Loop /\ pc' # "source" /\ pc' # "run" /\ pc' # "digits"
        /\ pc' # "digit_gap" /\ pc' # "block_comment"
    BY <2>1 DEF Loop
  <2>4. reports' \in Seq([message : Message, offset : 0..Len(text)]) /\ Len(reports') = 1
    <3>1. [message |-> "source_file_too_large", offset |-> 0] \in [message : Message, offset : 0..Len(text)]
      BY TextLength DEF IInv, Message
    <3> QED
      BY <1>1, <2>2, <3>1 DEF RefuseSource, Report
  <2>5. /\ tokens' \in Seq(TokenType) /\ Len(tokens') = 1
        /\ tokens'[1].kind = "end_of_file"
    <3>1. Token("end_of_file", it, 0) \in TokenType
      BY TextLength, TokenIsTyped DEF IInv, TokenKind
    <3> QED
      BY <1>1, <2>2, <3>1 DEF RefuseSource, Put, Token
  <2>6. TypeOK'
    BY <2>1, <2>4, <2>5 DEF IInv, TypeOK
  <2>7. SizeInv' /\ LoopInv'
    BY <2>3 DEF SizeInv, LoopInv
  <2>8. TokenInv'
    <3>1. TypeOK /\ tokens \in Seq(TokenType) /\ Put("end_of_file", it, 0)
      BY <1>1 DEF IInv, TypeOK, RefuseSource
    <3>2. tokens'[Len(tokens')].offset <= Len(text)
      BY <3>1, EndOffset DEF Put
    <3> QED
      BY <2>1, <2>3, <2>5, <3>2 DEF TokenInv, Ordered
  <2>9. ReportInv'
    BY <2>3, <2>4 DEF ReportInv, ReportsInOrder
  <2> QED
    BY <2>6, <2>7, <2>8, <2>9 DEF IInv
<1>2. ASSUME StartSource PROVE IInv'
  <2>1. /\ pc = "run" /\ pc' = "source" /\ Len(text) <= source_size_max
        /\ UNCHANGED <<text, emit_comments, it, tokens, reports, local>>
    BY <1>2 DEF StartSource, Goto
  <2>2. tokens = <<>> /\ reports = <<>>
    BY <2>1 DEF IInv, TokenInv, ReportInv
  <2>3. /\ pc' \notin Loop /\ pc' # "done" /\ pc' # "run" /\ pc' # "digits"
        /\ pc' # "digit_gap" /\ pc' # "block_comment"
    BY <2>1 DEF Loop
  <2>4. TypeOK'
    BY <2>1 DEF IInv, TypeOK
  <2>5. SizeInv' /\ LoopInv'
    BY <2>1, <2>3 DEF SizeInv, LoopInv
  <2>6. TokenInv'
    BY <2>1, <2>2, <2>3 DEF TokenInv, Ordered, Before, Open
  <2>7. ReportInv'
    BY <2>1, <2>2, <2>3 DEF ReportInv, ReportsInOrder
  <2> QED
    BY <2>4, <2>5, <2>6, <2>7 DEF IInv
<1> QED
  BY <1>1, <1>2 DEF RunStep

(* Every iteration of handle_source keeps the invariant. *)
LEMMA DispatchStepPreserves ==
  ASSUME IInv, DispatchStep
  PROVE  IInv'
<1>1. ASSUME EndSource PROVE IInv'
  <2>1. pc = "source" /\ pc' = "done" /\ peek = NUL /\ UNCHANGED <<text, emit_comments, it, local>>
    BY <1>1 DEF EndSource, Goto
  <2>2. /\ pc' \notin Loop /\ pc' # "source" /\ pc' # "run" /\ pc' # "digits"
        /\ pc' # "digit_gap" /\ pc' # "block_comment"
    BY <2>1 DEF Loop
  <2>3. /\ tokens' \in Seq(TokenType) /\ Ordered(tokens')
        /\ Len(tokens') > 0 /\ tokens'[Len(tokens')].kind = "end_of_file"
        /\ \A i \in 1..(Len(tokens') - 1) : tokens'[i].kind # "end_of_file"
    BY <1>1, <2>1, AtSource, PutEnd DEF EndSource, IInv
  <2>4. reports' \in Seq(ReportType) /\ ReportsInOrder'
    <3>1. CASE Report("invalid_character", it)
      <4>1. it \in 0..Len(text) /\ "invalid_character" \in Message
        BY <2>1, AtSource DEF Message
      <4>2. \A i \in 1..Len(reports) : reports[i].offset < it
        BY <2>1, AtSource DEF NUL
      <4> QED
        BY <2>1, <3>1, <4>1, <4>2, AtSource, ReportKeepsOrder
    <3>2. CASE UNCHANGED reports
      BY <2>1, <3>2, AtSource DEF ReportsInOrder
    <3> QED
      BY <1>1, <3>1, <3>2 DEF EndSource
  <2>5. TypeOK'
    BY <2>1, <2>3, <2>4 DEF IInv, TypeOK, ReportType
  <2>6. SizeInv' /\ LoopInv'
    BY <2>2 DEF SizeInv, LoopInv
  <2>7. TokenInv'
    <3>1. TypeOK /\ tokens \in Seq(TokenType) /\ Put("end_of_file", it, 0)
      BY <1>1 DEF IInv, TypeOK, EndSource
    <3>2. tokens'[Len(tokens')].offset <= Len(text)
      BY <3>1, EndOffset DEF Put
    <3> QED
      BY <2>1, <2>2, <2>3, <3>2 DEF TokenInv, Ordered
  <2>8. ReportInv'
    BY <2>2, <2>4 DEF ReportInv, ReportsInOrder
  <2> QED
    BY <2>5, <2>6, <2>7, <2>8 DEF IInv
<1>2. ASSUME SkipWhitespace PROVE IInv'
  <2>1. it + 1 \in 1..Len(text) /\ pc = "source"
    BY <1>2, CharClasses, PeekIsInText DEF IInv, SkipWhitespace
  <2>2. it' \in (it + 1)..Len(text) /\ it' \in Nat /\ it <= it'
    BY <1>2, <2>1, AtSource DEF SkipWhitespace, Advance
  <2>3. tokens' \in Seq(TokenType) /\ Ordered(tokens') /\ Before(tokens', it') /\ Open(tokens')
    BY <1>2, <2>1, <2>2, AtSource, BeforeLater DEF SkipWhitespace
  <2> QED
    BY <1>2, <2>1, <2>2, <2>3, DispatchOnStep DEF SkipWhitespace
<1>3. ASSUME NEW n \in 1..2, NEW label \in Loop, pc = "source",
             it + n \in 1..Len(text), Advance(n), peek # "\n",
             pc' = label, local' \in LocalsType, local'.offset = it, local'.kind # "end_of_file",
             label \notin CommentKind /\ label # "digit_gap",
             label = "quote" => local'.kind \in QuotedKind,
             local'.from = it \/ label # "digits",
             local'.kind # "float_literal",
             UNCHANGED <<text, emit_comments, tokens, reports>>
      PROVE  IInv'
  <2>1. it' = it + n /\ it' \in (it + 1)..Len(text) /\ it \in Nat
    BY <1>3, AtSource DEF Advance
  <2>2. LoopInv'
    BY <1>3, <2>1 DEF LoopInv, CommentKind
  <2> QED
    BY <1>3, <2>1, <2>2, EnterStep
<1>4. ASSUME on_alphabetic PROVE IInv'
  <2>1. peek \in AsciiIdentifierChar /\ pc = "source"
    BY <1>4 DEF on_alphabetic, AsciiIdentifierChar
  <2>2. it + 1 \in 1..Len(text) /\ peek # "\n" /\ it \in Nat
    BY <2>1, CharClasses, PeekIsInText, AtSource DEF IInv
  <2>3. /\ pc' = "word" /\ local' \in LocalsType /\ local'.offset = it
        /\ local'.kind = "identifier"
    <3>1. (KeywordsFor(peek) # {}) \in BOOLEAN
      OBVIOUS
    <3> QED
      BY <1>4, <2>2, <3>1 DEF on_alphabetic, Enter, NoLocals, LocalsType, TokenKind, VariableLengthKind
  <2> QED
    <3>1. "word" \in Loop \ CommentKind /\ 1 \in 1..2
      BY DEF Loop, CommentKind
    <3>2. Advance(1) /\ UNCHANGED <<text, emit_comments, tokens, reports>>
      BY <1>4 DEF on_alphabetic
    <3> QED
      BY <1>3, <2>1, <2>2, <2>3, <3>1, <3>2
<1>5. ASSUME NEW kind \in TokenKind \ {"end_of_file", "float_literal"}, NEW n \in 1..2,
             pc = "source", it + n \in 1..Len(text), Advance(n), peek # "\n",
             EnterDigits(kind, it, it, 0), UNCHANGED <<text, emit_comments, tokens, reports>>
      PROVE  IInv'
  <2>1. it \in Nat
    BY <1>5, AtSource
  <2>2. /\ pc' = "digits"
        /\ local' = [NoLocals EXCEPT !.kind = kind, !.offset = it, !.from = it, !.int_length = 0]
    BY <1>5 DEF EnterDigits, Enter
  <2>3. /\ local' \in LocalsType /\ local'.offset = it /\ local'.from = it /\ local'.kind = kind
    BY <1>5, <2>1, <2>2, NoLocalsTyped DEF LocalsType
  <2> QED
    BY <1>3, <1>5, <2>2, <2>3 DEF Loop, CommentKind
<1>6. ASSUME peek \in DecimalDigit \cup Punctuation, pc = "source"
      PROVE  it + 1 \in 1..Len(text) /\ peek # "\n" /\ it \in Nat
  BY <1>6, CharClasses, PeekIsInText, AtSource DEF IInv
<1>7. {"dec_int_literal", "hex_int_literal", "bin_int_literal", "oct_int_literal", "dot"}
        \subseteq TokenKind \ {"end_of_file", "float_literal"}
  BY DEF TokenKind, VariableLengthKind, NumericKind, PunctuationKind, Lexeme
<1>8. ASSUME on_zero PROVE IInv'
  <2>1. pc = "source" /\ peek \in DecimalDigit /\ UNCHANGED <<text, emit_comments, tokens, reports>>
    BY <1>8 DEF on_zero, DecimalDigit
  <2>2. CASE /\ ByteAt(it + 1) \in DOMAIN RadixKind /\ Advance(2)
             /\ EnterDigits(RadixKind[ByteAt(it + 1)], it, it, 0)
    <3>1. ByteAt(it + 1) # NUL
      BY <2>2 DEF RadixKind, NUL
    <3>2. it + 2 \in 1..Len(text)
      BY <1>6, <2>1, <3>1, AtSource DEF ByteAt
    <3>3. RadixKind[ByteAt(it + 1)] \in {"hex_int_literal", "bin_int_literal", "oct_int_literal"}
      BY <2>2 DEF RadixKind
    <3> QED
      BY <1>5, <1>6, <1>7, <2>1, <2>2, <3>2, <3>3
  <2>3. CASE Advance(1) /\ EnterDigits("dec_int_literal", it, it, 0)
    BY <1>5, <1>6, <1>7, <2>1, <2>3
  <2> QED
    BY <1>8, <2>2, <2>3 DEF on_zero
<1>9. ASSUME on_nonzero PROVE IInv'
  BY <1>5, <1>6, <1>7, <1>9 DEF on_nonzero
<1>10. ASSUME on_dot PROVE IInv'
  <2>1. peek \in Punctuation
    BY <1>10 DEF on_dot, Punctuation
  <2> QED
    BY <1>5, <1>6, <1>7, <1>10, <2>1 DEF on_dot
<1>11. ASSUME on_quote PROVE IInv'
  <2>1. peek \in Punctuation /\ pc = "source"
    BY <1>11 DEF on_quote, QuoteKind, Punctuation
  <2>2. QuoteKind[peek] \in TokenKind /\ QuoteKind[peek] # "end_of_file"
        /\ QuoteKind[peek] # "float_literal"
    BY <1>11 DEF on_quote, QuoteKind, TokenKind, VariableLengthKind, QuotedKind
  <2>3. /\ pc' = "quote"
        /\ local' = [NoLocals EXCEPT !.offset = it, !.kind = QuoteKind[peek]]
    BY <1>11 DEF on_quote, Enter
  <2>4. local' \in LocalsType /\ local'.offset = it /\ local'.kind = QuoteKind[peek]
    BY <1>6, <2>1, <2>2, <2>3, NoLocalsTyped DEF LocalsType
  <2>5. local'.kind \in QuotedKind
    BY <1>11, <2>4 DEF on_quote, QuoteKind, QuotedKind
  <2> QED
    BY <1>3, <1>6, <1>11, <2>1, <2>2, <2>3, <2>4, <2>5 DEF on_quote, Loop, CommentKind
<1>12. ASSUME StartWordUtf8 PROVE IInv'
  <2>1. pc = "source" /\ peek # NUL /\ peek # "\n"
    BY <1>12, CharClasses DEF StartWordUtf8
  <2>2. Utf8Width(it) \in 1..(Len(text) - it) /\ it \in Nat /\ Len(text) \in Nat
    BY <2>1, Utf8WidthFits, AtSource DEF IInv
  <2>3. it' \in (it + 1)..Len(text) /\ it < it'
    BY <1>12, <2>2 DEF StartWordUtf8, Advance
  <2>4. /\ pc' = "word" /\ local' \in LocalsType /\ local'.offset = it /\ local'.kind = "identifier"
    BY <1>12, <2>2 DEF StartWordUtf8, Enter, NoLocals, LocalsType, TokenKind, VariableLengthKind
  <2>5. LoopInv'
    BY <2>3, <2>4 DEF LoopInv
  <2> QED
    BY <1>12, <2>1, <2>3, <2>4, <2>5, EnterStep DEF StartWordUtf8, Loop
<1>13. ASSUME RejectChar PROVE IInv'
  <2>1. /\ pc = "source" /\ pc' = "source" /\ peek # NUL /\ peek # "\n"
        /\ UNCHANGED <<text, emit_comments, tokens, local>>
    BY <1>13, CharClasses DEF RejectChar
  <2>2. Utf8Width(it) \in 1..(Len(text) - it) /\ it \in Nat /\ Len(text) \in Nat
    BY <2>1, Utf8WidthFits, AtSource DEF IInv
  <2>3. it' \in it..Len(text) /\ it < it' /\ it' \in Nat /\ it <= it' /\ it \in 0..Len(text)
    BY <1>13, <2>2 DEF RejectChar, Advance
  <2>4. tokens' \in Seq(TokenType) /\ Ordered(tokens') /\ Before(tokens', it') /\ Open(tokens')
    BY <2>1, <2>2, <2>3, AtSource, BeforeLater
  <2>5. Report("invalid_character", it) /\ "invalid_character" \in Message
    BY <1>13 DEF RejectChar, Message
  <2>6. /\ reports' \in Seq(ReportType) /\ ReportsInOrder'
        /\ \A i \in 1..Len(reports') : reports'[i].offset <= it
    BY <2>1, <2>3, <2>5, AtSource, ReportKeepsOrder
  <2>7. ASSUME NEW i \in 1..Len(reports')
        PROVE  reports'[i].offset < it'
    <3>1. reports'[i] \in ReportType
      BY <2>6
    <3>2. reports'[i].offset \in Int /\ reports'[i].offset <= it
      BY <2>2, <2>6, <3>1 DEF ReportType
    <3> QED
      BY <2>3, <3>2
  <2>8. local' \in LocalsType
    BY <2>1 DEF IInv, TypeOK
  <2> QED
    BY <2>1, <2>3, <2>4, <2>6, <2>7, <2>8, SourceStep
<1> QED
  BY <1>1, <1>2, <1>4, <1>8, <1>9, <1>10, <1>11, <1>12, <1>13, OperatorPreserves DEF DispatchStep

-----------------------------------------------------------------------------
(* Before run_lexer has done anything, whatever text it is given. *)
LEMMA FreshInv ==
  ASSUME text \in Seq(Byte), emit_comments \in BOOLEAN, it = 0, tokens = <<>>, reports = <<>>,
         pc = "run", local = NoLocals
  PROVE  IInv
<1>1. /\ it \in 0..Len(text) /\ pc \notin Loop /\ pc # "done" /\ pc # "source" /\ pc # "digits"
      /\ pc # "digit_gap" /\ pc # "block_comment"
  BY DEF Loop
<1>2. TypeOK
  BY <1>1, NoLocalsTyped DEF TypeOK
<1>3. SizeInv /\ LoopInv
  BY <1>1 DEF SizeInv, LoopInv
<1>4. TokenInv
  BY <1>1 DEF TokenInv, Ordered, Before, Open
<1>5. ReportInv
  BY <1>1 DEF ReportInv, ReportsInOrder
<1> QED
  BY <1>2, <1>3, <1>4, <1>5 DEF IInv

(* The text may still change as long as nothing of it has been read. *)
LEMMA TextPreserves ==
  ASSUME IInv, pc = "run", it = 0, text' \in Seq(Byte),
         UNCHANGED <<emit_comments, it, tokens, reports, pc, local>>
  PROVE  IInv'
<1>1. /\ pc' \notin Loop /\ pc' # "done" /\ pc' # "source" /\ pc' # "digits" /\ pc' # "digit_gap"
      /\ pc' # "block_comment" /\ pc' = "run"
  BY DEF Loop
<1>2. reports = <<>> /\ tokens = <<>>
  BY DEF IInv, ReportInv, TokenInv
<1>3. TypeOK'
  BY <1>2 DEF IInv, TypeOK
<1>4. SizeInv' /\ LoopInv'
  BY <1>1 DEF SizeInv, LoopInv
<1>5. TokenInv'
  BY <1>1, <1>2 DEF TokenInv, Ordered, Before, Open
<1>6. ReportInv'
  BY <1>1, <1>2 DEF ReportInv, ReportsInOrder
<1> QED
  BY <1>3, <1>4, <1>5, <1>6 DEF IInv

(* Nothing of the invariant depends on anything but the variables. *)
LEMMA StutterPreserves ==
  ASSUME IInv, UNCHANGED vars
  PROVE  IInv'
<1> USE DEF vars
<1>1. TypeOK'
  BY DEF IInv, TypeOK
<1>2. SizeInv' /\ LoopInv'
  BY DEF IInv, SizeInv, LoopInv
<1>3. TokenInv'
  BY DEF IInv, TokenInv, Ordered, Before, Open, Frontier
<1>4. ReportInv'
  BY DEF IInv, ReportInv, ReportsInOrder, peek, ByteAt
<1> QED
  BY <1>1, <1>2, <1>3, <1>4 DEF IInv

(* Every step of every handler keeps the invariant. *)
LEMMA NextPreserves ==
  ASSUME IInv, Next
  PROVE  IInv'
<1>1. Returned => UNCHANGED vars
  BY DEF Returned
<1> QED
  BY <1>1, RunStepPreserves, DispatchStepPreserves, WordStepPreserves, DigitStepPreserves,
     CommentStepPreserves, QuoteStepPreserves, StutterPreserves DEF Next

(***************************************************************************)
(* The invariant is inductive: every text starts with it and every step of *)
(* every handler keeps it.                                                 *)
(***************************************************************************)
THEOREM Invariance == Spec => []IInv
<1>1. Init => IInv
  BY SourcesAssumption, FreshInv DEF Init
<1>2. IInv /\ [Next]_vars => IInv'
  BY NextPreserves, StutterPreserves
<1> QED
  BY <1>1, <1>2, PTL DEF Spec

(***************************************************************************)
(* The variables keep their types and the cursor never leaves the text, so *)
(* the debug assertion in SourceCursor::advance never fails.               *)
(***************************************************************************)
THEOREM TypeCorrect == Spec => []TypeOK
<1>1. IInv => TypeOK
  BY DEF IInv
<1> QED
  BY <1>1, Invariance, PTL

(***************************************************************************)
(* For every text, the tokens are in source order and do not overlap, be   *)
(* their lengths stored (literals, comments, identifiers) or those of      *)
(* their spellings (keywords, punctuation): the size check of Lexer::run   *)
(* keeps every offset within the 24 bits a Token has for it, and no        *)
(* handler puts more than the cursor passes.                               *)
(***************************************************************************)
THEOREM TokensStayInOrder == Spec => []TokensInOrder
<1>1. IInv => TokensInOrder
  BY DEF IInv, TokenInv, TokensInOrder
<1> QED
  BY <1>1, Invariance, PTL

(***************************************************************************)
(* The end_of_file token is put once, last and only when run_lexer is      *)
(* about to return: what TokenCursor relies on to stop.                    *)
(***************************************************************************)
THEOREM ListEndsOnce == Spec => []EndsOnce
<1>1. IInv => EndsOnce
  <2> SUFFICES ASSUME IInv PROVE EndsOnce
    OBVIOUS
  <2>1. Len(tokens) \in Nat
    BY DEF IInv, TypeOK
  <2>2. CASE pc # "done"
    BY <2>2 DEF IInv, TokenInv, Open, EndsOnce, TokensOf
  <2>3. CASE pc = "done"
    BY <2>1, <2>3 DEF IInv, TokenInv, EndsOnce, TokensOf
  <2> QED
    BY <2>2, <2>3
<1> QED
  BY <1>1, Invariance, PTL

(***************************************************************************)
(* Reports reach the reporter in source order, at most one per offset.     *)
(***************************************************************************)
THEOREM ReportsStayInOrder == Spec => []ReportsInOrder
<1>1. IInv => ReportsInOrder
  BY DEF IInv, ReportInv
<1> QED
  BY <1>1, Invariance, PTL
=============================================================================
