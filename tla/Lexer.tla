------------------------------- MODULE Lexer -------------------------------
(***************************************************************************)
(* The lexer of cero (cero/syntax/lexer.cc): turns the bytes of a source   *)
(* into the token list and reports the characters it cannot accept.        *)
(*                                                                         *)
(* One action is one iteration of the loop that is running: the dispatch   *)
(* loop of handle_source, or the loop of the handler it called, so that    *)
(* every cursor movement and every early return is a step of its own.  A   *)
(* handler without a loop is one action.                                   *)
(*                                                                         *)
(* Definitions with an underscore suffix (Name_Mistake) are mistakes the   *)
(* code does not make; no specification uses them.  They are put in place  *)
(* of Name to see that a property notices.                                 *)
(***************************************************************************)
EXTENDS Unicode, Token

CONSTANTS
  Sources,      \* the source texts to lex: sequences of bytes
  keywords,     \* keyword table: records of a lexeme and its kind (keywords.hh)
  TailWidth     \* sizeof(uint64_t): bytes of a keyword tail that are compared

ASSUME SourcesAssumption == Sources \subseteq Seq(Byte)

(* encode_keyword_tail refuses longer keywords at compile time; each kind is in the table once. *)
ASSUME KeywordsAssumption ==
  /\ TailWidth \in Nat
  /\ keywords \subseteq [lexeme : Seq(LowerLetter), kind : KeywordKind]
  /\ \A kw \in keywords : Len(kw.lexeme) \in 1..(TailWidth + 1)
  /\ \A kw \in keywords, other \in keywords : kw.kind = other.kind => kw = other

VARIABLES
  text,           \* source_text_
  emit_comments,  \* LexerFlags::emit_comments
  it,             \* offset of the cursor
  tokens,         \* tokens_
  reports,        \* what the reporter has received: message and source offset
  pc,             \* the loop that is running
  local           \* the local variables of the handler that is running

vars == <<text, emit_comments, it, tokens, reports, pc, local>>

Loop == {"word", "digits", "digit_gap", "line_comment", "block_comment", "quote"}

Message == {"source_file_too_large", "invalid_character", "missing_closing_quote",
            "unterminated_block_comment"}

NoLocals == [offset |-> 0, kind |-> "identifier", may_be_keyword |-> FALSE, from |-> 0,
             int_length |-> 0, length |-> 0, unclosed_count |-> 0, ignore_quote |-> FALSE]

-----------------------------------------------------------------------------
(* The cursor (source_cursor.hh). *)

valid == it < Len(text)

(* The byte at an offset; the cursor answers NUL at the end of the text. *)
ByteAt(p) == IF p < Len(text) THEN text[p + 1] ELSE NUL

peek == ByteAt(it)

(* The bytes that follow offset p are exactly chars. *)
Follows(p, chars) ==
  /\ p + Len(chars) <= Len(text)
  /\ \A i \in 1..Len(chars) : text[p + i] = chars[i]

Advance(n) == it' = it + n

-----------------------------------------------------------------------------
(* Output. *)

Put(kind, offset, length) == tokens' = Append(tokens, Token(kind, offset, length))

Report(message, offset) ==
  reports' = Append(reports, [message |-> message, offset |-> offset])

Goto(label) == pc' = label

(* The handler returns to the dispatch loop. *)
Return == pc' = "source" /\ local' = NoLocals

(* The handler enters a loop, with its locals set up. *)
Enter(label, locals) == pc' = label /\ local' = locals

-----------------------------------------------------------------------------
(* Lexer::run *)

(* Mistake: the refused source leaves an empty list. *)
RefuseSource_EmptyList ==
  /\ pc = "run"
  /\ Len(text) > source_size_max
  /\ Report("source_file_too_large", 0)
  /\ Goto("done")
  /\ UNCHANGED <<text, emit_comments, it, tokens, local>>

(* A text whose offsets would not fit a token is refused unread. *)
RefuseSource ==
  /\ pc = "run"
  /\ Len(text) > source_size_max
  /\ Report("source_file_too_large", 0)
  /\ Put("end_of_file", it, 0)
  /\ Goto("done")
  /\ UNCHANGED <<text, emit_comments, it, local>>

(* Mistake: the size of the source is not checked. *)
StartSource_AnySize ==
  /\ pc = "run"
  /\ Goto("source")
  /\ UNCHANGED <<text, emit_comments, it, tokens, reports, local>>

StartSource ==
  /\ pc = "run"
  /\ Len(text) <= source_size_max
  /\ Goto("source")
  /\ UNCHANGED <<text, emit_comments, it, tokens, reports, local>>

(* Mistake: an embedded NUL is taken for the end of the text. *)
EndSource_Silent ==
  /\ pc = "source"
  /\ peek = NUL
  /\ Put("end_of_file", it, 0)
  /\ Goto("done")
  /\ UNCHANGED <<text, emit_comments, it, reports, local>>

(* A NUL ends the loop; it is reported when it is a byte of the text. *)
EndSource ==
  /\ pc = "source"
  /\ peek = NUL
  /\ IF valid THEN Report("invalid_character", it) ELSE UNCHANGED reports
  /\ Put("end_of_file", it, 0)
  /\ Goto("done")
  /\ UNCHANGED <<text, emit_comments, it, local>>

SkipWhitespace ==
  /\ pc = "source"
  /\ peek \in AsciiWhitespace
  /\ Advance(1)
  /\ UNCHANGED <<text, emit_comments, tokens, reports, pc, local>>

-----------------------------------------------------------------------------
(* Words *)

(* get_keyword_tails<first>: the keywords that share the first character. *)
KeywordsFor(first) == {kw \in keywords : kw.lexeme[1] = first}

on_alphabetic ==
  /\ pc = "source"
  /\ peek \in LowerLetter \cup UpperLetter \cup {"_"}
  /\ Advance(1)
  /\ Enter("word", [NoLocals EXCEPT !.offset = it,
                                    !.may_be_keyword = KeywordsFor(peek) # {}])
  /\ UNCHANGED <<text, emit_comments, tokens, reports>>

(* A keyword tail as the 64-bit integer it is copied into. *)
Encode(tail) == [i \in 1..TailWidth |-> IF i <= Len(tail) THEN tail[i] ELSE NUL]

(* Mistake: words longer than a keyword are compared too. *)
KeywordsSpelled_AnyLength(offset, end) ==
  {kw \in KeywordsFor(text[offset + 1]) :
     Encode(Tail(kw.lexeme)) = Encode(SubSeq(text, offset + 2, end))}

(* The keywords whose tail equals that of the word in [offset, end). *)
KeywordsSpelled(offset, end) ==
  IF end - offset <= TailWidth + 1
  THEN {kw \in KeywordsFor(text[offset + 1]) :
          Encode(Tail(kw.lexeme)) = Encode(SubSeq(text, offset + 2, end))}
  ELSE {}

(* What is put for a word that ends before offset end. *)
PutWord(offset, may_be_keyword, end) ==
  LET spelled == IF may_be_keyword THEN KeywordsSpelled(offset, end) ELSE {}
  IN  \/ \E kw \in spelled : Put(kw.kind, offset, 0)
      \/ spelled = {} /\ Put("identifier", offset, end - offset)

ConsumeIdentifierChar ==
  /\ pc = "word"
  /\ peek \in AsciiIdentifierChar
  /\ Advance(1)
  /\ UNCHANGED <<text, emit_comments, tokens, reports, pc, local>>

EndWord ==
  /\ pc = "word"
  /\ peek \in Ascii \ AsciiIdentifierChar
  /\ PutWord(local.offset, local.may_be_keyword, it)
  /\ Return
  /\ UNCHANGED <<text, emit_comments, it, reports>>

(***************************************************************************)
(* The character that begins at offset p: as many bytes as its leading     *)
(* byte announces, whatever they are, with NUL for the ones past the end.  *)
(***************************************************************************)
Utf8Char(p) == [i \in 1..announced_width(ByteAt(p)) |-> ByteAt(p + i - 1)]

(* Mistake: the cursor is moved by what the leading byte announces. *)
Utf8Width_Announced(p) == announced_width(ByteAt(p))

(* SourceCursor::next stops at the end of the text. *)
Utf8Width(p) ==
  IF p + announced_width(ByteAt(p)) <= Len(text) THEN announced_width(ByteAt(p)) ELSE Len(text) - p

AcceptedBy(table, p) == leading_ones(ByteAt(p)) \in 2..4 /\ Utf8Char(p) \in table

(* Mistake: any multi-byte character continues the word. *)
ContinueWordUtf8_AnyChar ==
  /\ pc = "word"
  /\ peek \in NonAscii
  /\ Advance(Utf8Width(it))
  /\ UNCHANGED <<text, emit_comments, tokens, reports, pc, local>>

ContinueWordUtf8 ==
  /\ pc = "word"
  /\ peek \in NonAscii
  /\ AcceptedBy(XidContinue, it)
  /\ Advance(Utf8Width(it))
  /\ UNCHANGED <<text, emit_comments, tokens, reports, pc, local>>

(* The refused character has been consumed and counts towards the word. *)
BreakWordUtf8 ==
  /\ pc = "word"
  /\ peek \in NonAscii
  /\ ~AcceptedBy(XidContinue, it)
  /\ Advance(Utf8Width(it))
  /\ Report("invalid_character", it)
  /\ PutWord(local.offset, local.may_be_keyword, it + Utf8Width(it))
  /\ Return
  /\ UNCHANGED <<text, emit_comments>>

-----------------------------------------------------------------------------
(* Numbers *)

DigitSet(kind) == IF kind = "hex_int_literal" THEN HexadecimalDigit ELSE DecimalDigit

RadixKind == [x |-> "hex_int_literal", b |-> "bin_int_literal", o |-> "oct_int_literal"]

(* Starts consume_digit_sequence(from) for a token of the given kind. *)
EnterDigits(kind, offset, from, int_length) ==
  Enter("digits", [NoLocals EXCEPT !.kind = kind, !.offset = offset, !.from = from,
                                   !.int_length = int_length])

on_zero ==
  /\ pc = "source"
  /\ peek = "0"
  /\ LET radix == ByteAt(it + 1)
     IN  IF radix \in DOMAIN RadixKind
         THEN Advance(2) /\ EnterDigits(RadixKind[radix], it, it, 0)
         ELSE Advance(1) /\ EnterDigits("dec_int_literal", it, it, 0)
  /\ UNCHANGED <<text, emit_comments, tokens, reports>>

on_nonzero ==
  /\ pc = "source"
  /\ peek \in DecimalDigit \ {"0"}
  /\ Advance(1)
  /\ EnterDigits("dec_int_literal", it, it, 0)
  /\ UNCHANGED <<text, emit_comments, tokens, reports>>

on_dot ==
  /\ pc = "source"
  /\ peek = "."
  /\ Advance(1)
  /\ EnterDigits("dot", it, it, 0)
  /\ UNCHANGED <<text, emit_comments, tokens, reports>>

(***************************************************************************)
(* What the caller of consume_digit_sequence does with the length it       *)
(* returns.  The integer part of a decimal literal goes on to its fraction *)
(* when a dot follows; a dot without digits is a token of its own.         *)
(***************************************************************************)
FinishDigits(length) ==
  \/ /\ local.kind \in {"hex_int_literal", "bin_int_literal", "oct_int_literal"}
     /\ Put(local.kind, local.offset, length)
     /\ Return
     /\ UNCHANGED it
  \/ /\ local.kind = "dec_int_literal"
     /\ peek # "."
     /\ Put("dec_int_literal", local.offset, length)
     /\ Return
     /\ UNCHANGED it
  \/ /\ local.kind = "dec_int_literal"
     /\ peek = "."
     /\ Advance(1)
     /\ EnterDigits("float_literal", local.offset, it, length)
     /\ UNCHANGED tokens
  \/ /\ local.kind = "float_literal"
     /\ IF length > 1
        THEN Put("float_literal", local.offset, local.from - local.offset + length)
        ELSE tokens' = tokens \o <<Token("dec_int_literal", local.offset, local.int_length),
                                   Token("dot", local.from, 0)>>
     /\ Return
     /\ UNCHANGED it
  \/ /\ local.kind = "dot"
     /\ IF length > 1
        THEN Put("float_literal", local.offset, length)
        ELSE Put("dot", local.offset, 0)
     /\ Return
     /\ UNCHANGED it

ConsumeDigit ==
  /\ pc = "digits"
  /\ peek \in DigitSet(local.kind)
  /\ Advance(1)
  /\ UNCHANGED <<text, emit_comments, tokens, reports, pc, local>>

(* Whitespace may separate digits; the length up to here is kept in case it is trailing. *)
OpenDigitGap ==
  /\ pc = "digits"
  /\ peek \in AsciiWhitespace
  /\ Advance(1)
  /\ Enter("digit_gap", [local EXCEPT !.length = it - local.from])
  /\ UNCHANGED <<text, emit_comments, tokens, reports>>

EndDigits ==
  /\ pc = "digits"
  /\ peek \notin DigitSet(local.kind) \cup AsciiWhitespace
  /\ FinishDigits(it - local.from)
  /\ UNCHANGED <<text, emit_comments, reports>>

SkipDigitGap ==
  /\ pc = "digit_gap"
  /\ peek \in AsciiWhitespace
  /\ Advance(1)
  /\ UNCHANGED <<text, emit_comments, tokens, reports, pc, local>>

CloseDigitGap ==
  /\ pc = "digit_gap"
  /\ peek \in DigitSet(local.kind)
  /\ Advance(1)
  /\ Goto("digits")
  /\ UNCHANGED <<text, emit_comments, tokens, reports, local>>

(* Mistake: trailing whitespace counts towards the literal. *)
EndDigitGap_Untrimmed ==
  /\ pc = "digit_gap"
  /\ peek \notin DigitSet(local.kind) \cup AsciiWhitespace
  /\ FinishDigits(it - local.from)
  /\ UNCHANGED <<text, emit_comments, reports>>

EndDigitGap ==
  /\ pc = "digit_gap"
  /\ peek \notin DigitSet(local.kind) \cup AsciiWhitespace
  /\ FinishDigits(local.length)
  /\ UNCHANGED <<text, emit_comments, reports>>

-----------------------------------------------------------------------------
(* Operators *)

Alternative(chars, kind) == [chars |-> chars, kind |-> kind]

(***************************************************************************)
(* What the operator handlers try to match, handler by handler in the      *)
(* order of their matches, and the kind they then put.                     *)
(***************************************************************************)
Alternatives ==
  <<Alternative(<<"(">>, "l_paren"), Alternative(<<")">>, "r_paren"),
    Alternative(<<"[">>, "l_bracket"), Alternative(<<"]">>, "r_bracket"),
    Alternative(<<"{">>, "l_brace"), Alternative(<<"}">>, "r_brace"),
    Alternative(<<",">>, "comma"), Alternative(<<";">>, "semicolon"),
    Alternative(<<"^">>, "caret"),
    Alternative(<<"<", "<", "=">>, "l_angle_angle_eq"),
    Alternative(<<"<", "<">>, "l_angle_angle"), Alternative(<<"<", "=">>, "l_angle_eq"),
    Alternative(<<"<">>, "l_angle"),
    Alternative(<<">", ">", "=">>, "r_angle_angle_eq"), Alternative(<<">", ">">>, "r_angle"),
    Alternative(<<">", "=">>, "r_angle_eq"), Alternative(<<">">>, "r_angle"),
    Alternative(<<":", ":">>, "colon_colon"), Alternative(<<":">>, "colon"),
    Alternative(<<"=", "=">>, "eq_eq"), Alternative(<<"=", ">">>, "thick_arrow"),
    Alternative(<<"=">>, "eq"),
    Alternative(<<"+", "+">>, "plus_plus"), Alternative(<<"+", "=">>, "plus_eq"),
    Alternative(<<"+">>, "plus"),
    Alternative(<<"-", ">">>, "thin_arrow"), Alternative(<<"-", "-">>, "minus_minus"),
    Alternative(<<"-", "=">>, "minus_eq"), Alternative(<<"-">>, "minus"),
    Alternative(<<"*", "=">>, "star_eq"), Alternative(<<"*">>, "star"),
    Alternative(<<"/", "/">>, "line_comment"), Alternative(<<"/", "*">>, "block_comment"),
    Alternative(<<"/", "=">>, "slash_eq"), Alternative(<<"/">>, "slash"),
    Alternative(<<"%", "=">>, "percent_eq"), Alternative(<<"%">>, "percent"),
    Alternative(<<"&", "&", "=">>, "and_and_eq"), Alternative(<<"&", "&">>, "and_and"),
    Alternative(<<"&", "=">>, "ampersand_eq"), Alternative(<<"&">>, "ampersand"),
    Alternative(<<"|", "|", "=">>, "pipe_pipe_eq"), Alternative(<<"|", "|">>, "pipe_pipe"),
    Alternative(<<"|", "=">>, "pipe_eq"), Alternative(<<"|">>, "pipe"),
    Alternative(<<"~", "=">>, "tilde_eq"), Alternative(<<"~">>, "tilde"),
    Alternative(<<"!", "=">>, "bang_eq"), Alternative(<<"!">>, "bang")>>

(* Mistake: an alternative is taken although a longer one matches. *)
Matched_AnyOrder(i) == Follows(it, Alternatives[i].chars)

(* Alternative i is the first one whose characters follow. *)
Matched(i) ==
  /\ Follows(it, Alternatives[i].chars)
  /\ \A j \in 1..(i - 1) : ~Follows(it, Alternatives[j].chars)

(* What the handler does once it has matched: >> becomes two tokens, comments are scanned. *)
Act(chars, kind) ==
  CASE chars = <<">", ">">> ->
         /\ tokens' = tokens \o <<Token(kind, it, 0), Token(kind, it + 1, 0)>>
         /\ UNCHANGED <<pc, local>>
    [] kind \in CommentKind ->
         /\ Enter(kind, [NoLocals EXCEPT !.offset = it, !.kind = kind, !.unclosed_count = 1])
         /\ UNCHANGED tokens
    [] OTHER ->
         /\ Put(kind, it, 0)
         /\ UNCHANGED <<pc, local>>

on_operator ==
  /\ pc = "source"
  /\ \E i \in DOMAIN Alternatives :
       /\ Matched(i)
       /\ Advance(Len(Alternatives[i].chars))
       /\ Act(Alternatives[i].chars, Alternatives[i].kind)
  /\ UNCHANGED <<text, emit_comments, reports>>

-----------------------------------------------------------------------------
(* Comments *)

PutComment(end) ==
  IF emit_comments THEN Put(local.kind, local.offset, end - local.offset) ELSE UNCHANGED tokens

(* Mistake: the loop peeks without advancing. *)
ConsumeLineCommentChar_Stuck ==
  /\ pc = "line_comment"
  /\ peek \notin {"\n", NUL}
  /\ UNCHANGED vars

ConsumeLineCommentChar ==
  /\ pc = "line_comment"
  /\ peek \notin {"\n", NUL}
  /\ Advance(1)
  /\ UNCHANGED <<text, emit_comments, tokens, reports, pc, local>>

EndLineComment ==
  /\ pc = "line_comment"
  /\ peek \in {"\n", NUL}
  /\ PutComment(it)
  /\ Return
  /\ UNCHANGED <<text, emit_comments, it, reports>>

(* Mistake: the star of an opening delimiter is left, and may close with a slash. *)
NestBlockComment_LeavesStar ==
  /\ pc = "block_comment"
  /\ Follows(it, <<"/", "*">>)
  /\ Advance(1)
  /\ local' = [local EXCEPT !.unclosed_count = @ + 1]
  /\ UNCHANGED <<text, emit_comments, tokens, reports, pc>>

NestBlockComment ==
  /\ pc = "block_comment"
  /\ Follows(it, <<"/", "*">>)
  /\ Advance(2)
  /\ local' = [local EXCEPT !.unclosed_count = @ + 1]
  /\ UNCHANGED <<text, emit_comments, tokens, reports, pc>>

CloseBlockComment ==
  /\ pc = "block_comment"
  /\ Follows(it, <<"*", "/">>)
  /\ Advance(2)
  /\ IF local.unclosed_count = 1
     THEN PutComment(it + 2) /\ Return
     ELSE local' = [local EXCEPT !.unclosed_count = @ - 1] /\ UNCHANGED <<tokens, pc>>
  /\ UNCHANGED <<text, emit_comments, reports>>

ConsumeBlockCommentChar ==
  /\ pc = "block_comment"
  /\ valid
  /\ ~Follows(it, <<"/", "*">>)
  /\ ~Follows(it, <<"*", "/">>)
  /\ Advance(1)
  /\ UNCHANGED <<text, emit_comments, tokens, reports, pc, local>>

AbandonBlockComment ==
  /\ pc = "block_comment"
  /\ ~valid
  /\ Report("unterminated_block_comment", local.offset)
  /\ PutComment(it)
  /\ Return
  /\ UNCHANGED <<text, emit_comments, it>>

-----------------------------------------------------------------------------
(* String and character literals *)

QuoteKind == [q \in {"\"", "'"} |-> IF q = "'" THEN "char_literal" ELSE "string_literal"]

on_quote ==
  /\ pc = "source"
  /\ peek \in DOMAIN QuoteKind
  /\ Advance(1)
  /\ Enter("quote", [NoLocals EXCEPT !.offset = it, !.kind = QuoteKind[peek]])
  /\ UNCHANGED <<text, emit_comments, tokens, reports>>

(* The quote that closes the literal: the one that opened it, unless a backslash escapes it. *)
Closes(c) == c \in DOMAIN QuoteKind /\ QuoteKind[c] = local.kind /\ ~local.ignore_quote

(* Mistake: a backslash always escapes, even one that is itself escaped. *)
ConsumeQuotedChar_NoFlip ==
  /\ pc = "quote"
  /\ peek \notin {"\n", NUL}
  /\ ~Closes(peek)
  /\ Advance(1)
  /\ local' = [local EXCEPT !.ignore_quote = peek = "\\"]
  /\ UNCHANGED <<text, emit_comments, tokens, reports, pc>>

ConsumeQuotedChar ==
  /\ pc = "quote"
  /\ peek \notin {"\n", NUL}
  /\ ~Closes(peek)
  /\ Advance(1)
  /\ local' = [local EXCEPT !.ignore_quote = peek = "\\" /\ ~@]
  /\ UNCHANGED <<text, emit_comments, tokens, reports, pc>>

CloseQuote ==
  /\ pc = "quote"
  /\ Closes(peek)
  /\ Advance(1)
  /\ Put(local.kind, local.offset, it + 1 - local.offset)
  /\ Return
  /\ UNCHANGED <<text, emit_comments, reports>>

(* Mistake: a newline ends the literal like its closing quote does. *)
AbandonQuote_Silent ==
  /\ pc = "quote"
  /\ peek \in {"\n", NUL}
  /\ Put(local.kind, local.offset, it - local.offset)
  /\ Return
  /\ UNCHANGED <<text, emit_comments, it, reports>>

(* The literal stops before a newline, with a report, or before a NUL, without one. *)
AbandonQuote ==
  /\ pc = "quote"
  /\ peek \in {"\n", NUL}
  /\ IF peek = "\n" THEN Report("missing_closing_quote", it) ELSE UNCHANGED reports
  /\ Put(local.kind, local.offset, it - local.offset)
  /\ Return
  /\ UNCHANGED <<text, emit_comments, it>>

-----------------------------------------------------------------------------
(* on_other_char: characters outside ASCII, and ASCII ones without a meaning *)

StartWordUtf8 ==
  /\ pc = "source"
  /\ peek \in NonAscii
  /\ AcceptedBy(XidStart, it)
  /\ Advance(Utf8Width(it))
  /\ Enter("word", [NoLocals EXCEPT !.offset = it])
  /\ UNCHANGED <<text, emit_comments, tokens, reports>>

(* Mistake: the cursor is reported after it has moved. *)
RejectChar_LateOffset ==
  /\ pc = "source"
  /\ peek \in StrayAscii \cup NonAscii
  /\ ~AcceptedBy(XidStart, it)
  /\ Advance(Utf8Width(it))
  /\ Report("invalid_character", it + Utf8Width(it))
  /\ UNCHANGED <<text, emit_comments, tokens, pc, local>>

RejectChar ==
  /\ pc = "source"
  /\ peek \in StrayAscii \cup NonAscii
  /\ ~AcceptedBy(XidStart, it)
  /\ Advance(Utf8Width(it))
  /\ Report("invalid_character", it)
  /\ UNCHANGED <<text, emit_comments, tokens, pc, local>>

-----------------------------------------------------------------------------
(* run_lexer has returned. *)
Returned == pc = "done" /\ UNCHANGED vars

Init ==
  /\ text \in Sources
  /\ emit_comments \in BOOLEAN
  /\ it = 0
  /\ tokens = <<>>
  /\ reports = <<>>
  /\ pc = "run"
  /\ local = NoLocals

RunStep == RefuseSource \/ StartSource

DispatchStep ==
  \/ EndSource \/ SkipWhitespace \/ on_alphabetic \/ on_zero \/ on_nonzero \/ on_dot
  \/ on_operator \/ on_quote \/ StartWordUtf8 \/ RejectChar

WordStep == ConsumeIdentifierChar \/ EndWord \/ ContinueWordUtf8 \/ BreakWordUtf8

DigitStep ==
  \/ ConsumeDigit \/ OpenDigitGap \/ EndDigits
  \/ SkipDigitGap \/ CloseDigitGap \/ EndDigitGap

CommentStep ==
  \/ ConsumeLineCommentChar \/ EndLineComment
  \/ NestBlockComment \/ CloseBlockComment \/ ConsumeBlockCommentChar \/ AbandonBlockComment

QuoteStep == ConsumeQuotedChar \/ CloseQuote \/ AbandonQuote

Next == RunStep \/ DispatchStep \/ WordStep \/ DigitStep \/ CommentStep \/ QuoteStep \/ Returned

(* run_lexer is a sequential call: it keeps executing until it returns. *)
Spec == Init /\ [][Next]_vars /\ WF_vars(Next)
=============================================================================
