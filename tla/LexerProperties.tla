-------------------------- MODULE LexerProperties --------------------------
(***************************************************************************)
(* What is expected of the token list and of the reports the lexer leaves. *)
(* The properties describe the list by the text it was made from, without  *)
(* looking at how the handlers of Lexer got there.                         *)
(***************************************************************************)
EXTENDS Lexer, Integers

LocalsType ==
  [offset : Nat, kind : TokenKind, may_be_keyword : BOOLEAN, from : Nat,
   int_length : Nat, length : Nat, unclosed_count : Nat, ignore_quote : BOOLEAN]

(***************************************************************************)
(* The types of the variables; in particular the cursor never moves past   *)
(* the end, so the debug assertion of SourceCursor::advance never fails.   *)
(***************************************************************************)
TypeOK ==
  /\ text \in Seq(Byte)
  /\ emit_comments \in BOOLEAN
  /\ it \in 0..Len(text)
  /\ tokens \in Seq(TokenType)
  /\ reports \in Seq([message : Message, offset : 0..Len(text)])
  /\ pc \in {"run", "source", "done"} \cup Loop
  /\ local \in LocalsType

-----------------------------------------------------------------------------
(* The part of the text a token stands for. *)

KeywordLexeme(kind) == (CHOOSE kw \in keywords : kw.kind = kind).lexeme

Width(token) ==
  CASE token.kind \in VariableLengthKind -> token.variable_length
    [] token.kind \in PunctuationKind    -> Len(Lexeme[token.kind])
    [] token.kind \in KeywordKind        -> Len(KeywordLexeme(token.kind))
    [] token.kind = "end_of_file"        -> 0

End(token) == token.offset + Width(token)

TextOf(token) == SubSeq(text, token.offset + 1, End(token))

TokensOf(kinds) == {i \in 1..Len(tokens) : tokens[i].kind \in kinds}

Reported(message, offset) ==
  \E i \in 1..Len(reports) : reports[i] = [message |-> message, offset |-> offset]

Refused == Reported("source_file_too_large", 0)

(* Offsets p <= q with nothing but whitespace between them. *)
OnlyWhitespace(p, q) == \A k \in p..(q - 1) : ByteAt(k) \in AsciiWhitespace

(* The first character from offset p on that is not whitespace is none of these. *)
NotFollowedBy(p, chars) ==
  \E q \in p..Len(text) : OnlyWhitespace(p, q) /\ ByteAt(q) \notin AsciiWhitespace \cup chars

-----------------------------------------------------------------------------
(* Each token of the list starts after the start and not before the end of the ones before it. *)
Ordered(list) ==
  \A i \in 1..Len(list), j \in 1..Len(list) :
    i < j => list[i].offset < list[j].offset /\ End(list[i]) <= list[j].offset

(***************************************************************************)
(* Tokens appear in source order and no byte belongs to two of them, be    *)
(* they words, literals, keywords or punctuation: the parser relies on it  *)
(* when it compares the offsets of neighbours to find a shift.  An offset  *)
(* cut to 24 bits by the Token constructor would break it, and so would a  *)
(* handler that puts more than the cursor has passed.                      *)
(***************************************************************************)
TokensInOrder == Ordered(tokens)

(***************************************************************************)
(* The list gets an end_of_file token when the lexer is done and not       *)
(* before, and it is the last token and the only one of its kind:          *)
(* TokenCursor knows no other way to stop.                                 *)
(***************************************************************************)
EndsOnce ==
  /\ pc = "done" <=> TokensOf({"end_of_file"}) # {}
  /\ TokensOf({"end_of_file"}) \subseteq {Len(tokens)}

(***************************************************************************)
(* Reports arrive in source order and no offset is reported twice.         *)
(***************************************************************************)
ReportsInOrder ==
  \A i \in 1..Len(reports), j \in 1..Len(reports) :
    i < j => reports[i].offset < reports[j].offset

(* The byte at offset p is whitespace, belongs to a token or to a character that was reported. *)
Accounted(p) ==
  \/ ByteAt(p) \in AsciiWhitespace
  \/ \E i \in 1..Len(tokens) : p \in tokens[i].offset..(End(tokens[i]) - 1)
  \/ \E i \in 1..Len(reports) :
       /\ reports[i].message = "invalid_character"
       /\ p \in reports[i].offset..(reports[i].offset + Utf8Width(reports[i].offset) - 1)

(***************************************************************************)
(* Nothing of the text disappears silently.  When comments are emitted,    *)
(* each byte before the end is accounted for; and the lexer stops early    *)
(* only at a NUL it reports.                                               *)
(***************************************************************************)
NothingLost ==
  pc = "done" /\ ~Refused =>
    /\ emit_comments => \A p \in 0..(it - 1) : Accounted(p)
    /\ it = Len(text) \/ (ByteAt(it) = NUL /\ Reported("invalid_character", it))

-----------------------------------------------------------------------------
(***************************************************************************)
(* A keyword token stands exactly where a whole word spells the keyword:   *)
(* comparing eight bytes of the tail as an integer must neither take a     *)
(* longer word for a keyword nor miss one.                                 *)
(***************************************************************************)
KeywordsExact ==
  /\ \A i \in TokensOf(KeywordKind) :
       /\ Follows(tokens[i].offset, KeywordLexeme(tokens[i].kind))
       /\ ByteAt(End(tokens[i])) \in Ascii \ AsciiIdentifierChar
  /\ \A i \in TokensOf({"identifier"}) : \A kw \in keywords : TextOf(tokens[i]) # kw.lexeme

(* The character at offset p may stand in the word that begins at offset o. *)
WordChar(o, p) ==
  IF p = o THEN ByteAt(p) \in AsciiIdentifierChar \ DecimalDigit \/ AcceptedBy(XidStart, p)
           ELSE ByteAt(p) \in AsciiIdentifierChar \/ AcceptedBy(XidContinue, p)

(* The multi-byte character at offset p may not continue a word and was reported. *)
RefusedChar(p) ==
  ByteAt(p) \in NonAscii /\ ~AcceptedBy(XidContinue, p) /\ Reported("invalid_character", p)

(***************************************************************************)
(* The word from offset o up to offset e is the characters that begin at   *)
(* the offsets in starts, one directly after the other.  Each of them may  *)
(* stand in a word, but for a refused one after the first, which is the    *)
(* last.                                                                   *)
(***************************************************************************)
WordChars(starts, o, e) ==
  /\ o \in starts
  /\ \A p \in starts :
       /\ p + Utf8Width(p) \in starts \cup {e}
       /\ WordChar(o, p) \/ (p # o /\ RefusedChar(p) /\ p + Utf8Width(p) = e)
  /\ \/ ByteAt(e) \in Ascii \ AsciiIdentifierChar
     \/ \E p \in starts : RefusedChar(p) /\ p + Utf8Width(p) = e

(* The word that token t stands for. *)
WordWhole(t) == \E starts \in SUBSET (t.offset..(End(t) - 1)) : WordChars(starts, t.offset, End(t))

(***************************************************************************)
(* A word is taken whole: it is a letter, an underscore or a character of  *)
(* XID_Start, then characters that XID_Continue or ASCII lets continue an  *)
(* identifier, and it ends before an ASCII character that does not.  The   *)
(* one exception is a multi-byte character outside XID_Continue: it is     *)
(* reported, and it is the last one of the word.                           *)
(***************************************************************************)
WordsWhole == \A i \in TokensOf({"identifier"} \cup KeywordKind) : WordWhole(tokens[i])

(* The offsets of the dots in the text of a token. *)
Dots(t) == {p \in t.offset..(End(t) - 1) : ByteAt(p) = "."}

(* The letter after the leading zero, which names the radix. *)
RadixLetter == [hex_int_literal |-> "x", bin_int_literal |-> "b", oct_int_literal |-> "o"]

(* A numeric literal of the given kind may begin at offset o. *)
NumberStart(kind, o) ==
  CASE kind = "dec_int_literal" -> ByteAt(o) \in DecimalDigit
    [] kind = "float_literal"   -> ByteAt(o) \in DecimalDigit \cup {"."}
    [] OTHER -> ByteAt(o) = "0" /\ ByteAt(o + 1) = RadixLetter[kind]

(***************************************************************************)
(* The byte at offset p may stand in a literal of the given kind that      *)
(* begins at offset o; the radix letter is a matter of its start.          *)
(***************************************************************************)
NumberByte(kind, o, p) ==
  \/ ByteAt(p) \in DigitSet(kind) \cup AsciiWhitespace
  \/ kind \in DOMAIN RadixLetter /\ p = o + 1
  \/ kind = "float_literal" /\ ByteAt(p) = "."

(* The numeric literal or the dot that token t stands for. *)
NumberWhole(t) ==
  /\ t.kind \in NumericKind =>
       /\ NumberStart(t.kind, t.offset)
       /\ \A p \in t.offset..(End(t) - 1) : NumberByte(t.kind, t.offset, p)
       /\ ByteAt(End(t) - 1) \notin AsciiWhitespace
       /\ NotFollowedBy(End(t), DigitSet(t.kind))
  /\ t.kind = "float_literal" =>
       /\ \E p \in t.offset..(End(t) - 1) : Dots(t) = {p}
       /\ ByteAt(End(t) - 1) \in DecimalDigit
  /\ t.kind = "dot" => NotFollowedBy(End(t), DecimalDigit)

(***************************************************************************)
(* A numeric literal is its digits, after 0 and the radix letter where it  *)
(* has one, and any whitespace between them; a float has one dot, which    *)
(* may come first and never comes last.  The literal ends before trailing  *)
(* whitespace, takes every digit that follows, and a dot belongs to it     *)
(* exactly when a digit follows the dot.                                   *)
(***************************************************************************)
NumbersWhole == \A i \in TokensOf(NumericKind \cup {"dot"}) : NumberWhole(tokens[i])

(* The punctuation that token t stands for; which > are single is a matter of its own. *)
LongestMatch(t) ==
  /\ Follows(t.offset, Lexeme[t.kind])
  /\ t.kind # "r_angle" =>
       \A k \in PunctuationKind : Follows(t.offset, Lexeme[k]) => Len(Lexeme[k]) <= Width(t)
  /\ t.kind = "slash" => ByteAt(End(t)) \notin {"/", "*"}

(***************************************************************************)
(* The tokens in firsts are the first halves of the >> of the text, which  *)
(* are put as two r_angle tokens; no = follows such a pair.  Any other     *)
(* r_angle token is a > that is followed by neither > nor =.               *)
(***************************************************************************)
AnglesPaired(firsts) ==
  \A i \in TokensOf({"r_angle"}) :
    IF i \in firsts
    THEN /\ i + 1 \in TokensOf({"r_angle"}) \ firsts
         /\ tokens[i + 1].offset = End(tokens[i])
         /\ ByteAt(End(tokens[i + 1])) # "="
    ELSE i - 1 \in firsts \/ ByteAt(End(tokens[i])) \notin {">", "="}

(***************************************************************************)
(* A punctuation token is spelled by the text at its offset and no longer  *)
(* punctuation or comment begins there.  The exception is >>, which is     *)
(* split in two for the parser: a run of > is cut into pairs from the      *)
(* left, so that >>= is one token and >>>= is > and > and >=.              *)
(***************************************************************************)
MaximalMunch ==
  /\ \A i \in TokensOf(PunctuationKind) : LongestMatch(tokens[i])
  /\ \E firsts \in SUBSET TokensOf({"r_angle"}) : AnglesPaired(firsts)

-----------------------------------------------------------------------------
(* The offset after the comment delimiter or the character at offset p. *)
AfterMark(p) == IF Follows(p, <<"/", "*">>) \/ Follows(p, <<"*", "/">>) THEN p + 2 ELSE p + 1

(* The offsets from o on that are directly followed by offset p, where depth is known. *)
Marks(depth, o, p) == {q \in o..(p - 1) : AfterMark(q) = p /\ depth[q] >= 0}

(* What the delimiter at offset q, if there is one, adds to the depth. *)
Deepens(q) == IF Follows(q, <<"/", "*">>) THEN 1 ELSE IF Follows(q, <<"*", "/">>) THEN -1 ELSE 0

(* The depth of offset p, by the depths of the offsets before it. *)
DepthAt(depth, o, p) ==
  IF p = o THEN 0
  ELSE IF Marks(depth, o, p) = {} THEN -1
  ELSE LET q == CHOOSE q \in Marks(depth, o, p) : TRUE IN depth[q] + Deepens(q)

(***************************************************************************)
(* How deeply the offsets of the text lie in the block comment that begins *)
(* at offset o; -1 for an offset inside a delimiter.                       *)
(***************************************************************************)
Nesting(o) == LET depth[p \in o..Len(text)] == DepthAt(depth, o, p) IN depth

(* The comment that token t stands for. *)
CommentBalanced(t) ==
  LET depth == Nesting(t.offset)
  IN  /\ \A p \in (t.offset + 1)..(End(t) - 1) : depth[p] # 0
      /\ \/ depth[End(t)] = 0 /\ ~Reported("unterminated_block_comment", t.offset)
         \/ /\ depth[End(t)] # 0 /\ End(t) = Len(text)
            /\ Reported("unterminated_block_comment", t.offset)

(***************************************************************************)
(* A block comment ends exactly where its nested comments are all closed;  *)
(* when the text ends first the comment is reported, and only then.        *)
(***************************************************************************)
CommentsBalanced == \A i \in TokensOf({"block_comment"}) : CommentBalanced(tokens[i])

(* An odd number of backslashes stands directly before offset p, after offset o. *)
Escaped(o, p) ==
  \E n \in 1..(p - o - 1) :
    /\ n % 2 = 1
    /\ \A k \in 1..n : ByteAt(p - k) = "\\"
    /\ n = p - o - 1 \/ ByteAt(p - n - 1) # "\\"

(* The quote at offset p ends the literal that begins at offset o. *)
EndsQuote(o, p) == ByteAt(p) = ByteAt(o) /\ ~Escaped(o, p)

(* The literal that token t stands for. *)
QuoteClosed(t) ==
  /\ \A p \in (t.offset + 1)..(End(t) - 2) : ~EndsQuote(t.offset, p)
  /\ \A p \in t.offset..(End(t) - 1) : ByteAt(p) \notin {"\n", NUL}
  /\ \/ Width(t) >= 2 /\ EndsQuote(t.offset, End(t) - 1)
     \/ ByteAt(End(t)) = "\n" /\ Reported("missing_closing_quote", End(t))
     \/ ByteAt(End(t)) = NUL

(***************************************************************************)
(* A string or character literal ends at the first matching quote that an  *)
(* odd run of backslashes does not escape; without one it ends before the  *)
(* newline, which is reported, or at a NUL or the end of the text.         *)
(***************************************************************************)
QuotesClosed == \A i \in TokensOf(QuotedKind) : QuoteClosed(tokens[i])

-----------------------------------------------------------------------------
(***************************************************************************)
(* Every handler moves the cursor on or leaves its loop, so run_lexer      *)
(* returns for every text.                                                 *)
(***************************************************************************)
Termination == <>(pc = "done")

-----------------------------------------------------------------------------
(* What comments in the source say and the code does not do. *)

(***************************************************************************)
(* The XID_Continue property "decides whether a character should be        *)
(* allowed to continue a Unicode identifier" (unicode.hh): an identifier   *)
(* holds no character that was reported as invalid.                        *)
(***************************************************************************)
IdentifiersHoldNoRefusedChar ==
  \A i \in TokensOf({"identifier"}) :
    \A p \in tokens[i].offset..(End(tokens[i]) - 1) : ~Reported("invalid_character", p)
=============================================================================
