------------------------- MODULE LexerExtentProofs -------------------------
(***************************************************************************)
(* Proofs that words, keywords, literals, numbers, punctuation and         *)
(* comments stand for exactly the text they should, and that no byte is    *)
(* lost between them, for every text and every keyword table.              *)
(*                                                                         *)
(* A token is put when its handler returns, by a comparison or a length.   *)
(* What it must be is a matter of all the bytes since the handler began,   *)
(* so the invariant says of the loops what is known about these bytes.     *)
(***************************************************************************)
EXTENDS LexerProofs

(* Well-founded relations; only that < is one on the natural numbers is used. *)
W == INSTANCE WellFoundedInduction

(* What is proved of a single token, by the text and the reports. *)
TokenOK(t) ==
  /\ t.kind \in KeywordKind =>
       /\ Follows(t.offset, KeywordLexeme(t.kind))
       /\ ByteAt(End(t)) \in Ascii \ AsciiIdentifierChar
  /\ t.kind = "identifier" => \A kw \in keywords : TextOf(t) # kw.lexeme
  /\ t.kind \in {"identifier"} \cup KeywordKind => WordWhole(t)
  /\ t.kind \in QuotedKind => QuoteClosed(t)

Sound == {t \in TokenType : TokenOK(t)}

(* A word that goes on: its characters from offset o up to offset e all may stand in it. *)
WordSoFar(starts, o, e) ==
  /\ o \in starts
  /\ \A p \in starts : WordChar(o, p) /\ p + Utf8Width(p) \in starts \cup {e}

(* Byte by byte: what is no identifier character in ASCII comes after a byte outside it. *)
WordBytes(o, e) ==
  \A p \in o..(e - 1) : ByteAt(p) \in AsciiIdentifierChar \/ \E q \in o..p : ByteAt(q) \in NonAscii

(* While consume_word runs. *)
WordInv ==
  /\ \E starts \in SUBSET (local.offset..(it - 1)) : WordSoFar(starts, local.offset, it)
  /\ WordBytes(local.offset, it)
  /\ ~local.may_be_keyword => KeywordsFor(ByteAt(local.offset)) = {}

(* The backslashes that stand directly before offset p, after offset o, are m. *)
Backslashes(o, p, m) ==
  /\ m \in 0..(p - o - 1)
  /\ \A k \in 1..m : ByteAt(p - k) = "\\"
  /\ m = p - o - 1 \/ ByteAt(p - m - 1) # "\\"

(* While the loop of on_quote runs: ignore_quote is the parity of the backslashes before the cursor. *)
QuoteInv ==
  /\ ByteAt(local.offset) \in DOMAIN QuoteKind
  /\ local.kind = QuoteKind[ByteAt(local.offset)]
  /\ \A p \in (local.offset + 1)..(it - 1) : ~EndsQuote(local.offset, p)
  /\ \A p \in local.offset..(it - 1) : ByteAt(p) \notin {"\n", NUL}
  /\ \E m \in Nat : Backslashes(local.offset, it, m) /\ (local.ignore_quote <=> m % 2 = 1)

EInv ==
  /\ tokens \in Seq(Sound)
  /\ pc = "word" => WordInv
  /\ pc = "quote" => QuoteInv
  /\ pc \in CommentKind => local.kind = pc

-----------------------------------------------------------------------------
(* Steps and what they leave as it is *)

(* The text does not change and reports are only added. *)
LEMMA ReportsGrow ==
  ASSUME Next
  PROVE  text' = text /\ (reports' = reports \/ \E r : reports' = Append(reports, r))
<1> USE DEF Report
<1>1. CASE RunStep
  BY <1>1 DEF RunStep, RefuseSource, StartSource
<1>2. CASE DispatchStep
  BY <1>2 DEF DispatchStep, EndSource, SkipWhitespace, on_alphabetic, on_zero, on_nonzero, on_dot,
     on_operator, on_quote, StartWordUtf8, RejectChar
<1>3. CASE WordStep
  BY <1>3 DEF WordStep, ConsumeIdentifierChar, EndWord, ContinueWordUtf8, BreakWordUtf8
<1>4. CASE DigitStep
  BY <1>4 DEF DigitStep, ConsumeDigit, OpenDigitGap, EndDigits, SkipDigitGap, CloseDigitGap, EndDigitGap
<1>5. CASE CommentStep
  BY <1>5 DEF CommentStep, ConsumeLineCommentChar, EndLineComment, NestBlockComment,
     CloseBlockComment, ConsumeBlockCommentChar, AbandonBlockComment
<1>6. CASE QuoteStep
  BY <1>6 DEF QuoteStep, ConsumeQuotedChar, CloseQuote, AbandonQuote
<1>7. CASE Returned
  BY <1>7 DEF Returned, vars
<1> QED
  BY <1>1, <1>2, <1>3, <1>4, <1>5, <1>6, <1>7 DEF Next

(* What has been reported stays reported. *)
LEMMA ReportedStays ==
  ASSUME IInv, Next, NEW message, NEW offset, Reported(message, offset)
  PROVE  Reported(message, offset)'
<1>1. PICK i \in 1..Len(reports) : reports[i] = [message |-> message, offset |-> offset]
  BY DEF Reported
<1>2. reports \in Seq(ReportType)
  BY DEF IInv, TypeOK, ReportType
<1>3. Len(reports) \in Nat /\ i \in 1..Len(reports') /\ reports'[i] = reports[i]
  BY <1>2, ReportsGrow
<1> QED
  BY <1>1, <1>3 DEF Reported

(* What is being reported has been reported then. *)
LEMMA ReportIsMade ==
  ASSUME IInv, NEW message \in Message, NEW offset \in 0..Len(text), Report(message, offset)
  PROVE  Reported(message, offset)'
<1> DEFINE r == [message |-> message, offset |-> offset]
<1>1. reports \in Seq(ReportType) /\ r \in ReportType
  BY DEF IInv, TypeOK, ReportType
<1>2. reports' = Append(reports, r)
  BY DEF Report
<1> HIDE DEF r
<1>3. Len(reports') \in 1..Len(reports') /\ reports'[Len(reports')] = r
  BY <1>1, <1>2
<1> QED
  BY <1>3 DEF Reported, r

(* The characters of the text, where it does not change. *)
LEMMA SameChars ==
  ASSUME text' = text, NEW p
  PROVE  /\ ByteAt(p)' = ByteAt(p)
         /\ Utf8Width(p)' = Utf8Width(p)
         /\ AcceptedBy(XidContinue, p)' <=> AcceptedBy(XidContinue, p)
         /\ \A o : WordChar(o, p)' <=> WordChar(o, p)
<1>1. ByteAt(p)' = ByteAt(p) /\ Utf8Width(p)' = Utf8Width(p) /\ Utf8Char(p)' = Utf8Char(p)
  BY DEF ByteAt, Utf8Width, Utf8Char
<1>2. \A table : AcceptedBy(table, p)' <=> AcceptedBy(table, p)
  BY <1>1 DEF AcceptedBy
<1> QED
  BY <1>1, <1>2 DEF WordChar

(* A word that was taken whole. *)
LEMMA WordStays ==
  ASSUME text' = text, NEW t, WordWhole(t),
         \A r : Reported("invalid_character", r) => Reported("invalid_character", r)'
  PROVE  WordWhole(t)'
<1>1. PICK starts \in SUBSET (t.offset..(End(t) - 1)) : WordChars(starts, t.offset, End(t))
  BY DEF WordWhole
<1>2. PICK o, e : o = t.offset /\ e = End(t)
  OBVIOUS
<1>3. \A p : RefusedChar(p) => RefusedChar(p)'
  BY SameChars DEF RefusedChar
<1>4. o \in starts
  BY <1>1, <1>2 DEF WordChars
<1>5. \A p \in starts : Utf8Width(p)' = Utf8Width(p) /\ (WordChar(o, p)' <=> WordChar(o, p))
  BY SameChars
<1>6. \A p \in starts : /\ p + Utf8Width(p)' \in starts \cup {e}
                        /\ \/ WordChar(o, p)'
                           \/ p # o /\ RefusedChar(p)' /\ p + Utf8Width(p)' = e
  BY <1>1, <1>2, <1>3, <1>5 DEF WordChars
<1>7. \/ ByteAt(e)' \in Ascii \ AsciiIdentifierChar
      \/ \E p \in starts : RefusedChar(p)' /\ p + Utf8Width(p)' = e
  <2>1. ByteAt(e)' = ByteAt(e)
    BY SameChars
  <2> QED
    BY <1>1, <1>2, <1>3, <1>5, <2>1 DEF WordChars
<1>8. WordChars(starts, o, e)'
  BY <1>4, <1>6, <1>7 DEF WordChars
<1>9. End(t)' = e
  BY <1>2 DEF End, Width, KeywordLexeme
<1> QED
  BY <1>1, <1>2, <1>8, <1>9 DEF WordWhole

(* Tokens that were sound stay so. *)
LEMMA SoundGrows ==
  ASSUME IInv, Next
  PROVE  Sound \subseteq Sound'
<1> SUFFICES ASSUME NEW t \in TokenType, TokenOK(t)
             PROVE  TokenOK(t)'
  BY DEF Sound
<1>1. text' = text
  BY ReportsGrow
<1>2. t.kind \in KeywordKind => /\ Follows(t.offset, KeywordLexeme(t.kind))'
                                /\ ByteAt(End(t))' \in Ascii \ AsciiIdentifierChar
  BY <1>1 DEF TokenOK, Follows, ByteAt, End, Width, KeywordLexeme
<1>3. t.kind = "identifier" => \A kw \in keywords : TextOf(t)' # kw.lexeme
  BY <1>1 DEF TokenOK, TextOf
<1>4. WordWhole(t) => WordWhole(t)'
  <2>1. \A r : Reported("invalid_character", r) => Reported("invalid_character", r)'
    BY ReportedStays
  <2> QED
    BY <1>1, <2>1, WordStays, Zenon
<1>5. QuoteClosed(t) => QuoteClosed(t)'
  <2>1. \A r : Reported("missing_closing_quote", r) => Reported("missing_closing_quote", r)'
    BY ReportedStays
  <2> QED
    BY <1>1, <2>1 DEF QuoteClosed, EndsQuote, Escaped, ByteAt
<1> QED
  BY <1>2, <1>3, <1>4, <1>5 DEF TokenOK

(* The list so far. *)
LEMMA ListStays ==
  ASSUME IInv, Next, tokens \in Seq(Sound)
  PROVE  tokens \in Seq(Sound')
<1>1. \A i \in 1..Len(tokens) : tokens[i] \in Sound'
  BY SoundGrows
<1>2. Len(tokens) \in Nat /\ tokens = [i \in 1..Len(tokens) |-> tokens[i]]
  OBVIOUS
<1> QED
  BY <1>1, <1>2

(* Kinds of tokens about which nothing is said here. *)
OtherKind == TokenKind \ ({"identifier"} \cup KeywordKind \cup QuotedKind)

(* Such a token is sound, whatever the text. *)
LEMMA OtherSound ==
  ASSUME NEW kind \in OtherKind, NEW offset \in Nat, NEW length \in Nat
  PROVE  Token(kind, offset, length) \in Sound'
<1>1. PICK t : t = Token(kind, offset, length)
  OBVIOUS
<1>2. t \in TokenType /\ t.kind = kind
  BY <1>1, TokenIsTyped DEF OtherKind, Token
<1>3. TokenOK(t)'
  BY <1>2 DEF OtherKind, TokenOK
<1> QED
  BY <1>1, <1>2, <1>3 DEF Sound

-----------------------------------------------------------------------------
(* Words *)

(***************************************************************************)
(* A keyword whose encoded tail is that of the word is spelled by the      *)
(* word: zero bytes do not match what follows a shorter keyword, since a   *)
(* zero byte can only be in a word as part of a multi-byte character.      *)
(***************************************************************************)
LEMMA KeywordIsSpelled ==
  ASSUME text \in Seq(Byte), NEW o \in Nat, NEW e \in Nat, o < e, e <= Len(text),
         WordBytes(o, e), NEW kw \in KeywordsSpelled(o, e)
  PROVE  /\ kw \in keywords
         /\ Len(kw.lexeme) = e - o
         /\ \A i \in 1..(e - o) : text[o + i] = kw.lexeme[i]
<1>1. /\ kw \in keywords /\ kw.lexeme[1] = text[o + 1] /\ e - o <= TailWidth + 1
      /\ Encode(Tail(kw.lexeme)) = Encode(SubSeq(text, o + 2, e))
  BY DEF KeywordsSpelled, KeywordsFor
<1> DEFINE word == kw.lexeme
           n == Len(kw.lexeme) - 1
           m == e - o - 1
<1>2. /\ word \in Seq(LowerLetter) /\ n \in 0..TailWidth /\ m \in 0..TailWidth
      /\ TailWidth \in Nat /\ Len(word) = n + 1 /\ Len(text) \in Nat
  BY <1>1, KeywordsAssumption
<1>3. \A i \in 1..(n + 1) : word[i] \in LowerLetter
  BY <1>2
<1>4. ASSUME NEW i \in 1..TailWidth
      PROVE  (IF i <= n THEN word[i + 1] ELSE NUL) = (IF i <= m THEN text[o + 1 + i] ELSE NUL)
  <2>1. Len(word) > 0
    BY <1>2
  <2>2. Encode(Tail(word))[i] = IF i <= n THEN word[i + 1] ELSE NUL
    BY <1>2, <2>1, EncodedTail
  <2>3. Encode(SubSeq(text, o + 2, e))[i] = IF i <= m THEN text[o + 1 + i] ELSE NUL
    BY EncodedText
  <2> QED
    BY <1>1, <2>2, <2>3
<1> HIDE DEF word, n, m
<1>5. ~(n > m)
  BY <1>2, KeywordFits DEF word, n, m
<1>6. \A i \in 0..n : text[o + 1 + i] = word[i + 1]
  <2> SUFFICES ASSUME NEW i \in 0..n PROVE text[o + 1 + i] = word[i + 1]
    OBVIOUS
  <2>1. CASE i = 0
    BY <1>1, <2>1 DEF word
  <2>2. CASE i # 0
    BY <1>2, <1>4, <1>5, <2>2
  <2> QED
    BY <2>1, <2>2
<1>7. ~(m > n)
  <2> SUFFICES ASSUME m > n PROVE FALSE
    OBVIOUS
  <2>1. n + 1 \in 1..TailWidth /\ n + 1 <= m
    BY <1>2
  <2>2. text[o + 1 + (n + 1)] = NUL
    <3>1. ~(n + 1 <= n)
      BY <1>2
    <3> QED
      BY <1>4, <2>1, <3>1
  <2>3. o + n + 1 \in o..(e - 1) /\ o + n + 1 < Len(text) /\ o + n + 1 \in Nat
    BY <1>2, <2>1 DEF m
  <2>4. ByteAt(o + n + 1) = NUL
    BY <1>2, <2>2, <2>3 DEF ByteAt
  <2>5. PICK q \in o..(o + n + 1) : ByteAt(q) \in NonAscii
    BY <2>3, <2>4, Letters DEF WordBytes
  <2>6. q # o + n + 1
    BY <2>4, <2>5, Letters
  <2>7. q - o \in 0..n /\ q < Len(text) /\ o + 1 + (q - o) = q + 1
    BY <1>2, <2>3, <2>6
  <2>8. ByteAt(q) = word[q - o + 1]
    BY <1>6, <2>7 DEF ByteAt
  <2> QED
    BY <1>2, <1>3, <2>5, <2>7, <2>8, Letters
<1>8. Len(word) = e - o
  BY <1>2, <1>5, <1>7 DEF m
<1>9. ASSUME NEW i \in 1..(e - o) PROVE text[o + i] = word[i]
  <2>1. i - 1 \in 0..n /\ o + 1 + (i - 1) = o + i /\ (i - 1) + 1 = i
    BY <1>2, <1>8
  <2> QED
    BY <1>6, <2>1
<1> QED
  BY <1>1, <1>8, <1>9 DEF word

(* The word without its first character. *)
LEMMA TailOfWord ==
  ASSUME text \in Seq(Byte), NEW o \in Nat, NEW e \in Nat, o < e, e <= Len(text)
  PROVE  Tail(SubSeq(text, o + 1, e)) = SubSeq(text, o + 2, e)
<1>1. Len(text) \in Nat
  OBVIOUS
<1> QED
  BY <1>1

(***************************************************************************)
(* Put after a word, the token is an identifier that is no keyword or the  *)
(* keyword that the word spells.  The word ends at offset e, and starts    *)
(* are where its characters begin.                                         *)
(***************************************************************************)
LEMMA PutWordSound ==
  ASSUME IInv, pc = "word", WordInv, text' = text, NEW e \in Nat, it <= e, e <= Len(text),
         NEW o, o = local.offset, WordBytes(o, e), PutWord(o, local.may_be_keyword, e),
         NEW starts \in SUBSET (o..(e - 1)), WordChars(starts, o, e)'
  PROVE  \E t \in Sound' : tokens' = Append(tokens, t) /\ t.offset = o /\ End(t) = e
<1>1. o = local.offset
  OBVIOUS
<1>2. /\ o \in Nat /\ o < e /\ text \in Seq(Byte) /\ Len(text) \in Nat /\ o <= source_size_max
      /\ source_size_max \in Nat
  <2>1. pc \in Loop
    BY DEF Loop
  <2> QED
    BY <1>1, <2>1, AtFrontier DEF IInv, TypeOK
<1>3. ASSUME NEW kind \in {"identifier"} \cup KeywordKind, NEW length \in Nat,
             NEW t, t = Token(kind, o, length), End(t) = e
      PROVE  t \in TokenType /\ t.kind = kind /\ t.offset = o /\ WordWhole(t)'
  <2>1. kind \in TokenKind
    BY DEF TokenKind, VariableLengthKind
  <2>2. t \in TokenType /\ t.kind = kind /\ t.offset = o
    BY <1>2, <1>3, <2>1, TokenIsTyped, Unmasked DEF Token
  <2>3. End(t)' = e
    BY <1>3 DEF End, Width, KeywordLexeme
  <2> QED
    BY <2>2, <2>3 DEF WordWhole
<1> DEFINE spelled == IF local.may_be_keyword THEN KeywordsSpelled(o, e) ELSE {}
<1>4. CASE \E kw \in spelled : Put(kw.kind, o, 0)
  <2>1. PICK kw \in KeywordsSpelled(o, e) : Put(kw.kind, o, 0)
    BY <1>4
  <2>2. /\ kw \in keywords /\ Len(kw.lexeme) = e - o
        /\ \A i \in 1..(e - o) : text[o + i] = kw.lexeme[i]
    BY <1>1, <1>2, <2>1, KeywordIsSpelled
  <2>3. PICK t : t = Token(kw.kind, o, 0)
    OBVIOUS
  <2>4. kw.kind \in KeywordKind /\ kw.lexeme \in Seq(LowerLetter) /\ t.kind = kw.kind
        /\ KeywordLexeme(t.kind) = kw.lexeme /\ t.offset = o
    BY <1>2, <2>2, <2>3, KeywordsAssumption, LexemeOf, Unmasked DEF Token
  <2>5. End(t) = e
    BY <1>2, <2>2, <2>4, Widths DEF End
  <2>6. t \in TokenType /\ WordWhole(t)'
    BY <1>3, <2>3, <2>4, <2>5
  <2>7. Follows(o, kw.lexeme)
    BY <1>2, <2>2 DEF Follows
  <2>8. ByteAt(e) \in Ascii \ AsciiIdentifierChar
    <3>1. PICK r \in starts : ByteAt(e)' \in Ascii \ AsciiIdentifierChar \/ ByteAt(r)' \in NonAscii
      BY DEF WordChars, RefusedChar
    <3>2. ByteAt(e)' = ByteAt(e) /\ ByteAt(r)' = ByteAt(r) /\ r \in o..(e - 1)
      BY <1>1, SameChars
    <3>3. r - o + 1 \in 1..(e - o) /\ o + (r - o + 1) = r + 1 /\ r < Len(text)
      BY <1>2, <3>2
    <3>4. ByteAt(r) = kw.lexeme[r - o + 1]
      BY <2>2, <3>3 DEF ByteAt
    <3>5. kw.lexeme[r - o + 1] \in LowerLetter
      BY <2>2, <2>4, <3>3
    <3> QED
      BY <3>1, <3>2, <3>4, <3>5, Letters
  <2>9. Follows(t.offset, KeywordLexeme(t.kind))' /\ ByteAt(End(t))' \in Ascii \ AsciiIdentifierChar
    <3>1. Follows(t.offset, KeywordLexeme(t.kind))
      BY <2>4, <2>7
    <3>2. ByteAt(End(t)) \in Ascii \ AsciiIdentifierChar
      BY <2>5, <2>8
    <3> QED
      BY <3>1, <3>2 DEF Follows, ByteAt, End, Width, KeywordLexeme
  <2>10. t.kind # "identifier" /\ t.kind \notin QuotedKind
    BY <2>4 DEF KeywordKind, QuotedKind
  <2>11. TokenOK(t)'
    BY <2>6, <2>9, <2>10 DEF TokenOK
  <2> QED
    BY <1>1, <2>1, <2>3, <2>4, <2>5, <2>6, <2>11 DEF Put, Sound
<1>5. CASE spelled = {} /\ Put("identifier", o, e - o)
  <2>1. PICK t : t = Token("identifier", o, e - o)
    OBVIOUS
  <2>2. e - o \in Nat /\ t.kind = "identifier" /\ t.offset = o
    <3>1. o % (source_size_max + 1) = o
      BY <1>2, Unmasked, Zenon
    <3>2. e - o \in Nat
      BY <1>2
    <3> QED
      BY <2>1, <3>1, <3>2 DEF Token
  <2>3. End(t) = e
    <3>1. "identifier" \in VariableLengthKind
      BY DEF VariableLengthKind
    <3>2. End(Token("identifier", o, e - o)) = o + (e - o)
      BY <1>2, <2>2, <3>1, VariableEnds, Zenon
    <3> QED
      BY <1>2, <2>1, <3>2
  <2>4. t \in TokenType /\ WordWhole(t)'
    <3>1. "identifier" \in {"identifier"} \cup KeywordKind
      OBVIOUS
    <3> QED
      BY <1>3, <2>1, <2>2, <2>3, <3>1, Zenon
  <2>5. ASSUME NEW kw \in keywords, SubSeq(text, o + 1, e) = kw.lexeme PROVE FALSE
    <3>1. kw.lexeme \in Seq(LowerLetter) /\ Len(kw.lexeme) = e - o /\ kw.lexeme[1] = text[o + 1]
      <4>1. Len(SubSeq(text, o + 1, e)) = e - o /\ SubSeq(text, o + 1, e)[1] = text[o + 1]
        BY <1>2
      <4> QED
        BY <2>5, <4>1, KeywordsAssumption
    <3>2. ByteAt(o) = text[o + 1] /\ kw \in KeywordsFor(text[o + 1])
      BY <1>2, <2>5, <3>1 DEF ByteAt, KeywordsFor
    <3>3. local.may_be_keyword
      BY <1>1, <3>2 DEF WordInv
    <3>4. e - o <= TailWidth + 1
      BY <1>2, <3>1, KeywordsAssumption
    <3>5. Tail(SubSeq(text, o + 1, e)) = SubSeq(text, o + 2, e)
      BY <1>2, TailOfWord
    <3>6. kw \in KeywordsSpelled(o, e)
      BY <2>5, <3>2, <3>4, <3>5 DEF KeywordsSpelled
    <3> QED
      BY <1>5, <3>3, <3>6
  <2>6. \A kw \in keywords : TextOf(t)' # kw.lexeme
    <3>1. TextOf(t)' = SubSeq(text, o + 1, e)
      BY <2>2, <2>3 DEF TextOf, End, Width, KeywordLexeme
    <3> QED
      BY <2>5, <3>1
  <2>7. t.kind \notin KeywordKind /\ t.kind \notin QuotedKind
    BY <2>2 DEF KeywordKind, QuotedKind
  <2>8. TokenOK(t)'
    BY <2>4, <2>6, <2>7 DEF TokenOK
  <2> QED
    BY <1>1, <1>5, <2>1, <2>2, <2>3, <2>4, <2>8 DEF Put, Sound
<1> QED
  BY <1>1, <1>4, <1>5 DEF PutWord

(* A handler returns with a sound token. *)
LEMMA ReturnSound ==
  ASSUME IInv, EInv, Next, Return, \E t \in Sound' : tokens' = Append(tokens, t)
  PROVE  EInv'
<1>1. tokens' \in Seq(Sound')
  BY ListStays DEF EInv
<1>2. pc' # "word" /\ pc' # "quote" /\ pc' \notin CommentKind
  BY DEF Return, CommentKind
<1> QED
  BY <1>1, <1>2 DEF EInv

(* The bytes of a multi-byte character may be any. *)
LEMMA WordGoesOn ==
  ASSUME IInv, peek \in NonAscii, NEW o \in 0..it, WordBytes(o, it)
  PROVE  WordBytes(o, it + Utf8Width(it)) /\ Utf8Width(it) \in 1..(Len(text) - it)
<1>1. Utf8Width(it) \in 1..(Len(text) - it)
  BY CharClasses, Utf8WidthFits DEF IInv
<1>2. it \in Nat /\ Len(text) \in Nat
  BY TextLength DEF IInv
<1>3. PICK e : e = it + Utf8Width(it)
  OBVIOUS
<1>4. ASSUME NEW p \in o..(e - 1), ByteAt(p) \notin AsciiIdentifierChar
      PROVE  \E q \in o..p : ByteAt(q) \in NonAscii
  <2>1. CASE p < it
    BY <1>2, <1>4, <2>1 DEF WordBytes
  <2>2. CASE p >= it
    <3>1. it \in o..p /\ ByteAt(it) \in NonAscii
      BY <1>1, <1>2, <1>3, <2>2 DEF peek
    <3> QED
      BY <3>1
  <2> QED
    BY <1>1, <1>2, <1>3, <2>1, <2>2
<1>5. WordBytes(o, e)
  BY <1>4 DEF WordBytes
<1> QED
  BY <1>1, <1>3, <1>5

(* A character in ASCII is one byte. *)
LEMMA AsciiIsOneByte ==
  ASSUME IInv, peek \in AsciiIdentifierChar
  PROVE  Utf8Width(it) = 1 /\ it + 1 <= Len(text)
<1>1. peek # NUL /\ peek \notin NonAscii
  BY CharClasses, Letters
<1>2. it \in Nat /\ Len(text) \in Nat /\ it + 1 <= Len(text)
  BY <1>1, TextLength, PeekIsInText DEF IInv
<1>3. announced_width(peek) = 1
  BY <1>1 DEF announced_width, leading_ones
<1> QED
  BY <1>2, <1>3 DEF Utf8Width, peek

(* A character more of a word that goes on. *)
LEMMA WordGrows ==
  ASSUME IInv, NEW o \in 0..(it - 1), WordChar(o, it), Utf8Width(it) \in 1..(Len(text) - it),
         NEW starts \in SUBSET (o..(it - 1)), WordSoFar(starts, o, it)
  PROVE  \E more \in SUBSET (o..(it + Utf8Width(it) - 1)) : WordSoFar(more, o, it + Utf8Width(it))
<1>1. PICK p, e : p = it /\ e = it + Utf8Width(it)
  OBVIOUS
<1>2. p \in Nat /\ e \in Nat /\ o \in 0..(p - 1) /\ p < e /\ e = p + Utf8Width(p)
  BY <1>1, TextLength DEF IInv
<1>3. starts \cup {p} \in SUBSET (o..(e - 1))
  BY <1>1, <1>2
<1>4. WordSoFar(starts \cup {p}, o, e)
  BY <1>1, <1>2 DEF WordSoFar
<1> QED
  BY <1>1, <1>3, <1>4

(* What WordInv asks of the characters and bytes is a matter of the text. *)
LEMMA WordSoFarStays ==
  ASSUME text' = text, NEW starts, NEW o, NEW e
  PROVE  /\ WordSoFar(starts, o, e) => WordSoFar(starts, o, e)'
         /\ WordBytes(o, e) => WordBytes(o, e)'
<1>1. \A p : /\ ByteAt(p)' = ByteAt(p) /\ Utf8Width(p)' = Utf8Width(p)
             /\ WordChar(o, p) => WordChar(o, p)'
  BY SameChars
<1> QED
  BY <1>1 DEF WordSoFar, WordBytes

(* A word ends where its handler leaves the cursor. *)
LEMMA WordIsPut ==
  ASSUME IInv, EInv, EndWord \/ BreakWordUtf8
  PROVE  \E t \in Sound' : tokens' = Append(tokens, t) /\ t.offset = local.offset /\ End(t) = it'
<1>1. pc = "word" /\ WordInv /\ text' = text
  BY DEF EndWord, BreakWordUtf8, EInv
<1>2. PICK o, r : o = local.offset /\ r = it
  OBVIOUS
<1>3. o \in 0..r /\ o < r /\ r \in Nat /\ Len(text) \in Nat /\ r <= Len(text)
  BY <1>1, <1>2, AtFrontier DEF Loop
<1>4. WordBytes(o, r)
  BY <1>1, <1>2 DEF WordInv
<1>5. PICK starts \in SUBSET (o..(r - 1)) : WordSoFar(starts, o, r)
  BY <1>1, <1>2 DEF WordInv
<1>6. \A p : /\ ByteAt(p)' = ByteAt(p) /\ Utf8Width(p)' = Utf8Width(p)
             /\ AcceptedBy(XidContinue, p)' <=> AcceptedBy(XidContinue, p)
             /\ WordChar(o, p)' <=> WordChar(o, p)
  BY <1>1, SameChars
<1>7. CASE EndWord
  <2>1. /\ ByteAt(r) \in Ascii \ AsciiIdentifierChar /\ it' = it
        /\ PutWord(o, local.may_be_keyword, r)
    BY <1>2, <1>7 DEF EndWord, peek
  <2>2. WordChars(starts, o, r)'
    BY <1>5, <1>6, <2>1 DEF WordSoFar, WordChars
  <2>3. \E t \in Sound' : tokens' = Append(tokens, t) /\ t.offset = o /\ End(t) = r
    <3>1. o = local.offset /\ it <= r
      BY <1>2, <1>3
    <3> QED
      BY <1>1, <1>3, <1>4, <2>1, <2>2, <3>1, PutWordSound, Zenon
  <2> QED
    BY <1>2, <2>1, <2>3
<1>8. CASE BreakWordUtf8
  <2>1. /\ peek \in NonAscii /\ Report("invalid_character", it) /\ it' = it + Utf8Width(it)
        /\ PutWord(local.offset, local.may_be_keyword, it + Utf8Width(it))
        /\ ~AcceptedBy(XidContinue, it)
    BY <1>8 DEF BreakWordUtf8, Advance
  <2>2. PICK e : e = it + Utf8Width(it)
    OBVIOUS
  <2>3. /\ WordBytes(o, e) /\ Utf8Width(r) \in 1..(Len(text) - r)
        /\ PutWord(o, local.may_be_keyword, e)
    BY <1>2, <1>3, <1>4, <2>1, <2>2, WordGoesOn
  <2>4. /\ e \in Nat /\ r < e /\ e <= Len(text) /\ e = r + Utf8Width(r) /\ r \in 0..Len(text)
    BY <1>2, <1>3, <2>2, <2>3
  <2>5. Reported("invalid_character", r)'
    BY <1>2, <2>1, <2>4, ReportIsMade DEF Message
  <2>6. ByteAt(r) \in NonAscii /\ ~AcceptedBy(XidContinue, r)
    BY <1>2, <2>1 DEF peek
  <2>7. RefusedChar(r)'
    BY <1>6, <2>5, <2>6 DEF RefusedChar
  <2>8. PICK all : all = starts \cup {r}
    OBVIOUS
  <2>9. all \in SUBSET (o..(e - 1)) /\ r # o /\ r \in all /\ o \in all
    BY <1>3, <1>5, <2>4, <2>8 DEF WordSoFar
  <2>10. r + Utf8Width(r)' = e
    BY <1>6, <2>4
  <2>11. \A p \in all : /\ p + Utf8Width(p)' \in all \cup {e}
                        /\ \/ WordChar(o, p)'
                           \/ p # o /\ RefusedChar(p)' /\ p + Utf8Width(p)' = e
    <3> SUFFICES ASSUME NEW p \in all
                 PROVE  /\ p + Utf8Width(p)' \in all \cup {e}
                        /\ \/ WordChar(o, p)'
                           \/ p # o /\ RefusedChar(p)' /\ p + Utf8Width(p)' = e
      OBVIOUS
    <3>1. CASE p = r
      BY <2>7, <2>9, <2>10, <3>1
    <3>2. CASE p \in starts
      BY <1>5, <1>6, <2>8, <3>2 DEF WordSoFar
    <3> QED
      BY <2>8, <3>1, <3>2
  <2>12. WordChars(all, o, e)'
    BY <2>7, <2>9, <2>10, <2>11 DEF WordChars
  <2>13. \E t \in Sound' : tokens' = Append(tokens, t) /\ t.offset = o /\ End(t) = e
    <3>1. o = local.offset /\ it <= e
      BY <1>2, <1>3, <2>4
    <3> QED
      BY <1>1, <2>3, <2>4, <2>9, <2>12, <3>1, PutWordSound, Zenon
  <2> QED
    BY <1>2, <2>1, <2>2, <2>13
<1> QED
  BY <1>7, <1>8

(* Every iteration of consume_word, and what is put after it. *)
LEMMA WordStepExtent ==
  ASSUME IInv, EInv, WordStep
  PROVE  EInv'
<1>1. Next /\ pc = "word" /\ WordInv /\ text' = text
  BY ReportsGrow DEF Next, WordStep, ConsumeIdentifierChar, EndWord, ContinueWordUtf8, BreakWordUtf8, EInv
<1>2. PICK o : o = local.offset
  OBVIOUS
<1>3. o \in 0..(it - 1) /\ o \in 0..it /\ it \in Nat /\ Len(text) \in Nat /\ it <= Len(text)
  BY <1>1, <1>2, AtFrontier DEF Loop
<1>4. WordBytes(o, it) /\ (~local.may_be_keyword => KeywordsFor(ByteAt(o)) = {})
  BY <1>1, <1>2 DEF WordInv
<1>5. PICK starts \in SUBSET (o..(it - 1)) : WordSoFar(starts, o, it)
  BY <1>1, <1>2 DEF WordInv
<1>6. ASSUME pc' = "word", local' = local, tokens' = tokens, it' = it + Utf8Width(it),
             WordChar(o, it), Utf8Width(it) \in 1..(Len(text) - it), WordBytes(o, it')
      PROVE  EInv'
  <2>1. PICK e : e = it'
    OBVIOUS
  <2>2. \E more \in SUBSET (o..(e - 1)) : WordSoFar(more, o, e)
    BY <1>3, <1>5, <1>6, <2>1, WordGrows
  <2>3. PICK more \in SUBSET (o..(e - 1)) : WordSoFar(more, o, e)'
    BY <1>1, <2>2, WordSoFarStays
  <2>4. WordBytes(o, e)'
    BY <1>1, <1>6, <2>1, WordSoFarStays
  <2>5. local'.offset = o /\ (~local'.may_be_keyword => KeywordsFor(ByteAt(o))' = {})
    BY <1>1, <1>2, <1>4, <1>6 DEF ByteAt, KeywordsFor, WordInv
  <2>6. (\E all \in SUBSET (local.offset..(it - 1)) : WordSoFar(all, local.offset, it))'
    BY <2>1, <2>3, <2>5
  <2>7. WordBytes(local.offset, it)'
    BY <2>1, <2>4, <2>5 DEF WordBytes
  <2>8. WordInv'
    BY <2>5, <2>6, <2>7 DEF WordInv
  <2>9. tokens' \in Seq(Sound')
    BY <1>1, <1>6, ListStays DEF EInv
  <2> QED
    BY <1>6, <2>8, <2>9 DEF EInv, CommentKind
<1>7. CASE ConsumeIdentifierChar
  <2>1. it' = it + 1 /\ peek \in AsciiIdentifierChar
    BY <1>7 DEF ConsumeIdentifierChar, Advance
  <2>2. Utf8Width(it) = 1 /\ it + 1 <= Len(text)
    BY <2>1, AsciiIsOneByte
  <2>3. WordChar(o, it)
    BY <1>3, <2>1 DEF WordChar, peek
  <2>4. ASSUME NEW p \in o..(it' - 1)
        PROVE  ByteAt(p) \in AsciiIdentifierChar \/ \E q \in o..p : ByteAt(q) \in NonAscii
    <3>1. CASE p = it
      BY <2>1, <3>1 DEF peek
    <3>2. CASE p # it
      BY <1>3, <1>4, <2>1, <3>2 DEF WordBytes
    <3> QED
      BY <3>1, <3>2
  <2>5. WordBytes(o, it')
    BY <2>4 DEF WordBytes
  <2>6. it' = it + Utf8Width(it) /\ Utf8Width(it) \in 1..(Len(text) - it)
    BY <1>3, <2>1, <2>2
  <2> QED
    BY <1>6, <1>7, <2>3, <2>5, <2>6 DEF ConsumeIdentifierChar
<1>8. CASE EndWord \/ BreakWordUtf8
  <2>1. \E t \in Sound' : tokens' = Append(tokens, t)
    BY <1>8, WordIsPut
  <2> QED
    BY <1>1, <1>8, <2>1, ReturnSound DEF EndWord, BreakWordUtf8
<1>9. CASE ContinueWordUtf8
  <2>1. peek \in NonAscii /\ it' = it + Utf8Width(it) /\ AcceptedBy(XidContinue, it)
    BY <1>9 DEF ContinueWordUtf8, Advance
  <2>2. WordBytes(o, it') /\ Utf8Width(it) \in 1..(Len(text) - it)
    BY <1>3, <1>4, <2>1, WordGoesOn
  <2>3. WordChar(o, it)
    BY <1>3, <2>1 DEF WordChar
  <2> QED
    BY <1>6, <1>9, <2>1, <2>2, <2>3 DEF ContinueWordUtf8
<1> QED
  BY <1>7, <1>8, <1>9 DEF WordStep

(* The dispatch loop calls on_alphabetic, or on_other_char for a character that may begin a word. *)
LEMMA WordEntered ==
  ASSUME IInv, EInv, on_alphabetic \/ StartWordUtf8
  PROVE  EInv'
<1>1. Next /\ text' = text /\ tokens' = tokens /\ pc = "source" /\ pc' = "word"
  BY ReportsGrow DEF Next, DispatchStep, on_alphabetic, StartWordUtf8, Enter
<1>2. tokens' \in Seq(Sound')
  BY <1>1, ListStays DEF EInv
<1>3. it \in Nat /\ Len(text) \in Nat
  BY <1>1, AtSource
<1>4. PICK o, e : o = it /\ e = it'
  OBVIOUS
<1>5. ASSUME WordChar(o, o), WordBytes(o, e), local'.offset = o,
             e = o + Utf8Width(o), Utf8Width(o) \in 1..(Len(text) - o),
             ~local'.may_be_keyword => KeywordsFor(ByteAt(o)) = {}
      PROVE  EInv'
  <2>1. {o} \in SUBSET (o..(e - 1)) /\ WordSoFar({o}, o, e)
    BY <1>3, <1>4, <1>5 DEF WordSoFar
  <2>2. WordSoFar({o}, o, e)' /\ WordBytes(o, e)'
    BY <1>1, <1>5, <2>1, WordSoFarStays
  <2>3. local'.offset = o /\ (~local'.may_be_keyword => KeywordsFor(ByteAt(o))' = {})
    BY <1>1, <1>5 DEF ByteAt, KeywordsFor
  <2>4. (\E all \in SUBSET (local.offset..(it - 1)) : WordSoFar(all, local.offset, it))'
    BY <1>4, <2>1, <2>2, <2>3
  <2>5. WordBytes(local.offset, it)'
    BY <1>4, <2>2, <2>3 DEF WordBytes
  <2>6. WordInv'
    BY <2>3, <2>4, <2>5 DEF WordInv
  <2> QED
    BY <1>1, <1>2, <2>6 DEF EInv, CommentKind
<1>6. CASE on_alphabetic
  <2>1. /\ ByteAt(o) \in LowerLetter \cup UpperLetter \cup {"_"} /\ e = o + 1 /\ local'.offset = o
        /\ ~local'.may_be_keyword => KeywordsFor(ByteAt(o)) = {}
    <3>1. /\ peek \in LowerLetter \cup UpperLetter \cup {"_"} /\ it' = it + 1
          /\ local' = [NoLocals EXCEPT !.offset = it, !.may_be_keyword = KeywordsFor(peek) # {}]
      BY <1>6 DEF on_alphabetic, Advance, Enter
    <3>2. local'.offset = it /\ local'.may_be_keyword = (KeywordsFor(peek) # {})
      BY <3>1 DEF NoLocals
    <3> QED
      BY <1>4, <3>1, <3>2 DEF peek
  <2>2. ByteAt(o) \in AsciiIdentifierChar \ DecimalDigit
    BY <2>1 DEF LowerLetter, UpperLetter, DecimalDigit, AsciiIdentifierChar
  <2>3. \A p \in o..(e - 1) : p = o
    <3>1. o \in Nat /\ e = o + 1
      BY <1>3, <1>4, <2>1
    <3> QED
      BY <3>1
  <2>4. WordBytes(o, e) /\ WordChar(o, o)
    BY <2>2, <2>3 DEF WordBytes, WordChar
  <2>5. Utf8Width(o) = 1 /\ o + 1 <= Len(text)
    BY <1>4, <2>2, AsciiIsOneByte DEF peek
  <2>6. e = o + Utf8Width(o) /\ Utf8Width(o) \in 1..(Len(text) - o)
    <3>1. e = o + 1 /\ o \in Nat
      BY <1>3, <1>4, <2>1, Zenon
    <3> QED
      BY <1>3, <2>5, <3>1
  <2> QED
    BY <1>5, <2>1, <2>4, <2>6
<1>7. CASE StartWordUtf8
  <2>1. /\ peek \in NonAscii /\ ByteAt(o) \in NonAscii /\ e = it + Utf8Width(it) /\ local'.offset = o
        /\ AcceptedBy(XidStart, o)
    BY <1>4, <1>7 DEF StartWordUtf8, peek, Advance, Enter, NoLocals
  <2>2. o \in 0..it /\ o..(it - 1) = {}
    BY <1>3, <1>4
  <2>3. WordBytes(o, it)
    BY <2>2 DEF WordBytes
  <2>4. WordBytes(o, e) /\ Utf8Width(o) \in 1..(Len(text) - o) /\ e = o + Utf8Width(o)
    BY <1>4, <2>1, <2>2, <2>3, WordGoesOn
  <2>5. WordChar(o, o) /\ ByteAt(o) \notin LowerLetter
    BY <2>1, Letters DEF WordChar
  <2>6. KeywordsFor(ByteAt(o)) = {}
    <3> SUFFICES ASSUME NEW kw \in keywords PROVE kw.lexeme[1] \in LowerLetter
      BY <2>5 DEF KeywordsFor
    <3>1. kw.lexeme \in Seq(LowerLetter) /\ Len(kw.lexeme) \in 1..(TailWidth + 1) /\ TailWidth \in Nat
      BY KeywordsAssumption
    <3> QED
      BY <3>1
  <2> QED
    BY <1>5, <2>1, <2>4, <2>5, <2>6
<1> QED
  BY <1>6, <1>7

-----------------------------------------------------------------------------
(* String and character literals *)

(***************************************************************************)
(* The character at p is escaped exactly when the backslashes before it    *)
(* are odd in number: two maximal runs before p have the same length.      *)
(***************************************************************************)
LEMMA EscapedByParity ==
  ASSUME NEW o \in Nat, NEW p \in Nat, o < p, NEW m \in Nat, Backslashes(o, p, m)
  PROVE  Escaped(o, p) <=> m % 2 = 1
<1>1. ASSUME m % 2 = 1 PROVE Escaped(o, p)
  <2>1. m \in 1..(p - o - 1)
    BY <1>1 DEF Backslashes
  <2> QED
    BY <1>1, <2>1 DEF Backslashes, Escaped
<1>2. ASSUME Escaped(o, p) PROVE m % 2 = 1
  <2>1. PICK n \in 1..(p - o - 1) :
          /\ n % 2 = 1
          /\ \A k \in 1..n : ByteAt(p - k) = "\\"
          /\ n = p - o - 1 \/ ByteAt(p - n - 1) # "\\"
    BY <1>2 DEF Escaped
  <2>2. ~(n < m)
    <3> SUFFICES ASSUME n < m PROVE FALSE
      OBVIOUS
    <3>1. n + 1 \in 1..m /\ p - (n + 1) = p - n - 1 /\ n # p - o - 1
      BY DEF Backslashes
    <3> QED
      BY <2>1, <3>1 DEF Backslashes
  <2>3. ~(m < n)
    <3> SUFFICES ASSUME m < n PROVE FALSE
      OBVIOUS
    <3>1. m + 1 \in 1..n /\ p - (m + 1) = p - m - 1 /\ m # p - o - 1
      OBVIOUS
    <3> QED
      BY <2>1, <3>1 DEF Backslashes
  <2> QED
    BY <2>1, <2>2, <2>3
<1> QED
  BY <1>1, <1>2

(* One character more, and the parity of the backslashes before the next. *)
LEMMA BackslashesGoOn ==
  ASSUME NEW o \in Nat, NEW p \in Nat, o < p, NEW m \in Nat, Backslashes(o, p, m)
  PROVE  \E n \in Nat : /\ Backslashes(o, p + 1, n)
                        /\ n % 2 = 1 <=> ByteAt(p) = "\\" /\ ~(m % 2 = 1)
<1>1. CASE ByteAt(p) = "\\"
  <2>1. m + 1 \in 0..(p + 1 - o - 1) /\ m + 1 \in Nat
    BY DEF Backslashes
  <2>2. ASSUME NEW k \in 1..(m + 1) PROVE ByteAt(p + 1 - k) = "\\"
    <3>1. CASE k = 1
      BY <1>1, <3>1
    <3>2. CASE k # 1
      <4>1. k - 1 \in 1..m /\ p - (k - 1) = p + 1 - k
        BY <3>2
      <4> QED
        BY <4>1 DEF Backslashes
    <3> QED
      BY <3>1, <3>2
  <2>3. m + 1 = p + 1 - o - 1 \/ ByteAt(p + 1 - (m + 1) - 1) # "\\"
    <3>1. p + 1 - (m + 1) - 1 = p - m - 1
      OBVIOUS
    <3> QED
      BY <3>1 DEF Backslashes
  <2>4. Backslashes(o, p + 1, m + 1)
    BY <2>1, <2>2, <2>3 DEF Backslashes
  <2>5. (m + 1) % 2 = 1 <=> ~(m % 2 = 1)
    OBVIOUS
  <2> QED
    BY <1>1, <2>1, <2>4, <2>5
<1>2. CASE ByteAt(p) # "\\"
  <2>1. 0 \in 0..(p + 1 - o - 1) /\ 1..0 = {} /\ p + 1 - 0 - 1 = p /\ 0 % 2 = 0
    OBVIOUS
  <2>2. Backslashes(o, p + 1, 0)
    BY <1>2, <2>1 DEF Backslashes
  <2> QED
    BY <1>2, <2>1, <2>2
<1> QED
  BY <1>1, <1>2

(* The kinds of literals, told apart by their quotes. *)
LEMMA Quotes ==
  /\ DOMAIN QuoteKind \cap {"\n", NUL} = {}
  /\ \A q \in DOMAIN QuoteKind : QuoteKind[q] \in QuotedKind
  /\ \A q \in DOMAIN QuoteKind, r \in DOMAIN QuoteKind : QuoteKind[q] = QuoteKind[r] => q = r
BY DEF QuoteKind, QuotedKind, NUL

(* What has to hold of the text before the cursor, for the loop of on_quote to go on. *)
LEMMA QuoteGoesOn ==
  ASSUME text' = text, NEW o, NEW e, NEW m \in Nat, local'.offset = o, it' = e,
         ByteAt(o) \in DOMAIN QuoteKind, local'.kind = QuoteKind[ByteAt(o)],
         \A p \in (o + 1)..(e - 1) : ~EndsQuote(o, p),
         \A p \in o..(e - 1) : ByteAt(p) \notin {"\n", NUL},
         Backslashes(o, e, m), local'.ignore_quote <=> m % 2 = 1
  PROVE  QuoteInv'
<1>1. \A p : ByteAt(p)' = ByteAt(p)
  BY DEF ByteAt
<1>2. ByteAt(local.offset)' = ByteAt(o)
  BY DEF ByteAt
<1>3. ASSUME NEW p \in (local'.offset + 1)..(it' - 1) PROVE ~EndsQuote(local.offset, p)'
  <2>1. ~EndsQuote(o, p)
    BY <1>3
  <2> QED
    BY <2>1 DEF EndsQuote, Escaped, ByteAt
<1>4. ASSUME NEW p \in local'.offset..(it' - 1) PROVE ByteAt(p)' \notin {"\n", NUL}
  BY <1>1, <1>4
<1>5. Backslashes(local.offset, it, m)'
  BY DEF Backslashes, ByteAt
<1>6. (\E n \in Nat : Backslashes(local.offset, it, n) /\ (local.ignore_quote <=> n % 2 = 1))'
  BY <1>5
<1> QED
  BY <1>2, <1>3, <1>4, <1>6 DEF QuoteInv

(* The dispatch loop calls on_quote. *)
LEMMA QuoteEntered ==
  ASSUME IInv, EInv, on_quote
  PROVE  EInv'
<1>1. Next /\ text' = text /\ tokens' = tokens /\ pc = "source" /\ pc' = "quote"
  BY ReportsGrow DEF Next, DispatchStep, on_quote, Enter
<1>2. tokens' \in Seq(Sound')
  BY <1>1, ListStays DEF EInv
<1>3. it \in Nat /\ Len(text) \in Nat
  BY <1>1, AtSource
<1>4. PICK o : o = it
  OBVIOUS
<1>5. /\ ByteAt(o) \in DOMAIN QuoteKind /\ it' = o + 1
      /\ local'.offset = o /\ local'.kind = QuoteKind[ByteAt(o)] /\ local'.ignore_quote = FALSE
  <2>1. /\ peek \in DOMAIN QuoteKind /\ it' = it + 1
        /\ local' = [NoLocals EXCEPT !.offset = it, !.kind = QuoteKind[peek]]
    BY DEF on_quote, Advance, Enter
  <2>2. local'.offset = it /\ local'.kind = QuoteKind[peek] /\ local'.ignore_quote = FALSE
    BY <2>1 DEF NoLocals
  <2> QED
    BY <1>4, <2>1, <2>2 DEF peek
<1>6. PICK e : e = o + 1
  OBVIOUS
<1>7. \A p \in (o + 1)..(e - 1) : ~EndsQuote(o, p)
  BY <1>3, <1>4, <1>6
<1>8. \A p \in o..(e - 1) : ByteAt(p) \notin {"\n", NUL}
  <2>1. \A p \in o..(e - 1) : p = o
    BY <1>3, <1>4, <1>6
  <2> QED
    BY <1>5, <2>1, Quotes
<1>9. Backslashes(o, e, 0) /\ 0 % 2 = 0
  BY <1>3, <1>4, <1>6 DEF Backslashes
<1>10. QuoteInv'
  BY <1>1, <1>5, <1>6, <1>7, <1>8, <1>9, QuoteGoesOn
<1> QED
  BY <1>1, <1>2, <1>10 DEF EInv, CommentKind

(* A literal that is put with what is known at its end is sound. *)
LEMMA PutQuoteSound ==
  ASSUME IInv, pc = "quote", QuoteInv, text' = text, NEW e \in Nat, it <= e,
         Put(local.kind, local.offset, e - local.offset),
         \A p \in (local.offset + 1)..(e - 2) : ~EndsQuote(local.offset, p),
         \A p \in local.offset..(e - 1) : ByteAt(p) \notin {"\n", NUL},
         \/ e - local.offset >= 2 /\ EndsQuote(local.offset, e - 1)
         \/ ByteAt(e) = "\n" /\ Reported("missing_closing_quote", e)'
         \/ ByteAt(e) = NUL
  PROVE  \E t \in Sound' : tokens' = Append(tokens, t)
<1>1. PICK o, kind, t : o = local.offset /\ kind = local.kind /\ t = Token(kind, o, e - o)
  OBVIOUS
<1>2. /\ o \in Nat /\ o < e /\ o <= source_size_max /\ source_size_max \in Nat
      /\ kind \in QuotedKind /\ kind \in TokenKind /\ e - o \in Nat
  <2>1. pc \in Loop
    BY DEF Loop
  <2> QED
    BY <1>1, <2>1, AtFrontier, Quotes DEF QuoteInv
<1>3. t \in TokenType /\ t.kind = kind /\ t.offset = o /\ t.variable_length = e - o
  <2>1. o % (source_size_max + 1) = o
    BY <1>2, Unmasked
  <2> QED
    BY <1>1, <1>2, <2>1, TokenIsTyped DEF Token
<1>4. Width(t) = e - o /\ End(t) = e
  BY <1>2, <1>3, Widths DEF End, VariableLengthKind
<1>5. Width(t)' = e - o /\ End(t)' = e
  BY <1>4 DEF Width, End, KeywordLexeme
<1>6. \A p : ByteAt(p)' = ByteAt(p) /\ (EndsQuote(o, p)' <=> EndsQuote(o, p))
  BY DEF EndsQuote, Escaped, ByteAt
<1>7. QuoteClosed(t)'
  BY <1>1, <1>3, <1>5, <1>6 DEF QuoteClosed
<1>8. t.kind \notin KeywordKind /\ t.kind # "identifier"
  BY <1>2, <1>3 DEF QuotedKind, KeywordKind
<1>9. TokenOK(t)'
  BY <1>7, <1>8 DEF TokenOK
<1> QED
  BY <1>1, <1>3, <1>9 DEF Put, Sound

(* Every iteration of the loop of on_quote, and what is put after it. *)
LEMMA QuoteStepExtent ==
  ASSUME IInv, EInv, QuoteStep
  PROVE  EInv'
<1>1. Next /\ pc = "quote" /\ QuoteInv /\ text' = text
  BY ReportsGrow DEF Next, QuoteStep, ConsumeQuotedChar, CloseQuote, AbandonQuote, EInv
<1>2. PICK o, i : o = local.offset /\ i = it
  OBVIOUS
<1>3. o \in Nat /\ i \in Nat /\ o < i /\ Len(text) \in Nat /\ i <= Len(text)
  BY <1>1, <1>2, AtFrontier DEF Loop
<1>4. PICK m \in Nat : Backslashes(o, i, m) /\ (local.ignore_quote <=> m % 2 = 1)
  BY <1>1, <1>2 DEF QuoteInv
<1>5. local.ignore_quote <=> Escaped(o, i)
  BY <1>3, <1>4, EscapedByParity
<1>6. /\ ByteAt(o) \in DOMAIN QuoteKind /\ local.kind = QuoteKind[ByteAt(o)]
      /\ \A p \in (o + 1)..(i - 1) : ~EndsQuote(o, p)
      /\ \A p \in o..(i - 1) : ByteAt(p) \notin {"\n", NUL}
  BY <1>1, <1>2 DEF QuoteInv
<1>7. Closes(ByteAt(i)) <=> EndsQuote(o, i)
  BY <1>5, <1>6, Quotes DEF Closes, EndsQuote
<1>8. CASE ConsumeQuotedChar
  <2>1. /\ ByteAt(i) \notin {"\n", NUL} /\ ~EndsQuote(o, i) /\ it' = i + 1 /\ pc' = "quote"
        /\ tokens' = tokens /\ local' = [local EXCEPT !.ignore_quote = peek = "\\" /\ ~@]
    BY <1>1, <1>2, <1>7, <1>8 DEF ConsumeQuotedChar, Advance, peek
  <2>2. /\ local'.offset = o /\ local'.kind = local.kind
        /\ local'.ignore_quote <=> ByteAt(i) = "\\" /\ ~local.ignore_quote
    <3>1. local \in LocalsType
      BY DEF IInv, TypeOK
    <3> QED
      BY <1>2, <2>1, <3>1 DEF LocalsType, peek
  <2>3. PICK e : e = i + 1
    OBVIOUS
  <2>4. PICK n \in Nat : Backslashes(o, e, n) /\ (n % 2 = 1 <=> ByteAt(i) = "\\" /\ ~(m % 2 = 1))
    BY <1>3, <1>4, <2>3, BackslashesGoOn
  <2>5. /\ \A p \in (o + 1)..(e - 1) : ~EndsQuote(o, p)
        /\ \A p \in o..(e - 1) : ByteAt(p) \notin {"\n", NUL}
    <3>1. \A p \in o..(e - 1) : p = i \/ p \in o..(i - 1)
      BY <1>3, <2>3
    <3>2. \A p \in (o + 1)..(e - 1) : p = i \/ p \in (o + 1)..(i - 1)
      BY <1>3, <2>3
    <3> QED
      BY <1>6, <2>1, <3>1, <3>2
  <2>6. QuoteInv'
    BY <1>1, <1>4, <1>6, <2>1, <2>2, <2>3, <2>4, <2>5, QuoteGoesOn
  <2>7. tokens' \in Seq(Sound')
    BY <1>1, <2>1, ListStays DEF EInv
  <2> QED
    BY <2>1, <2>6, <2>7 DEF EInv, CommentKind
<1>9. CASE CloseQuote
  <2>1. EndsQuote(o, i) /\ Return /\ Put(local.kind, o, i + 1 - o)
    BY <1>2, <1>7, <1>9 DEF CloseQuote, peek
  <2>2. PICK e : e = i + 1
    OBVIOUS
  <2>3. e \in Nat /\ i <= e /\ e - 1 = i /\ e - 2 = i - 1 /\ e - o >= 2
    BY <1>3, <2>2
  <2>4. \A p \in o..(e - 1) : ByteAt(p) \notin {"\n", NUL}
    <3> SUFFICES ASSUME NEW p \in o..i PROVE ByteAt(p) \notin {"\n", NUL}
      BY <2>3
    <3>1. p = i \/ p \in o..(i - 1)
      BY <1>3
    <3>2. ByteAt(i) \notin {"\n", NUL}
      BY <1>6, <2>1, Quotes DEF EndsQuote
    <3> QED
      BY <1>6, <3>1, <3>2
  <2>5. (\A p \in (o + 1)..(e - 2) : ~EndsQuote(o, p)) /\ EndsQuote(o, e - 1)
    BY <1>6, <2>1, <2>3
  <2>6. \E t \in Sound' : tokens' = Append(tokens, t)
    <3>1. it <= e /\ Put(local.kind, local.offset, e - local.offset)
      <4>1. i + 1 - o = e - local.offset /\ o = local.offset /\ i = it
        BY <1>2, <1>3, <2>2
      <4> QED
        BY <2>1, <2>3, <4>1, Zenon
    <3>2. /\ e - local.offset >= 2 /\ EndsQuote(local.offset, e - 1)
          /\ \A p \in (local.offset + 1)..(e - 2) : ~EndsQuote(local.offset, p)
          /\ \A p \in local.offset..(e - 1) : ByteAt(p) \notin {"\n", NUL}
      <4>1. local.offset = o
        BY <1>2
      <4> QED
        BY <2>3, <2>4, <2>5, <4>1
    <3> QED
      BY <1>1, <2>3, <3>1, <3>2, PutQuoteSound
  <2> QED
    BY <1>1, <2>1, <2>6, ReturnSound
<1>10. CASE AbandonQuote
  <2>1. /\ ByteAt(i) = NUL \/ (ByteAt(i) = "\n" /\ Report("missing_closing_quote", i))
        /\ Return /\ Put(local.kind, o, i - o)
    BY <1>2, <1>10 DEF AbandonQuote, peek
  <2>2. ByteAt(i) = NUL \/ (ByteAt(i) = "\n" /\ Reported("missing_closing_quote", i)')
    BY <1>3, <2>1, ReportIsMade DEF Message
  <2>3. \A p \in (o + 1)..(i - 2) : ~EndsQuote(o, p)
    BY <1>3, <1>6
  <2>4. \E t \in Sound' : tokens' = Append(tokens, t)
    BY <1>1, <1>2, <1>3, <1>6, <2>1, <2>2, <2>3, PutQuoteSound
  <2> QED
    BY <1>1, <2>1, <2>4, ReturnSound
<1> QED
  BY <1>8, <1>9, <1>10 DEF QuoteStep

-----------------------------------------------------------------------------
(* The other handlers *)

(* The kinds of the tokens they put are others. *)
LEMMA OtherKinds ==
  NumericKind \cup PunctuationKind \cup CommentKind \cup {"end_of_file"} \subseteq OtherKind
BY DEF OtherKind, TokenKind, VariableLengthKind, NumericKind, PunctuationKind, CommentKind,
       QuotedKind, KeywordKind, Lexeme

(* One more token of such a kind. *)
LEMMA PutOther ==
  ASSUME IInv, EInv, Next, NEW kind \in OtherKind, NEW offset \in Nat, NEW length \in Nat,
         Put(kind, offset, length)
  PROVE  tokens' \in Seq(Sound')
<1>1. tokens \in Seq(Sound')
  BY ListStays DEF EInv
<1>2. Token(kind, offset, length) \in Sound'
  BY OtherSound
<1> QED
  BY <1>1, <1>2 DEF Put

(* Two more. *)
LEMMA PutTwo ==
  ASSUME IInv, EInv, Next, NEW t \in Sound', NEW u \in Sound', tokens' = tokens \o <<t, u>>
  PROVE  tokens' \in Seq(Sound')
<1>1. tokens \in Seq(Sound')
  BY ListStays DEF EInv
<1>2. <<t, u>> \in Seq(Sound')
  OBVIOUS
<1> QED
  BY <1>1, <1>2

(* Lexer::run refuses the text or starts the dispatch loop. *)
LEMMA RunStepExtent ==
  ASSUME IInv, EInv, RunStep
  PROVE  EInv'
<1>1. Next /\ pc' \notin {"word", "quote"} \cup CommentKind
  BY DEF Next, RunStep, RefuseSource, StartSource, Goto, CommentKind
<1>2. tokens' \in Seq(Sound')
  <2>1. CASE RefuseSource
    <3>1. Put("end_of_file", it, 0) /\ it \in Nat /\ "end_of_file" \in OtherKind
      BY <2>1, TextLength, OtherKinds DEF RefuseSource, IInv
    <3> QED
      BY <1>1, <3>1, PutOther
  <2>2. CASE StartSource
    BY <1>1, <2>2, ListStays DEF StartSource, EInv
  <2> QED
    BY <2>1, <2>2 DEF RunStep
<1> QED
  BY <1>1, <1>2 DEF EInv

(* The handlers of operators. *)
LEMMA OperatorExtent ==
  ASSUME IInv, EInv, on_operator
  PROVE  EInv'
<1>1. Next /\ pc = "source" /\ it \in Nat
  BY AtSource DEF Next, DispatchStep, on_operator
<1>2. PICK i \in DOMAIN Alternatives : Act(Alternatives[i].chars, Alternatives[i].kind)
  BY DEF on_operator
<1>3. PICK chars, kind : /\ chars = Alternatives[i].chars /\ kind = Alternatives[i].kind
                         /\ Act(chars, kind) /\ kind \in OtherKind
  BY <1>2, AlternativesTyped, OtherKinds
<1>4. CASE /\ tokens' = tokens \o <<Token(kind, it, 0), Token(kind, it + 1, 0)>>
           /\ UNCHANGED <<pc, local>>
  <2>1. Token(kind, it, 0) \in Sound' /\ Token(kind, it + 1, 0) \in Sound'
    BY <1>1, <1>3, OtherSound
  <2>2. tokens' \in Seq(Sound')
    BY <1>1, <1>4, <2>1, PutTwo
  <2> QED
    BY <1>1, <1>4, <2>2 DEF EInv, CommentKind
<1>5. CASE /\ kind \in CommentKind /\ UNCHANGED tokens
           /\ Enter(kind, [NoLocals EXCEPT !.offset = it, !.kind = kind, !.unclosed_count = 1])
  <2>1. pc' = kind /\ local'.kind = kind
    BY <1>5 DEF Enter, NoLocals
  <2>2. tokens' \in Seq(Sound')
    BY <1>1, <1>5, ListStays DEF EInv
  <2> QED
    BY <1>5, <2>1, <2>2 DEF EInv, CommentKind
<1>6. CASE Put(kind, it, 0) /\ UNCHANGED <<pc, local>>
  <2>1. tokens' \in Seq(Sound')
    BY <1>1, <1>3, <1>6, PutOther
  <2> QED
    BY <1>1, <1>6, <2>1 DEF EInv, CommentKind
<1> QED
  BY <1>3, <1>4, <1>5, <1>6 DEF Act

(* The dispatch loop. *)
LEMMA DispatchStepExtent ==
  ASSUME IInv, EInv, DispatchStep
  PROVE  EInv'
<1>1. Next /\ pc = "source"
  BY DEF Next, DispatchStep, EndSource, SkipWhitespace, on_alphabetic, on_zero, on_nonzero, on_dot,
     on_operator, on_quote, StartWordUtf8, RejectChar
<1>2. CASE EndSource
  <2>1. Put("end_of_file", it, 0) /\ it \in Nat /\ "end_of_file" \in OtherKind /\ pc' = "done"
    BY <1>1, <1>2, AtSource, OtherKinds DEF EndSource, Goto
  <2>2. tokens' \in Seq(Sound')
    BY <1>1, <2>1, PutOther
  <2> QED
    BY <2>1, <2>2 DEF EInv, CommentKind
<1>3. CASE SkipWhitespace \/ RejectChar
  <2>1. tokens' \in Seq(Sound')
    BY <1>1, <1>3, ListStays DEF SkipWhitespace, RejectChar, EInv
  <2> QED
    BY <1>1, <1>3, <2>1 DEF SkipWhitespace, RejectChar, EInv, CommentKind
<1>4. CASE on_zero \/ on_nonzero \/ on_dot
  <2>1. pc' = "digits" /\ tokens' = tokens
    BY <1>4 DEF on_zero, on_nonzero, on_dot, EnterDigits, Enter
  <2>2. tokens' \in Seq(Sound')
    BY <1>1, <2>1, ListStays DEF EInv
  <2> QED
    BY <2>1, <2>2 DEF EInv, CommentKind
<1> QED
  BY <1>2, <1>3, <1>4, WordEntered, QuoteEntered, OperatorExtent DEF DispatchStep

(* What follows consume_digit_sequence. *)
LEMMA FinishDigitsExtent ==
  ASSUME IInv, EInv, Next, pc \in {"digits", "digit_gap"}, NEW length \in Nat, FinishDigits(length)
  PROVE  EInv'
<1>1. /\ local.offset \in Nat /\ local.from \in Nat /\ local.int_length \in Nat
      /\ local.offset <= local.from
  BY DEF IInv, TypeOK, LocalsType, LoopInv
<1>2. NumericKind \cup {"dot"} \subseteq OtherKind
  BY OtherKinds DEF PunctuationKind, Lexeme
<1>3. pc' \notin {"word", "quote"} \cup CommentKind
  BY DEF FinishDigits, Return, EnterDigits, Enter, CommentKind
<1>4. tokens' \in Seq(Sound')
  <2>1. CASE \E kind \in NumericKind \cup {"dot"}, n \in Nat : Put(kind, local.offset, n)
    BY <1>1, <1>2, <2>1, PutOther
  <2>2. CASE tokens' = tokens
    BY <2>2, ListStays DEF EInv
  <2>3. CASE tokens' = tokens \o <<Token("dec_int_literal", local.offset, local.int_length),
                                   Token("dot", local.from, 0)>>
    <3>1. /\ Token("dec_int_literal", local.offset, local.int_length) \in Sound'
          /\ Token("dot", local.from, 0) \in Sound'
      BY <1>1, <1>2, OtherSound DEF NumericKind
    <3> QED
      BY <2>3, <3>1, PutTwo
  <2>4. local.from - local.offset + length \in Nat
    BY <1>1
  <2> QED
    BY <2>1, <2>2, <2>3, <2>4 DEF FinishDigits, NumericKind
<1> QED
  BY <1>3, <1>4 DEF EInv

(* The loops of consume_digit_sequence. *)
LEMMA DigitStepExtent ==
  ASSUME IInv, EInv, DigitStep
  PROVE  EInv'
<1>1. Next /\ pc \in {"digits", "digit_gap"}
  BY DEF Next, DigitStep, ConsumeDigit, OpenDigitGap, EndDigits, SkipDigitGap, CloseDigitGap, EndDigitGap
<1>2. CASE EndDigits
  <2>1. it - local.from \in Nat
    BY <1>1, TextLength DEF IInv, TypeOK, LocalsType, LoopInv
  <2> QED
    BY <1>1, <1>2, <2>1, FinishDigitsExtent DEF EndDigits
<1>3. CASE EndDigitGap
  <2>1. local.length \in Nat
    BY DEF IInv, TypeOK, LocalsType
  <2> QED
    BY <1>1, <1>3, <2>1, FinishDigitsExtent DEF EndDigitGap
<1>4. CASE ConsumeDigit \/ OpenDigitGap \/ SkipDigitGap \/ CloseDigitGap
  <2>1. tokens' = tokens /\ pc' \in {"digits", "digit_gap"}
    BY <1>4 DEF ConsumeDigit, OpenDigitGap, SkipDigitGap, CloseDigitGap, Enter, Goto
  <2>2. tokens' \in Seq(Sound')
    BY <1>1, <2>1, ListStays DEF EInv
  <2> QED
    BY <2>1, <2>2 DEF EInv, CommentKind
<1> QED
  BY <1>2, <1>3, <1>4 DEF DigitStep

(* The loops of the comment handlers. *)
LEMMA CommentStepExtent ==
  ASSUME IInv, EInv, CommentStep
  PROVE  EInv'
<1>1. Next /\ pc \in CommentKind /\ pc \in Loop
  BY DEF Next, CommentStep, ConsumeLineCommentChar, EndLineComment, NestBlockComment,
     CloseBlockComment, ConsumeBlockCommentChar, AbandonBlockComment, CommentKind, Loop
<1>2. local.kind = pc /\ local.kind \in OtherKind
  BY <1>1, OtherKinds DEF EInv
<1>3. ASSUME tokens' = tokens, pc' = pc, local'.kind = local.kind PROVE EInv'
  <2>1. tokens' \in Seq(Sound')
    BY <1>1, <1>3, ListStays DEF EInv
  <2> QED
    BY <1>1, <1>2, <1>3, <2>1 DEF EInv, CommentKind
<1>4. ASSUME NEW e \in Nat, it <= e, PutComment(e), Return PROVE EInv'
  <2>1. local.offset \in Nat /\ e - local.offset \in Nat
    BY <1>1, <1>4, AtFrontier
  <2>2. tokens' \in Seq(Sound')
    <3>1. CASE emit_comments
      BY <1>1, <1>2, <1>4, <2>1, <3>1, PutOther DEF PutComment
    <3>2. CASE ~emit_comments
      BY <1>1, <1>4, <3>2, ListStays DEF PutComment, EInv
    <3> QED
      BY <3>1, <3>2
  <2> QED
    BY <1>4, <2>2 DEF EInv, Return, CommentKind
<1>5. local \in LocalsType /\ it \in Nat /\ it + 2 \in Nat /\ it <= it + 2 /\ it <= it
  BY TextLength DEF IInv, TypeOK
<1>6. CASE ConsumeLineCommentChar \/ ConsumeBlockCommentChar
  BY <1>3, <1>6 DEF ConsumeLineCommentChar, ConsumeBlockCommentChar
<1>7. CASE EndLineComment \/ AbandonBlockComment
  BY <1>4, <1>5, <1>7 DEF EndLineComment, AbandonBlockComment
<1>8. CASE NestBlockComment
  BY <1>3, <1>5, <1>8 DEF NestBlockComment, LocalsType
<1>9. CASE CloseBlockComment
  BY <1>3, <1>4, <1>5, <1>9 DEF CloseBlockComment, LocalsType
<1> QED
  BY <1>6, <1>7, <1>8, <1>9 DEF CommentStep

-----------------------------------------------------------------------------
(* The invariant and what it says *)

(* A stuttering step changes nothing. *)
LEMMA StutterExtent ==
  ASSUME EInv, UNCHANGED vars
  PROVE  EInv'
<1>1. /\ text' = text /\ it' = it /\ tokens' = tokens /\ reports' = reports /\ pc' = pc
      /\ local' = local
  BY DEF vars
<1>2. Sound' = Sound
  BY <1>1 DEF Sound, TokenOK, Follows, KeywordLexeme, ByteAt, End, Width, TextOf, WordWhole,
     WordChars, WordChar, RefusedChar, AcceptedBy, Utf8Char, Reported, Utf8Width, QuoteClosed,
     EndsQuote, Escaped
<1>3. WordInv => WordInv'
  BY <1>1 DEF WordInv, WordSoFar, WordBytes, WordChar, AcceptedBy, Utf8Char, Utf8Width, ByteAt, KeywordsFor
<1>4. QuoteInv => QuoteInv'
  BY <1>1 DEF QuoteInv, EndsQuote, Escaped, Backslashes, ByteAt
<1> QED
  BY <1>1, <1>2, <1>3, <1>4 DEF EInv

(* Every step of the lexer keeps what is known of the text of the tokens. *)
LEMMA NextExtent ==
  ASSUME IInv, EInv, [Next]_vars
  PROVE  EInv'
<1>1. CASE Next /\ ~Returned
  BY <1>1, RunStepExtent, DispatchStepExtent, WordStepExtent, DigitStepExtent, CommentStepExtent,
     QuoteStepExtent DEF Next
<1>2. CASE UNCHANGED vars \/ Returned
  BY <1>2, StutterExtent DEF Returned
<1> QED
  BY <1>1, <1>2

(***************************************************************************)
(* For every text, keyword table and size limit, all that the loops of the *)
(* word and quote handlers know about the bytes behind them is true, and   *)
(* so is what the tokens they have put say.                                *)
(***************************************************************************)
THEOREM ExtentInvariance == Spec => []EInv
<1>1. Init => EInv
  <2> SUFFICES ASSUME Init PROVE EInv
    OBVIOUS
  <2>1. tokens = <<>> /\ pc = "run"
    BY DEF Init
  <2> QED
    BY <2>1 DEF EInv, CommentKind
<1>2. IInv /\ EInv /\ [Next]_vars => EInv'
  BY NextExtent
<1> QED
  BY <1>1, <1>2, Invariance, PTL DEF Spec

(* A token of the list, by the invariant. *)
LEMMA TokenIsSound ==
  ASSUME EInv, NEW i \in 1..Len(tokens)
  PROVE  TokenOK(tokens[i])
<1>1. tokens[i] \in Sound
  BY DEF EInv
<1> QED
  BY <1>1 DEF Sound

(***************************************************************************)
(* Comparing up to eight bytes of a word's tail with the encoded tails of  *)
(* the keyword table takes no longer word for a keyword, not even one that *)
(* goes on with a zero byte, and misses no keyword.                        *)
(***************************************************************************)
THEOREM KeywordsStayExact == Spec => []KeywordsExact
<1>1. EInv => KeywordsExact
  BY TokenIsSound DEF KeywordsExact, TokensOf, TokenOK
<1> QED
  BY <1>1, ExtentInvariance, PTL

(***************************************************************************)
(* consume_word takes a word whole, whatever XID tables are given: it is a *)
(* letter, an underscore or an XID_Start character and then letters,       *)
(* digits, underscores and XID_Continue characters.  The word ends before  *)
(* an ASCII character that cannot continue it, or with the one multi-byte  *)
(* character that is refused, which is reported and left in the word.      *)
(***************************************************************************)
THEOREM WordsStayWhole == Spec => []WordsWhole
<1>1. EInv => WordsWhole
  BY TokenIsSound DEF WordsWhole, TokensOf, TokenOK
<1> QED
  BY <1>1, ExtentInvariance, PTL

(***************************************************************************)
(* The flag that on_quote flips at each backslash finds the quote that     *)
(* closes a literal, however long the run of backslashes before it.        *)
(***************************************************************************)
THEOREM QuotesStayClosed == Spec => []QuotesClosed
<1>1. EInv => QuotesClosed
  BY TokenIsSound DEF QuotesClosed, TokensOf, TokenOK
<1> QED
  BY <1>1, ExtentInvariance, PTL

-----------------------------------------------------------------------------
(* The table of operators *)

(* Where alternative i is the first that matches, no longer one matches. *)
LEMMA FirstIsLongest ==
  ASSUME it \in Nat, NEW i \in DOMAIN Alternatives, Matched(i),
         NEW j \in DOMAIN Alternatives, Follows(it, Alternatives[j].chars)
  PROVE  Len(Alternatives[j].chars) <= Len(Alternatives[i].chars)
<1>1. /\ InPlace(i) /\ InPlace(j) /\ i \in 1..49 /\ j \in 1..49
  BY AllInPlace
<1>2. ~(j < i)
  <2>1. \A n \in 1..(i - 1) : ~Follows(it, Alternatives[n].chars)
    BY DEF Matched
  <2> QED
    BY <1>1, <2>1
<1> DEFINE a == Alternatives[i].chars
           b == Alternatives[j].chars
<1>3. Len(a) \in 1..3 /\ Len(b) \in 1..3
  BY <1>1 DEF InPlace
<1>4. a[1] = text[it + 1] /\ b[1] = text[it + 1]
  BY <1>3 DEF Matched, Follows
<1>5. PICK c : a[1] = c /\ b[1] = c
  BY <1>4
<1>6. LastOfThree(c) \in Nat /\ LastOfTwo(c) \in Nat
  BY DEF LastOfThree, LastOfTwo
<1>7. /\ Len(a) = 3 <=> i <= LastOfThree(c)
      /\ Len(a) >= 2 <=> i <= LastOfTwo(c)
      /\ Len(b) = 3 <=> j <= LastOfThree(c)
      /\ Len(b) >= 2 <=> j <= LastOfTwo(c)
  BY <1>1, <1>5 DEF InPlace
<1>8. Len(b) <= Len(a)
  <2> HIDE DEF a, b
  <2>1. PICK m \in 1..3, n \in 1..3, x \in Nat, y \in Nat :
          m = Len(a) /\ n = Len(b) /\ x = LastOfThree(c) /\ y = LastOfTwo(c)
    BY <1>3, <1>6
  <2>2. (m = 3 <=> i <= x) /\ (m >= 2 <=> i <= y) /\ (n = 3 <=> j <= x) /\ (n >= 2 <=> j <= y)
    BY <1>7, <2>1
  <2>3. n <= m
    BY <1>1, <1>2, <2>2
  <2> QED
    BY <2>1, <2>3
<1> QED
  BY <1>8 DEF a, b

(* Then no longer punctuation begins there, and no comment if the alternative has one character. *)
LEMMA NoneIsLonger ==
  ASSUME it \in Nat, text \in Seq(Byte), NEW i \in DOMAIN Alternatives, Matched(i)
  PROVE  /\ \A k \in PunctuationKind :
              Follows(it, Lexeme[k]) => Len(Lexeme[k]) <= Len(Alternatives[i].chars)
         /\ Len(Alternatives[i].chars) = 1 => /\ ~Follows(it, <<"/", "/">>)
                                              /\ ~Follows(it, <<"/", "*">>)
<1>1. PICK m \in 1..3 : m = Len(Alternatives[i].chars)
  BY AllInPlace DEF InPlace
<1>2. ASSUME NEW k \in PunctuationKind, Follows(it, Lexeme[k])
      PROVE  Len(Lexeme[k]) <= m
  <2>1. CASE k = "dot"
    <3>1. Lexeme["dot"] = <<".">>
      BY DEF Lexeme
    <3>2. Len(<<".">>) = 1
      OBVIOUS
    <3>3. Len(Lexeme[k]) = 1
      BY <2>1, <3>1, <3>2, Zenon
    <3>4. PICK n : n = Len(Lexeme[k])
      OBVIOUS
    <3>5. n = 1
      BY <3>3, <3>4
    <3>6. n <= m
      BY <3>5
    <3> QED
      BY <3>4, <3>6
  <2>2. CASE k # "dot"
    <3>1. PICK j \in DOMAIN Alternatives : Alternatives[j].chars = Lexeme[k]
      BY <2>2, SpellingTable DEF Spells
    <3> QED
      BY <1>1, <1>2, <3>1, FirstIsLongest
  <2> QED
    BY <2>1, <2>2
<1>3. ASSUME m = 1 PROVE ~Follows(it, <<"/", "/">>) /\ ~Follows(it, <<"/", "*">>)
  <2>1. ASSUME NEW chars, Len(chars) = 2, Follows(it, chars),
               NEW j \in DOMAIN Alternatives, Alternatives[j].chars = chars
        PROVE  FALSE
    <3>1. Len(Alternatives[j].chars) <= Len(Alternatives[i].chars)
      BY <2>1, FirstIsLongest
    <3>2. PICK n \in Nat : n = Len(chars) /\ n = 2
      BY <2>1
    <3>3. n <= m
      BY <1>1, <2>1, <3>1, <3>2
    <3> QED
      BY <1>3, <3>2, <3>3
  <2>2. Len(<<"/", "/">>) = 2 /\ Len(<<"/", "*">>) = 2
    OBVIOUS
  <2>3. 32 \in DOMAIN Alternatives /\ 33 \in DOMAIN Alternatives
    BY SpellingTable
  <2> QED
    BY <2>1, <2>2, <2>3, SpellingTable
<1> QED
  BY <1>1, <1>2, <1>3

-----------------------------------------------------------------------------
(* Punctuation and numbers *)

(* What is proved of a single token of these kinds, by the text alone. *)
FitOK(t) ==
  /\ t.kind \in PunctuationKind => LongestMatch(t)
  /\ t.kind \in NumericKind \cup {"dot"} => NumberWhole(t)

Fit == {t \in TokenType : FitOK(t)}

(* A token that is no > or a > that neither > nor = follows. *)
Single == {t \in Fit : t.kind = "r_angle" => ByteAt(End(t)) \notin {">", "="}}

(* The two tokens of >>, which no = follows. *)
Pair(t, u) ==
  /\ t \in Fit /\ u \in Fit /\ t.kind = "r_angle" /\ u.kind = "r_angle"
  /\ u.offset = End(t) /\ ByteAt(End(u)) # "="

(* The indices in firsts are those of the first tokens of pairs; the other > are single. *)
Pairing(list, firsts) ==
  /\ firsts \subseteq 1..Len(list)
  /\ \A i \in firsts : i + 1 \in (1..Len(list)) \ firsts /\ Pair(list[i], list[i + 1])
  /\ \A i \in (1..Len(list)) \ firsts : i - 1 \in firsts \/ list[i] \in Single

(* A literal that begins with a dot is a float. *)
LiteralKind(kind) == IF kind = "dot" THEN "float_literal" ELSE kind

(***************************************************************************)
(* A literal or a dot of the given kind begins at offset o; since offset f *)
(* consume_digit_sequence has taken what lies before i, the last digit of  *)
(* which ends at e.                                                        *)
(***************************************************************************)
DigitBytes(kind, o, f, e, i) ==
  /\ kind \in NumericKind \cup {"dot"}
  /\ kind # "float_literal" => o = f
  /\ f < e /\ e <= i
  /\ ByteAt(e - 1) \notin AsciiWhitespace
  /\ OnlyWhitespace(e, i)
  /\ kind \in {"dot", "float_literal"} /\ f < e - 1 => ByteAt(e - 1) \in DecimalDigit
  /\ \A p \in o..(i - 1) : ByteAt(p) = "." <=> p = f /\ kind \in {"dot", "float_literal"}
  /\ NumberStart(LiteralKind(kind), o)
  /\ \A p \in o..(i - 1) : NumberByte(LiteralKind(kind), o, p)

(* The n bytes before the dot of a fraction, at offset f, and the whitespace between them. *)
IntegerPart(o, f, n) ==
  /\ n >= 1
  /\ o + n <= f
  /\ ByteAt(o + n - 1) \notin AsciiWhitespace
  /\ OnlyWhitespace(o + n, f)

(* The end of the last digit, while consume_digit_sequence runs. *)
DigitsEnd == IF pc = "digits" THEN it ELSE local.from + local.length

DigitInv ==
  /\ DigitBytes(local.kind, local.offset, local.from, DigitsEnd, it)
  /\ local.kind = "float_literal" => IntegerPart(local.offset, local.from, local.int_length)

FInv ==
  /\ tokens \in Seq(Fit)
  /\ \E firsts : Pairing(tokens, firsts)
  /\ pc \in {"digits", "digit_gap"} => DigitInv

(* The text does not change, and with it what these tokens have to be. *)
LEMMA FitStays ==
  ASSUME text' = text
  PROVE  /\ Fit' = Fit
         /\ \A list, firsts : Pairing(list, firsts) => Pairing(list, firsts)'
<1>1. Fit' = Fit
  BY DEF Fit, FitOK, LongestMatch, NumberWhole, NumberStart, NumberByte, Follows, ByteAt, End, Width,
         KeywordLexeme, Dots, NotFollowedBy, OnlyWhitespace
<1>2. \A t : End(t)' = End(t)
  BY DEF End, Width, KeywordLexeme
<1>3. \A p : ByteAt(p)' = ByteAt(p)
  BY DEF ByteAt
<1>4. \A t, u : Pair(t, u) => Pair(t, u)'
  BY <1>1, <1>2, <1>3 DEF Pair
<1>5. Single' = Single
  BY <1>1, <1>2, <1>3 DEF Single
<1> QED
  BY <1>1, <1>4, <1>5 DEF Pairing

(* The kinds of numbers and of punctuation. *)
LEMMA KindsApart == NumericKind \cap PunctuationKind = {}
BY DEF NumericKind, PunctuationKind, Lexeme

(* The token of a literal, a comment or an identifier. *)
LEMMA VariableToken ==
  ASSUME NEW kind \in VariableLengthKind, NEW o \in 0..source_size_max, NEW n \in Nat, NEW t,
         t = Token(kind, o, n)
  PROVE  t \in TokenType /\ t.kind = kind /\ t.offset = o /\ End(t) = o + n
<1>1. kind \in TokenKind
  BY DEF TokenKind
<1>2. o \in Nat /\ o <= source_size_max /\ source_size_max \in Nat
  BY SourceSizeAssumption
<1>3. o % (source_size_max + 1) = o
  BY <1>2, Unmasked
<1>4. t \in TokenType /\ t.kind = kind /\ t.offset = o /\ t.variable_length = n
  BY <1>1, <1>2, <1>3, TokenIsTyped DEF Token
<1> QED
  BY <1>4, Widths DEF End

(* The token of a numeric literal. *)
LEMMA NumberToken ==
  ASSUME NEW kind \in NumericKind, NEW o \in 0..source_size_max, NEW n \in Nat, NEW t,
         t = Token(kind, o, n)
  PROVE  /\ t \in TokenType /\ t.kind = kind /\ t.offset = o /\ End(t) = o + n
         /\ t.kind \notin PunctuationKind
<1>1. kind \in VariableLengthKind /\ kind \notin PunctuationKind
  BY KindsApart DEF VariableLengthKind
<1> QED
  BY <1>1, VariableToken DEF Token

(* The token of a punctuation. *)
LEMMA PunctuationToken ==
  ASSUME NEW k \in PunctuationKind, NEW o \in 0..source_size_max, NEW t, t = Token(k, o, 0)
  PROVE  /\ t \in TokenType /\ t.kind = k /\ t.offset = o /\ Width(t) = Len(Lexeme[k])
         /\ End(t) = o + Len(Lexeme[k]) /\ k \notin NumericKind
<1>1. k \in TokenKind /\ k \notin NumericKind
  BY KindsApart DEF TokenKind
<1>2. o \in Nat /\ o <= source_size_max /\ source_size_max \in Nat
  BY SourceSizeAssumption
<1>3. o % (source_size_max + 1) = o
  BY <1>2, Unmasked
<1>4. t \in TokenType /\ t.kind = k /\ t.offset = o
  BY <1>1, <1>2, <1>3, TokenIsTyped DEF Token
<1> QED
  BY <1>1, <1>4, Widths DEF End

(* An integer literal without a dot, with no digit after the whitespace that follows it. *)
LEMMA IntegerFits ==
  ASSUME NEW kind \in NumericKind \ {"float_literal"}, NEW o \in 0..source_size_max,
         NEW n \in Nat, NEW i \in 0..Len(text), o + n <= i,
         ByteAt(o + n - 1) \notin AsciiWhitespace, OnlyWhitespace(o + n, i),
         ByteAt(i) \notin DigitSet(kind) \cup AsciiWhitespace,
         NumberStart(kind, o), \A p \in o..(o + n - 1) : NumberByte(kind, o, p)
  PROVE  Token(kind, o, n) \in Single
<1>1. PICK t : t = Token(kind, o, n)
  OBVIOUS
<1>2. /\ t \in TokenType /\ t.kind = kind /\ t.offset = o /\ End(t) = o + n
      /\ t.kind \notin PunctuationKind
  BY <1>1, NumberToken DEF Token
<1>3. kind # "dot"
  BY DEF NumericKind
<1>4. i \in (o + n)..Len(text)
  BY SourceSizeAssumption
<1>5. NotFollowedBy(End(t), DigitSet(kind))
  BY <1>2, <1>4 DEF NotFollowedBy
<1>6. NumberWhole(t)
  BY <1>2, <1>3, <1>5 DEF NumberWhole
<1>7. t.kind # "r_angle"
  BY <1>2 DEF NumericKind
<1> QED
  BY <1>1, <1>2, <1>6, <1>7 DEF Fit, FitOK, Single

(* A float literal with one dot, at offset f, and a digit at its end. *)
LEMMA FloatFits ==
  ASSUME NEW o \in 0..source_size_max, NEW f \in Nat, NEW n \in Nat, NEW i \in 0..Len(text),
         f \in o..(o + n - 1), o + n <= i,
         ByteAt(o + n - 1) \in DecimalDigit, ByteAt(o + n - 1) \notin AsciiWhitespace,
         OnlyWhitespace(o + n, i), ByteAt(i) \notin DecimalDigit \cup AsciiWhitespace,
         \A p \in o..(o + n - 1) : ByteAt(p) = "." <=> p = f,
         NumberStart("float_literal", o),
         \A p \in o..(o + n - 1) : NumberByte("float_literal", o, p)
  PROVE  Token("float_literal", o, n) \in Single
<1>1. PICK t : t = Token("float_literal", o, n)
  OBVIOUS
<1>2. "float_literal" \in NumericKind
  BY DEF NumericKind
<1>3. /\ t \in TokenType /\ t.kind = "float_literal" /\ t.offset = o /\ End(t) = o + n
      /\ t.kind \notin PunctuationKind
  <2>1. t \in TokenType /\ t.offset = o /\ End(t) = o + n /\ t.kind \notin PunctuationKind
    BY <1>1, <1>2, NumberToken, SMTT(30)
  <2>2. t.kind = "float_literal"
    BY <1>1, Zenon DEF Token
  <2> QED
    BY <2>1, <2>2
<1>4. i \in (o + n)..Len(text)
  BY SourceSizeAssumption
<1>5. NotFollowedBy(End(t), DigitSet("float_literal"))
  BY <1>3, <1>4 DEF NotFollowedBy, DigitSet
<1>6. Dots(t) = {f}
  BY <1>3 DEF Dots
<1>7. NumberWhole(t)
  <2>1. End(t) - 1 = o + n - 1 /\ t.offset..(End(t) - 1) = o..(o + n - 1)
    BY <1>3
  <2> QED
    BY <1>3, <1>5, <1>6, <2>1 DEF NumberWhole
<1> QED
  BY <1>1, <1>3, <1>7 DEF Fit, FitOK, Single

(* A dot without a digit after it: no other punctuation begins with one. *)
LEMMA DotFits ==
  ASSUME text \in Seq(Byte), NEW f \in 0..source_size_max, NEW i \in 0..Len(text), f + 1 <= i,
         ByteAt(f) = ".", OnlyWhitespace(f + 1, i),
         ByteAt(i) \notin DecimalDigit \cup AsciiWhitespace
  PROVE  Token("dot", f, 0) \in Single
<1>1. PICK t : t = Token("dot", f, 0)
  OBVIOUS
<1>2. "dot" \in PunctuationKind /\ Lexeme["dot"] = <<".">> /\ "dot" \notin NumericKind
  BY DEF PunctuationKind, Lexeme, NumericKind
<1>3. f \in Nat /\ f <= source_size_max /\ source_size_max \in Nat /\ Len(text) \in Nat
  BY SourceSizeAssumption
<1>4. t \in TokenType /\ t.kind = "dot" /\ t.offset = f
  BY <1>1, <1>2, PunctuationToken DEF Token
<1>5. Width(t) = 1 /\ End(t) = f + 1
  <2>1. Width(t) = Len(Lexeme["dot"])
    BY <1>2, <1>4, Widths
  <2>2. Len(<<".">>) = 1
    OBVIOUS
  <2>3. Width(t) = 1
    BY <1>2, <2>1, <2>2, Zenon
  <2> QED
    BY <1>4, <2>3 DEF End
<1>6. i \in (f + 1)..Len(text) /\ f < Len(text)
  BY <1>3
<1>7. NumberWhole(t)
  <2>1. NotFollowedBy(End(t), DecimalDigit)
    BY <1>5, <1>6 DEF NotFollowedBy
  <2> QED
    BY <1>2, <1>4, <2>1 DEF NumberWhole
<1>8. text[f + 1] = "."
  BY <1>6 DEF ByteAt
<1>9. Follows(f, Lexeme["dot"])
  <2>1. Follows(f, <<".">>)
    BY <1>3, <1>6, <1>8 DEF Follows
  <2> QED
    BY <1>2, <2>1
<1>10. ASSUME NEW k \in PunctuationKind, Follows(f, Lexeme[k]) PROVE k = "dot"
  <2> SUFFICES ASSUME k # "dot" PROVE FALSE
    OBVIOUS
  <2>1. PICK j \in DOMAIN Alternatives : Alternatives[j].chars = Lexeme[k]
    BY SpellingTable DEF Spells
  <2>2. PICK chars : chars = Lexeme[k] /\ Len(chars) \in 1..3 /\ chars[1] # "."
    BY <2>1, AllInPlace DEF InPlace
  <2>3. text[f + 1] = chars[1]
    BY <1>10, <2>2 DEF Follows
  <2> QED
    BY <1>8, <2>2, <2>3
<1>11. LongestMatch(t)
  <2>1. \A k \in PunctuationKind : Follows(f, Lexeme[k]) => Len(Lexeme[k]) <= Width(t)
    <3> SUFFICES ASSUME NEW k \in PunctuationKind, Follows(f, Lexeme[k])
                 PROVE  Len(Lexeme[k]) <= Width(t)
      OBVIOUS
    <3>1. Len(Lexeme[k]) = Width(t)
      BY <1>2, <1>4, <1>10, Widths
    <3> QED
      BY <1>5, <3>1
  <2> QED
    BY <1>4, <1>9, <2>1 DEF LongestMatch
<1> QED
  BY <1>1, <1>2, <1>4, <1>7, <1>11 DEF Fit, FitOK, Single

(* Bytes that follow, one by one. *)
LEMMA FollowsBytes ==
  ASSUME text \in Seq(Byte), NEW o \in Nat, NEW c, NEW d, NEW e
  PROVE  /\ Follows(o, <<c>>) => ByteAt(o) = c
         /\ Follows(o, <<c, d>>) => ByteAt(o) = c /\ ByteAt(o + 1) = d
         /\ d # NUL /\ Follows(o, <<c>>) /\ ByteAt(o + 1) = d => Follows(o, <<c, d>>)
         /\ e # NUL /\ Follows(o, <<c, d>>) /\ ByteAt(o + 2) = e => Follows(o, <<c, d, e>>)
         /\ c # NUL /\ ByteAt(o) = c => Follows(o, <<c>>)
<1>1. Len(text) \in Nat
  OBVIOUS
<1>2. \A p \in Nat : ByteAt(p) # NUL => p + 1 <= Len(text)
  BY <1>1 DEF ByteAt
<1>3. Follows(o, <<c>>) <=> o + 1 <= Len(text) /\ text[o + 1] = c
  BY <1>1 DEF Follows
<1>4. Follows(o, <<c, d>>) <=> o + 2 <= Len(text) /\ text[o + 1] = c /\ text[o + 2] = d
  BY <1>1 DEF Follows
<1>5. Follows(o, <<c, d, e>>) <=>
        o + 3 <= Len(text) /\ text[o + 1] = c /\ text[o + 2] = d /\ text[o + 3] = e
  <2> DEFINE chars == <<c, d, e>>
  <2>1. Len(chars) = 3 /\ chars[1] = c /\ chars[2] = d /\ chars[3] = e
    OBVIOUS
  <2> HIDE DEF chars
  <2>2. Follows(o, chars) <=>
          o + 3 <= Len(text) /\ text[o + 1] = chars[1] /\ text[o + 2] = chars[2] /\ text[o + 3] = chars[3]
    <3>1. \A k \in 1..3 : k = 1 \/ k = 2 \/ k = 3
      OBVIOUS
    <3> QED
      BY <2>1, <3>1 DEF Follows
  <2> QED
    BY <2>1, <2>2 DEF chars
<1>6. /\ o + 1 <= Len(text) => ByteAt(o) = text[o + 1]
      /\ o + 2 <= Len(text) => ByteAt(o + 1) = text[o + 2]
      /\ o + 3 <= Len(text) => ByteAt(o + 2) = text[o + 3]
  BY <1>1 DEF ByteAt
<1>7. /\ ByteAt(o) # NUL => o + 1 <= Len(text)
      /\ ByteAt(o + 1) # NUL => o + 2 <= Len(text)
      /\ ByteAt(o + 2) # NUL => o + 3 <= Len(text)
  BY <1>1 DEF ByteAt
<1>8. /\ o + 2 <= Len(text) => o + 1 <= Len(text)
      /\ o + 3 <= Len(text) => o + 2 <= Len(text)
  BY <1>1
<1> QED
  BY <1>3, <1>4, <1>5, <1>6, <1>7, <1>8

(* The token of a punctuation. *)
LEMMA PunctuationFits ==
  ASSUME NEW k \in PunctuationKind \ {"dot"}, NEW o \in 0..source_size_max,
         Follows(o, Lexeme[k]),
         k = "slash" => ByteAt(o + 1) \notin {"/", "*"},
         k # "r_angle" => \A j \in PunctuationKind :
                            Follows(o, Lexeme[j]) => Len(Lexeme[j]) <= Len(Lexeme[k])
  PROVE  /\ Token(k, o, 0) \in Fit
         /\ k # "r_angle" => Token(k, o, 0) \in Single
<1>1. PICK t : t = Token(k, o, 0)
  OBVIOUS
<1>2. /\ t \in TokenType /\ t.kind = k /\ t.offset = o /\ Width(t) = Len(Lexeme[k])
      /\ End(t) = o + Len(Lexeme[k]) /\ k \notin NumericKind
  BY <1>1, PunctuationToken DEF Token
<1>3. k = "slash" => End(t) = o + 1
  <2>1. Lexeme["slash"] = <<"/">>
    BY DEF Lexeme
  <2>2. Len(<<"/">>) = 1
    OBVIOUS
  <2>3. k = "slash" => Len(Lexeme[k]) = 1
    BY <2>1, <2>2, Zenon
  <2> QED
    BY <1>2, <2>3
<1>4. LongestMatch(t)
  <2>1. t.kind = "slash" => ByteAt(End(t)) \notin {"/", "*"}
    BY <1>2, <1>3
  <2>2. t.kind # "r_angle" =>
          \A j \in PunctuationKind : Follows(o, Lexeme[j]) => Len(Lexeme[j]) <= Width(t)
    BY <1>2
  <2> QED
    BY <1>2, <2>1, <2>2 DEF LongestMatch
<1> QED
  BY <1>1, <1>2, <1>4 DEF Fit, FitOK, Single

(* Where a > ends. *)
LEMMA AngleToken ==
  ASSUME NEW o \in 0..source_size_max, Follows(o, <<">">>)
  PROVE  /\ Token("r_angle", o, 0) \in Fit /\ Token("r_angle", o, 0).kind = "r_angle"
         /\ Token("r_angle", o, 0).offset = o /\ End(Token("r_angle", o, 0)) = o + 1
<1>1. PICK t, k : k = "r_angle" /\ t = Token(k, o, 0)
  OBVIOUS
<1>2. Lexeme[k] = <<">">> /\ k \in PunctuationKind \ {"dot"} /\ k # "slash"
  BY <1>1 DEF Lexeme, PunctuationKind
<1>3. t.kind = k /\ t.offset = o /\ End(t) = o + Len(Lexeme[k])
  BY <1>1, <1>2, PunctuationToken
<1>4. Len(<<">">>) = 1
  OBVIOUS
<1>5. End(t) = o + 1
  BY <1>2, <1>3, <1>4
<1>6. t \in Fit
  BY <1>1, <1>2, PunctuationFits
<1> QED
  BY <1>1, <1>3, <1>5, <1>6

(* What the first alternative that matches puts, unless it is a comment. *)
LEMMA OperatorFits ==
  ASSUME text \in Seq(Byte), it \in 0..source_size_max, NEW i \in DOMAIN Alternatives, Matched(i),
         Alternatives[i].kind \notin CommentKind, Alternatives[i].chars # <<">", ">">>
  PROVE  Token(Alternatives[i].kind, it, 0) \in Single
<1>1. PICK o : o = it /\ o \in Nat
  BY SourceSizeAssumption
<1>2. i \in (1..49) \ {15, 32, 33}
  BY SpellingTable, AllInPlace DEF CommentKind
<1>3. PICK k \in PunctuationKind : Spells(i, k)
  BY <1>2, SpellingTable
<1>4. /\ Alternatives[i].kind = k /\ Alternatives[i].chars = Lexeme[k]
      /\ Lexeme[k][1] # "." /\ Follows(o, Lexeme[k])
  BY <1>1, <1>3, AllInPlace DEF Spells, InPlace, Matched
<1>5. k # "dot"
  <2>1. Lexeme["dot"] = <<".">>
    BY DEF Lexeme
  <2>2. <<".">>[1] = "."
    OBVIOUS
  <2> QED
    BY <1>4, <2>1, <2>2, Zenon
<1>6. /\ \A j \in PunctuationKind : Follows(o, Lexeme[j]) => Len(Lexeme[j]) <= Len(Lexeme[k])
      /\ Len(Lexeme[k]) = 1 => ~Follows(o, <<"/", "/">>) /\ ~Follows(o, <<"/", "*">>)
  BY <1>1, <1>4, NoneIsLonger
<1>7. /\ Lexeme["r_angle"] = <<">">> /\ Lexeme["slash"] = <<"/">>
      /\ Lexeme["r_angle_eq"] = <<">", "=">> /\ "r_angle_eq" \in PunctuationKind
  BY DEF Lexeme, PunctuationKind
<1>8. Len(<<">">>) = 1 /\ Len(<<"/">>) = 1 /\ Len(<<">", "=">>) = 2
  OBVIOUS
<1>9. ASSUME k = "r_angle", ByteAt(o + 1) = "=" PROVE FALSE
  <2>1. Follows(o, Lexeme["r_angle_eq"])
    <3>1. Follows(o, <<">">>)
      BY <1>4, <1>7, <1>9, Zenon
    <3>2. Follows(o, <<">", "=">>)
      BY <1>1, <1>9, <3>1, FollowsBytes DEF NUL
    <3> QED
      BY <1>7, <3>2
  <2>2. Len(Lexeme["r_angle_eq"]) <= Len(Lexeme[k])
    BY <1>6, <1>7, <2>1
  <2>3. Len(Lexeme["r_angle_eq"]) = 2 /\ Len(Lexeme[k]) = 1
    BY <1>7, <1>8, <1>9, Zenon
  <2>4. 2 <= 1
    BY <2>2, <2>3
  <2> QED
    BY <2>4
<1>10. ASSUME k = "slash", ByteAt(o + 1) \in {"/", "*"} PROVE FALSE
  <2>1. Len(Lexeme[k]) = 1 /\ Follows(o, <<"/">>)
    BY <1>4, <1>7, <1>8, <1>10, Zenon
  <2>2. Follows(o, <<"/", "/">>) \/ Follows(o, <<"/", "*">>)
    BY <1>1, <1>10, <2>1, FollowsBytes DEF NUL
  <2> QED
    BY <1>6, <2>1, <2>2
<1>11. ASSUME k = "r_angle", ByteAt(o + 1) = ">" PROVE FALSE
  <2>1. Follows(o, <<">", ">">>)
    <3>1. Follows(o, <<">">>)
      BY <1>4, <1>7, <1>11, Zenon
    <3> QED
      BY <1>1, <1>11, <3>1, FollowsBytes DEF NUL
  <2>2. 15 \in DOMAIN Alternatives /\ Alternatives[15].chars = <<">", ">">>
    BY SpellingTable
  <2>3. Len(<<">", ">">>) <= Len(Alternatives[i].chars)
    BY <1>1, <2>1, <2>2, FirstIsLongest
  <2>4. Len(<<">", ">">>) = 2 /\ Len(Alternatives[i].chars) = 1
    <3>1. Len(<<">", ">">>) = 2
      OBVIOUS
    <3> QED
      BY <1>4, <1>7, <1>8, <1>11, <3>1, Zenon
  <2>5. 2 <= 1
    BY <2>3, <2>4
  <2> QED
    BY <2>5
<1>12. CASE k = "r_angle"
  <2>1. Follows(o, <<">">>)
    BY <1>4, <1>7, <1>12, Zenon
  <2>2. ByteAt(o + 1) \notin {">", "="}
    BY <1>9, <1>11, <1>12
  <2> QED
    BY <1>1, <1>4, <1>12, <2>1, <2>2, AngleToken DEF Single
<1>13. CASE k # "r_angle"
  BY <1>1, <1>4, <1>5, <1>6, <1>10, <1>13, PunctuationFits
<1> QED
  BY <1>12, <1>13

(* The two tokens that >> becomes. *)
LEMMA ShiftFits ==
  ASSUME text \in Seq(Byte), Len(text) <= source_size_max, it \in Nat,
         NEW i \in DOMAIN Alternatives, Matched(i), Alternatives[i].chars = <<">", ">">>
  PROVE  /\ Alternatives[i].kind = "r_angle"
         /\ Pair(Token("r_angle", it, 0), Token("r_angle", it + 1, 0))
<1>1. PICK o : o = it /\ o \in Nat
  OBVIOUS
<1>2. Follows(o, <<">", ">">>) /\ Len(text) \in Nat
  BY <1>1 DEF Matched
<1>3. o + 2 <= Len(text) /\ ByteAt(o) = ">" /\ ByteAt(o + 1) = ">" /\ o + 1 \in Nat
  <2>1. ByteAt(o) = ">" /\ ByteAt(o + 1) = ">"
    BY <1>1, <1>2, FollowsBytes
  <2>2. o + 2 <= Len(text)
    BY <1>1, <1>2 DEF Follows
  <2> QED
    BY <1>1, <2>1, <2>2
<1>4. o \in 0..source_size_max /\ o + 1 \in 0..source_size_max /\ o + 1 + 1 = o + 2
  BY <1>1, <1>2, <1>3, SourceSizeAssumption
<1>5. Lexeme["r_angle_angle_eq"] = <<">", ">", "=">> /\ "r_angle_angle_eq" \in PunctuationKind
  BY DEF Lexeme, PunctuationKind
<1>6. Follows(o, <<">">>) /\ Follows(o + 1, <<">">>)
  BY <1>1, <1>3, FollowsBytes DEF NUL
<1>7. ByteAt(o + 2) # "="
  <2> SUFFICES ASSUME ByteAt(o + 2) = "=" PROVE FALSE
    OBVIOUS
  <2>1. Follows(o, Lexeme["r_angle_angle_eq"])
    <3>1. Follows(o, <<">", ">", "=">>)
      BY <1>1, <1>2, FollowsBytes DEF NUL
    <3> QED
      BY <1>5, <3>1
  <2>2. Len(Lexeme["r_angle_angle_eq"]) <= Len(Alternatives[i].chars)
    BY <1>1, <1>5, <2>1, NoneIsLonger
  <2>3. Len(<<">", ">", "=">>) = 3 /\ Len(<<">", ">">>) = 2
    OBVIOUS
  <2>4. Len(Lexeme["r_angle_angle_eq"]) = 3 /\ Len(Alternatives[i].chars) = 2
    BY <1>5, <2>3, Zenon
  <2>5. 3 <= 2
    BY <2>2, <2>4
  <2> QED
    BY <2>5
<1>8. Alternatives[i].kind = "r_angle"
  <2>1. CASE i = 15
    BY <2>1, SpellingTable
  <2>2. CASE i # 15
    <3>1. PICK chars : chars = Alternatives[i].chars /\ chars = <<">", ">">>
      OBVIOUS
    <3>2. Len(chars) = 2 /\ chars[1] = ">" /\ chars[2] = ">"
      BY <3>1
    <3>3. LastOfThree(">") = 14 /\ LastOfTwo(">") = 16
      BY DEF LastOfThree, LastOfTwo
    <3>4. i \in 1..49 /\ ~(i <= 14) /\ i <= 16
      <4>1. /\ i \in 1..49
            /\ Len(chars) = 3 <=> i <= LastOfThree(chars[1])
            /\ Len(chars) >= 2 <=> i <= LastOfTwo(chars[1])
        BY <3>1, AllInPlace, Zenon DEF InPlace
      <4>2. (2 = 3 <=> i <= 14) /\ (2 >= 2 <=> i <= 16)
        BY <3>2, <3>3, <4>1
      <4> QED
        BY <4>1, <4>2
    <3>5. Alternatives[16].chars = <<">", "=">>
      BY DEF Alternatives, Alternative
    <3>6. Alternatives[16].chars[2] = "="
      BY <3>5
    <3>7. \A n \in 1..49 : ~(n <= 14) /\ n <= 16 /\ n # 15 => n = 16
      OBVIOUS
    <3>8. chars[2] = "="
      BY <2>2, <3>1, <3>4, <3>6, <3>7, Zenon
    <3> QED
      BY <3>2, <3>8
  <2> QED
    BY <2>1, <2>2
<1>9. PICK t, u : t = Token("r_angle", o, 0) /\ u = Token("r_angle", o + 1, 0)
  OBVIOUS
<1>10. t \in Fit /\ t.kind = "r_angle" /\ End(t) = o + 1
  BY <1>4, <1>6, <1>9, AngleToken
<1>11. u \in Fit /\ u.kind = "r_angle" /\ u.offset = o + 1 /\ End(u) = o + 1 + 1
  BY <1>4, <1>6, <1>9, AngleToken
<1>12. Pair(t, u)
  BY <1>4, <1>7, <1>10, <1>11 DEF Pair
<1> QED
  BY <1>1, <1>8, <1>9, <1>12

(* Kinds of tokens about which nothing is said here. *)
PlainKind == TokenKind \ (PunctuationKind \cup NumericKind)

(* Such a token is fit, whatever the text. *)
LEMMA PlainFits ==
  ASSUME NEW kind \in PlainKind, NEW offset \in Nat, NEW length \in Nat
  PROVE  Token(kind, offset, length) \in Single
<1>1. PICK t : t = Token(kind, offset, length)
  OBVIOUS
<1>2. t \in TokenType /\ t.kind = kind
  BY <1>1, TokenIsTyped DEF PlainKind, Token
<1>3. "dot" \in PunctuationKind /\ "r_angle" \in PunctuationKind
  BY DEF PunctuationKind, Lexeme
<1>4. FitOK(t)
  BY <1>2, <1>3 DEF PlainKind, FitOK
<1> QED
  BY <1>1, <1>2, <1>3, <1>4 DEF Fit, Single, PlainKind

(* Kinds that are plain. *)
LEMMA PlainKinds ==
  {"identifier", "end_of_file"} \cup KeywordKind \cup QuotedKind \cup CommentKind \subseteq PlainKind
<1>1. NumericKind \cap ({"identifier", "end_of_file"} \cup KeywordKind \cup QuotedKind \cup CommentKind) = {}
  BY DEF NumericKind, KeywordKind, QuotedKind, CommentKind
<1>2. PunctuationKind \cap ({"identifier", "end_of_file"} \cup QuotedKind \cup CommentKind) = {}
  BY DEF PunctuationKind, Lexeme, QuotedKind, CommentKind
<1>3. PunctuationKind \cap KeywordKind = {}
  BY DEF PunctuationKind, Lexeme, KeywordKind
<1> QED
  BY <1>1, <1>2, <1>3 DEF PlainKind, TokenKind, VariableLengthKind

(* Tokens that are added one by one. *)
LEMMA SingleAdds ==
  ASSUME NEW list \in Seq(Fit), NEW firsts, Pairing(list, firsts), NEW t \in Single
  PROVE  Append(list, t) \in Seq(Fit) /\ Pairing(Append(list, t), firsts)
<1>1. t \in Fit
  BY DEF Single
<1>2. PICK new, n : new = Append(list, t) /\ n = Len(list)
  OBVIOUS
<1>3. new \in Seq(Fit) /\ n \in Nat /\ Len(new) = n + 1 /\ new[n + 1] = t
      /\ \A i \in 1..n : new[i] = list[i]
  BY <1>1, <1>2
<1>4. firsts \subseteq 1..n
  BY <1>2 DEF Pairing
<1>5. ASSUME NEW i \in firsts
      PROVE  i + 1 \in (1..Len(new)) \ firsts /\ Pair(new[i], new[i + 1])
  <2>1. i + 1 \in (1..n) \ firsts /\ Pair(list[i], list[i + 1]) /\ i \in 1..n
    BY <1>2, <1>4 DEF Pairing
  <2> QED
    BY <1>3, <2>1
<1>6. ASSUME NEW i \in (1..Len(new)) \ firsts
      PROVE  i - 1 \in firsts \/ new[i] \in Single
  <2>1. CASE i = n + 1
    BY <1>3, <2>1
  <2>2. CASE i # n + 1
    <3>1. i \in (1..n) \ firsts
      BY <1>3, <2>2
    <3> QED
      BY <1>2, <1>3, <3>1 DEF Pairing
  <2> QED
    BY <2>1, <2>2
<1>7. Pairing(new, firsts)
  BY <1>3, <1>4, <1>5, <1>6 DEF Pairing
<1> QED
  BY <1>2, <1>3, <1>7

(* The pair that is added for >>. *)
LEMMA PairAdds ==
  ASSUME NEW list \in Seq(Fit), NEW firsts, Pairing(list, firsts), NEW t, NEW u, Pair(t, u)
  PROVE  list \o <<t, u>> \in Seq(Fit) /\ Pairing(list \o <<t, u>>, firsts \cup {Len(list) + 1})
<1>1. PICK new, n, more : new = list \o <<t, u>> /\ n = Len(list) /\ more = firsts \cup {n + 1}
  OBVIOUS
<1>2. new \in Seq(Fit) /\ n \in Nat /\ Len(new) = n + 2 /\ new[n + 1] = t /\ new[n + 2] = u
      /\ \A i \in 1..n : new[i] = list[i]
  <2>1. t \in Fit /\ u \in Fit
    BY DEF Pair
  <2>2. <<t, u>> \in Seq(Fit) /\ Len(<<t, u>>) = 2 /\ <<t, u>>[1] = t /\ <<t, u>>[2] = u
    BY <2>1
  <2> QED
    BY <1>1, <2>2
<1>3. firsts \subseteq 1..n
  BY <1>1 DEF Pairing
<1>4. ASSUME NEW i \in more
      PROVE  i + 1 \in (1..Len(new)) \ more /\ Pair(new[i], new[i + 1])
  <2>1. CASE i = n + 1
    <3>1. i + 1 = n + 2 /\ n + 2 \notin more
      BY <1>1, <1>2, <1>3, <2>1
    <3> QED
      BY <1>2, <2>1, <3>1
  <2>2. CASE i \in firsts
    <3>1. i + 1 \in (1..n) \ firsts /\ Pair(list[i], list[i + 1]) /\ i \in 1..n
      BY <1>1, <1>3, <2>2 DEF Pairing
    <3> QED
      BY <1>1, <1>2, <3>1
  <2> QED
    BY <1>1, <2>1, <2>2
<1>5. ASSUME NEW i \in (1..Len(new)) \ more
      PROVE  i - 1 \in more \/ new[i] \in Single
  <2>1. CASE i = n + 2
    BY <1>1, <1>2, <2>1
  <2>2. CASE i # n + 2
    <3>1. i \in (1..n) \ firsts
      BY <1>1, <1>2, <2>2
    <3> QED
      BY <1>1, <1>2, <3>1 DEF Pairing
  <2> QED
    BY <2>1, <2>2
<1>6. more \subseteq 1..Len(new)
  <2>1. 1..n \subseteq 1..(n + 2) /\ n + 1 \in 1..(n + 2)
    BY <1>2
  <2> QED
    BY <1>1, <1>2, <1>3, <2>1, Zenon
<1>7. Pairing(new, more)
  BY <1>4, <1>5, <1>6 DEF Pairing
<1> QED
  BY <1>1, <1>2, <1>7

(* What a step may do to the list. *)
LEMMA ListFits ==
  ASSUME text' = text, FInv,
         \/ tokens' = tokens
         \/ \E t \in Single : tokens' = Append(tokens, t)
         \/ \E t \in Single, u \in Single : tokens' = tokens \o <<t, u>>
         \/ \E t, u : Pair(t, u) /\ tokens' = tokens \o <<t, u>>
  PROVE  tokens' \in Seq(Fit)' /\ (\E firsts : Pairing(tokens, firsts))'
<1>1. tokens \in Seq(Fit)
  BY DEF FInv
<1>2. PICK firsts : Pairing(tokens, firsts)
  BY DEF FInv
<1>3. ASSUME NEW list \in Seq(Fit), NEW some, Pairing(list, some), tokens' = list
      PROVE  tokens' \in Seq(Fit)' /\ (\E all : Pairing(tokens, all))'
  <2>1. Fit' = Fit /\ Pairing(list, some)'
    BY <1>3, FitStays
  <2>2. (Pairing(tokens, some))'
    BY <1>3, <2>1 DEF Pairing
  <2>3. tokens' \in Seq(Fit')
    BY <1>3, <2>1
  <2> QED
    BY <2>2, <2>3
<1>4. CASE tokens' = tokens
  BY <1>1, <1>2, <1>3, <1>4
<1>5. CASE \E t \in Single : tokens' = Append(tokens, t)
  BY <1>1, <1>2, <1>3, <1>5, SingleAdds
<1>6. CASE \E t \in Single, u \in Single : tokens' = tokens \o <<t, u>>
  <2>1. PICK t \in Single, u \in Single : tokens' = tokens \o <<t, u>>
    BY <1>6
  <2>2. PICK list : list = Append(tokens, t)
    OBVIOUS
  <2>3. list \in Seq(Fit) /\ Pairing(list, firsts)
    BY <1>1, <1>2, <2>2, SingleAdds
  <2>4. Append(list, u) \in Seq(Fit) /\ Pairing(Append(list, u), firsts)
    BY <2>3, SingleAdds
  <2>5. tokens' = Append(list, u)
    BY <1>1, <2>1, <2>2
  <2> QED
    BY <1>3, <2>4, <2>5
<1>7. CASE \E t, u : Pair(t, u) /\ tokens' = tokens \o <<t, u>>
  BY <1>1, <1>2, <1>3, <1>7, PairAdds
<1> QED
  BY <1>4, <1>5, <1>6, <1>7

(* A step that does not lead into consume_digit_sequence. *)
LEMMA FitGrows ==
  ASSUME text' = text, FInv, pc' \notin {"digits", "digit_gap"},
         \/ tokens' = tokens
         \/ \E t \in Single : tokens' = Append(tokens, t)
         \/ \E t \in Single, u \in Single : tokens' = tokens \o <<t, u>>
         \/ \E t, u : Pair(t, u) /\ tokens' = tokens \o <<t, u>>
  PROVE  FInv'
BY ListFits DEF FInv

(* One plain token is put, or none. *)
LEMMA PlainPut ==
  ASSUME text' = text, FInv, pc' \notin {"digits", "digit_gap"},
         NEW kind \in PlainKind, NEW offset \in Nat, NEW length \in Nat, Put(kind, offset, length)
  PROVE  FInv'
<1>1. \E t \in Single : tokens' = Append(tokens, t)
  BY PlainFits DEF Put
<1> QED
  BY <1>1, FitGrows

(* Digits are neither whitespace nor dots. *)
LEMMA DigitChars ==
  /\ \A kind : DigitSet(kind) \cap (AsciiWhitespace \cup {".", NUL}) = {}
  /\ \A kind : kind # "hex_int_literal" => DigitSet(kind) = DecimalDigit
  /\ DecimalDigit \cap (AsciiWhitespace \cup {"."}) = {}
  /\ "." \notin AsciiWhitespace
  /\ \A kind \in NumericKind \cup {"dot"} : "." \notin DigitSet(kind)
<1>1. HexadecimalDigit \cap (AsciiWhitespace \cup {".", NUL}) = {}
  BY DEF HexadecimalDigit, DecimalDigit, AsciiWhitespace, NUL
<1>2. DecimalDigit \subseteq HexadecimalDigit /\ "." \notin AsciiWhitespace
  BY DEF HexadecimalDigit, AsciiWhitespace
<1> QED
  BY <1>1, <1>2 DEF DigitSet

(* How a decimal literal and a float differ. *)
LEMMA FloatChars ==
  /\ \A o : NumberStart("dec_int_literal", o) => NumberStart("float_literal", o)
  /\ \A o : NumberStart("float_literal", o) /\ ByteAt(o) # "." => NumberStart("dec_int_literal", o)
  /\ \A o, p : NumberByte("dec_int_literal", o, p) => NumberByte("float_literal", o, p)
  /\ \A o, p : NumberByte("float_literal", o, p) /\ ByteAt(p) # "." =>
                NumberByte("dec_int_literal", o, p)
<1>1. DigitSet("float_literal") = DecimalDigit /\ DigitSet("dec_int_literal") = DecimalDigit
  BY DEF DigitSet
<1>2. "float_literal" \notin DOMAIN RadixLetter /\ "dec_int_literal" \notin DOMAIN RadixLetter
  BY DEF RadixLetter
<1>3. "float_literal" # "dec_int_literal"
  OBVIOUS
<1> QED
  BY <1>1, <1>2, <1>3 DEF NumberStart, NumberByte

(* A digit or whitespace may stand in a literal. *)
LEMMA DigitsAndGaps ==
  ASSUME NEW kind, NEW o, NEW p, ByteAt(p) \in DigitSet(kind) \cup AsciiWhitespace
  PROVE  NumberByte(LiteralKind(kind), o, p)
<1>1. DigitSet(LiteralKind(kind)) = DigitSet(kind)
  BY DEF DigitSet, LiteralKind
<1> QED
  BY <1>1 DEF NumberByte

(* Nothing lies between an offset and itself. *)
LEMMA NoWhitespace ==
  ASSUME NEW e \in Nat
  PROVE  OnlyWhitespace(e, e)
BY DEF OnlyWhitespace

(* One more digit, or one more whitespace character. *)
LEMMA DigitTaken ==
  ASSUME NEW kind, NEW o \in Nat, NEW f \in Nat, NEW e \in Nat, NEW i \in Nat, o <= f,
         DigitBytes(kind, o, f, e, i)
  PROVE  /\ ByteAt(i) \in DigitSet(kind) => DigitBytes(kind, o, f, i + 1, i + 1)
         /\ ByteAt(i) \in AsciiWhitespace => DigitBytes(kind, o, f, e, i + 1)
<1>1. f < e /\ e <= i /\ f < i + 1 /\ e <= i + 1 /\ i + 1 <= i + 1 /\ i + 1 - 1 = i
  BY DEF DigitBytes
<1>2. ASSUME ByteAt(i) # ".", ByteAt(i) \in DigitSet(kind) \cup AsciiWhitespace
      PROVE  /\ \A p \in o..(i + 1 - 1) :
                  ByteAt(p) = "." <=> p = f /\ kind \in {"dot", "float_literal"}
             /\ \A p \in o..(i + 1 - 1) : NumberByte(LiteralKind(kind), o, p)
  <2>1. \A p \in o..(i + 1 - 1) : p = i \/ p \in o..(i - 1)
    OBVIOUS
  <2>2. i # f
    BY <1>1
  <2>3. NumberByte(LiteralKind(kind), o, i)
    BY <1>2, DigitsAndGaps
  <2>4. \A p \in o..(i + 1 - 1) : NumberByte(LiteralKind(kind), o, p)
    BY <2>1, <2>3 DEF DigitBytes
  <2> QED
    BY <1>2, <2>1, <2>2, <2>4 DEF DigitBytes
<1>3. ASSUME ByteAt(i) \in DigitSet(kind) PROVE DigitBytes(kind, o, f, i + 1, i + 1)
  <2>1. ByteAt(i) # "." /\ ByteAt(i) \notin AsciiWhitespace
    BY <1>3, DigitChars
  <2>2. kind \in {"dot", "float_literal"} => ByteAt(i) \in DecimalDigit
    BY <1>3, DigitChars
  <2>3. OnlyWhitespace(i + 1, i + 1)
    BY DEF OnlyWhitespace
  <2> QED
    BY <1>1, <1>2, <1>3, <2>1, <2>2, <2>3 DEF DigitBytes
<1>4. ASSUME ByteAt(i) \in AsciiWhitespace PROVE DigitBytes(kind, o, f, e, i + 1)
  <2>1. ByteAt(i) # "."
    BY <1>4, DigitChars
  <2>2. OnlyWhitespace(e, i + 1)
    <3>1. \A p \in e..(i + 1 - 1) : p = i \/ p \in e..(i - 1)
      OBVIOUS
    <3> QED
      BY <1>4, <3>1 DEF DigitBytes, OnlyWhitespace
  <2> QED
    BY <1>1, <1>2, <1>4, <2>1, <2>2 DEF DigitBytes
<1> QED
  BY <1>3, <1>4

(* What has to hold of the text before the cursor, for consume_digit_sequence to go on. *)
LEMMA DigitsGoOn ==
  ASSUME text' = text, FInv, tokens' = tokens, pc' \in {"digits", "digit_gap"},
         NEW kind, NEW o, NEW f, NEW e, NEW i, NEW n,
         local'.kind = kind, local'.offset = o, local'.from = f, local'.int_length = n, it' = i,
         pc' = "digits" => e = i, pc' = "digit_gap" => e = f + local'.length,
         DigitBytes(kind, o, f, e, i), kind = "float_literal" => IntegerPart(o, f, n)
  PROVE  FInv'
<1>1. DigitsEnd' = e
  BY DEF DigitsEnd
<1>2. DigitBytes(local.kind, local.offset, local.from, DigitsEnd, it)'
  BY <1>1 DEF DigitBytes, OnlyWhitespace, ByteAt, NumberStart, NumberByte
<1>3. (local.kind = "float_literal" => IntegerPart(local.offset, local.from, local.int_length))'
  BY DEF IntegerPart, OnlyWhitespace, ByteAt
<1> QED
  BY <1>2, <1>3, ListFits DEF FInv, DigitInv

(* The dispatch loop calls on_zero, on_nonzero or on_dot. *)
LEMMA DigitsEntered ==
  ASSUME IInv, FInv, on_zero \/ on_nonzero \/ on_dot
  PROVE  FInv'
<1>1. /\ text' = text /\ tokens' = tokens /\ pc = "source" /\ pc' = "digits"
      /\ pc' \in {"digits", "digit_gap"} /\ pc' # "digit_gap"
  BY DEF on_zero, on_nonzero, on_dot, EnterDigits, Enter
<1>2. PICK o, i : o = it /\ i = it' /\ o \in Nat
  BY <1>1, AtSource
<1>3. ASSUME NEW kind, EnterDigits(kind, it, it, 0), kind # "float_literal",
             DigitBytes(kind, o, o, i, i)
      PROVE  FInv'
  <2>1. local'.kind = kind /\ local'.offset = o /\ local'.from = o /\ local'.int_length = 0
    BY <1>2, <1>3 DEF EnterDigits, Enter, NoLocals
  <2> QED
    BY <1>1, <1>2, <1>3, <2>1, DigitsGoOn
<1>4. ASSUME NEW kind \in NumericKind \ {"float_literal"}, i \in Nat, o < i,
             \A p \in o..(i - 1) : ByteAt(p) \notin AsciiWhitespace \cup {"."},
             NumberStart(kind, o), \A p \in o..(i - 1) : NumberByte(kind, o, p)
      PROVE  DigitBytes(kind, o, o, i, i)
  <2>1. o \in Nat /\ i \in Nat /\ o < i
    BY <1>2, <1>4
  <2>2. i - 1 \in o..(i - 1) /\ OnlyWhitespace(i, i) /\ i <= i
    BY <2>1, NoWhitespace
  <2>3. kind \notin {"dot", "float_literal"} /\ LiteralKind(kind) = kind
    BY <1>4 DEF NumericKind, LiteralKind
  <2> QED
    BY <1>4, <2>2, <2>3 DEF DigitBytes
<1>5. {"dec_int_literal", "hex_int_literal", "bin_int_literal", "oct_int_literal"}
        = NumericKind \ {"float_literal"}
  BY DEF NumericKind
<1>6. ASSUME ByteAt(o) \in DecimalDigit, i = o + 1, EnterDigits("dec_int_literal", it, it, 0)
      PROVE  FInv'
  <2>1. \A p \in o..(i - 1) : p = o
    BY <1>2, <1>6
  <2>2. \A p \in o..(i - 1) : ByteAt(p) \notin AsciiWhitespace \cup {"."}
    BY <1>6, <2>1, DigitChars
  <2>3. i \in Nat /\ o < i
    BY <1>2, <1>6
  <2>4. NumberStart("dec_int_literal", o)
    BY <1>6 DEF NumberStart
  <2>5. \A p \in o..(i - 1) : NumberByte("dec_int_literal", o, p)
    BY <1>6, <2>1 DEF NumberByte, DigitSet
  <2>6. DigitBytes("dec_int_literal", o, o, i, i)
    BY <1>4, <1>5, <2>2, <2>3, <2>4, <2>5
  <2> QED
    BY <1>3, <1>6, <2>6
<1>7. CASE on_zero
  <2>1. PICK radix : radix = ByteAt(o + 1)
    OBVIOUS
  <2>2. ByteAt(o) = "0" /\ ByteAt(o) \in DecimalDigit
    BY <1>2, <1>7 DEF on_zero, peek, DecimalDigit
  <2>3. CASE radix \in DOMAIN RadixKind
    <3>1. i = o + 2 /\ EnterDigits(RadixKind[radix], it, it, 0)
      BY <1>2, <1>7, <2>1, <2>3 DEF on_zero, Advance
    <3>2. radix \notin AsciiWhitespace \cup {"."} /\ RadixKind[radix] \in NumericKind \ {"float_literal"}
      <4>1. \A r \in DOMAIN RadixKind : r \in {"x", "b", "o"}
        BY DEF RadixKind
      <4>2. {"x", "b", "o"} \cap (AsciiWhitespace \cup {"."}) = {}
        BY DEF AsciiWhitespace
      <4>3. \A r \in {"x", "b", "o"} : RadixKind[r] \in NumericKind \ {"float_literal"}
        BY DEF RadixKind, NumericKind
      <4> QED
        BY <2>3, <4>1, <4>2, <4>3
    <3>3. \A p \in o..(i - 1) : p = o \/ p = o + 1
      BY <1>2, <3>1
    <3>4. \A p \in o..(i - 1) : ByteAt(p) \notin AsciiWhitespace \cup {"."}
      BY <2>1, <2>2, <3>2, <3>3, DigitChars
    <3>5. i \in Nat /\ o < i
      BY <1>2, <3>1
    <3>6. PICK kind : kind = RadixKind[radix]
      OBVIOUS
    <3>7. /\ kind \in DOMAIN RadixLetter /\ RadixLetter[kind] = radix
          /\ kind \notin {"dec_int_literal", "float_literal"}
      <4>1. \A r \in DOMAIN RadixKind : r \in {"x", "b", "o"}
        BY DEF RadixKind
      <4>2. \A r \in {"x", "b", "o"} : /\ RadixKind[r] \in DOMAIN RadixLetter
                                       /\ RadixLetter[RadixKind[r]] = r
                                       /\ RadixKind[r] \notin {"dec_int_literal", "float_literal"}
        BY DEF RadixKind, RadixLetter
      <4> QED
        BY <2>3, <3>6, <4>1, <4>2
    <3>8. NumberStart(kind, o)
      BY <2>1, <2>2, <3>7 DEF NumberStart
    <3>9. \A p \in o..(i - 1) : NumberByte(kind, o, p)
      BY <2>2, <3>3, <3>7 DEF NumberByte, DigitSet, HexadecimalDigit
    <3>10. DigitBytes(kind, o, o, i, i)
      BY <1>4, <3>2, <3>4, <3>5, <3>6, <3>8, <3>9
    <3> QED
      BY <1>3, <3>1, <3>2, <3>6, <3>10
  <2>4. CASE radix \notin DOMAIN RadixKind
    <3>1. i = o + 1 /\ EnterDigits("dec_int_literal", it, it, 0)
      BY <1>2, <1>7, <2>1, <2>4 DEF on_zero, Advance
    <3> QED
      BY <1>6, <2>2, <3>1
  <2> QED
    BY <2>3, <2>4
<1>8. CASE on_nonzero
  <2>1. ByteAt(o) \in DecimalDigit /\ i = o + 1 /\ EnterDigits("dec_int_literal", it, it, 0)
    BY <1>2, <1>8 DEF on_nonzero, peek, Advance
  <2> QED
    BY <1>6, <2>1
<1>9. CASE on_dot
  <2>1. ByteAt(o) = "." /\ i = o + 1 /\ EnterDigits("dot", it, it, 0)
    BY <1>2, <1>9 DEF on_dot, peek, Advance
  <2>2. \A p \in o..(i - 1) : p = o
    BY <1>2, <2>1
  <2>3. i - 1 = o /\ o < i /\ i <= i /\ OnlyWhitespace(i, i) /\ ~(o < i - 1)
    BY <1>2, <2>1, NoWhitespace
  <2>4. NumberStart("float_literal", o) /\ NumberByte("float_literal", o, o)
    BY <2>1 DEF NumberStart, NumberByte
  <2>5. LiteralKind("dot") = "float_literal"
    BY DEF LiteralKind
  <2>6. DigitBytes("dot", o, o, i, i)
    BY <2>1, <2>2, <2>3, <2>4, <2>5, DigitChars DEF DigitBytes
  <2> QED
    BY <1>3, <2>1, <2>6
<1> QED
  BY <1>7, <1>8, <1>9

(***************************************************************************)
(* What the callers of consume_digit_sequence put after its last digit,    *)
(* which ends at e: the literal is fit, and so is the dot that has found   *)
(* no digit after it.                                                      *)
(***************************************************************************)
LEMMA FinishFits ==
  ASSUME IInv, FInv, pc \in {"digits", "digit_gap"}, text' = text,
         NEW e \in Nat, e = DigitsEnd,
         peek \notin DigitSet(local.kind) \cup AsciiWhitespace, FinishDigits(e - local.from)
  PROVE  FInv'
<1>1. PICK kind, o, f, i, n : /\ kind = local.kind /\ o = local.offset /\ f = local.from
                              /\ i = it /\ n = local.int_length
  OBVIOUS
<1>2. /\ o \in Nat /\ f \in Nat /\ i \in 0..Len(text) /\ i \in Nat /\ n \in Nat /\ Len(text) \in Nat
      /\ o <= f /\ f < i /\ text \in Seq(Byte)
      /\ Len(text) <= source_size_max /\ source_size_max \in Nat
  BY <1>1, TextLength, SourceSizeAssumption DEF IInv, TypeOK, LocalsType, LoopInv, SizeInv, Loop
<1>3. DigitBytes(kind, o, f, e, i) /\ (kind = "float_literal" => IntegerPart(o, f, n))
  BY <1>1 DEF FInv, DigitInv
<1>4. /\ f < e /\ e <= i /\ OnlyWhitespace(e, i) /\ ByteAt(e - 1) \notin AsciiWhitespace
      /\ \A p \in o..(i - 1) : ByteAt(p) = "." <=> p = f /\ kind \in {"dot", "float_literal"}
      /\ kind \in {"dot", "float_literal"} /\ f < e - 1 => ByteAt(e - 1) \in DecimalDigit
      /\ kind # "float_literal" => o = f
      /\ NumberStart(LiteralKind(kind), o) /\ \A p \in o..(i - 1) : NumberByte(LiteralKind(kind), o, p)
  BY <1>3 DEF DigitBytes
<1>5. ByteAt(i) \notin DigitSet(kind) \cup AsciiWhitespace
  BY <1>1 DEF peek
<1>6. o \in 0..source_size_max /\ f \in 0..source_size_max /\ e - f \in Nat /\ f + (e - f) = e
  BY <1>2, <1>4
<1>7. ASSUME pc' = "source", \E t \in Single : tokens' = Append(tokens, t) PROVE FInv'
  BY <1>7, FitGrows
<1>8. ASSUME NEW k \in NumericKind \ {"float_literal"}, k = kind PROVE Token(k, o, e - f) \in Single
  <2>1. k \notin {"dot", "float_literal"} /\ o = f /\ LiteralKind(kind) = k
    BY <1>4, <1>8 DEF NumericKind, LiteralKind
  <2>2. NumberStart(k, o) /\ \A p \in o..(e - 1) : NumberByte(k, o, p)
    BY <1>2, <1>4, <2>1
  <2>3. PICK m \in Nat : m = e - f /\ o + m = e
    BY <1>6, <2>1
  <2>4. o + m <= i /\ ByteAt(o + m - 1) \notin AsciiWhitespace /\ OnlyWhitespace(o + m, i)
        /\ NumberStart(k, o) /\ \A p \in o..(o + m - 1) : NumberByte(k, o, p)
    <3>1. e <= i /\ ByteAt(e - 1) \notin AsciiWhitespace /\ OnlyWhitespace(e, i) /\ o + m = e
      BY <1>4, <2>3
    <3> QED
      BY <1>2, <2>2, <3>1
  <2>5. ByteAt(i) \notin DigitSet(k) \cup AsciiWhitespace
    BY <1>5, <1>8
  <2>6. Token(k, o, m) \in Single
    BY <1>2, <1>6, <2>4, <2>5, IntegerFits
  <2> QED
    BY <2>3, <2>6
<1>9. ASSUME kind \in {"dot", "float_literal"}, e - f > 1
      PROVE  Token("float_literal", o, f - o + (e - f)) \in Single
  <2>1. PICK m \in Nat : m = f - o + (e - f) /\ o + m = e
    BY <1>2, <1>6
  <2>2. f < e - 1 /\ f \in o..(e - 1)
    BY <1>2, <1>4, <1>9
  <2>3. \A p \in o..(e - 1) : ByteAt(p) = "." <=> p = f
    BY <1>2, <1>4, <1>9
  <2>4. ByteAt(e - 1) \in DecimalDigit /\ ByteAt(i) \notin DecimalDigit \cup AsciiWhitespace
    BY <1>4, <1>5, <1>9, <2>2, DigitChars
  <2>5. Token("float_literal", o, m) \in Single
    <3>1. o + m = e /\ o + m - 1 = e - 1 /\ m \in Nat /\ f \in Nat
      BY <1>2, <1>6, <2>1
    <3>2. f \in o..(o + m - 1) /\ o + m <= i
      BY <1>4, <2>2, <3>1
    <3>3. ByteAt(o + m - 1) \in DecimalDigit /\ ByteAt(i) \notin DecimalDigit \cup AsciiWhitespace
      BY <2>4, <3>1
    <3>4. ByteAt(o + m - 1) \notin AsciiWhitespace
      BY <1>4, <3>1
    <3>5. OnlyWhitespace(o + m, i)
      BY <1>4, <3>1
    <3>6. \A p \in o..(o + m - 1) : ByteAt(p) = "." <=> p = f
      BY <2>3, <3>1
    <3>7. LiteralKind(kind) = "float_literal"
      BY <1>9 DEF LiteralKind
    <3>8. NumberStart("float_literal", o) /\ \A p \in o..(o + m - 1) : NumberByte("float_literal", o, p)
      BY <1>2, <1>4, <3>1, <3>7
    <3> QED
      BY <1>2, <1>6, <3>1, <3>2, <3>3, <3>4, <3>5, <3>6, <3>8, FloatFits
  <2> QED
    BY <2>1, <2>5
<1>10. ASSUME kind \in {"dot", "float_literal"}, ~(e - f > 1) PROVE Token("dot", f, 0) \in Single
  <2>1. e = f + 1 /\ f + 1 <= i /\ f \in o..(i - 1)
    BY <1>2, <1>4, <1>10
  <2>2. ByteAt(f) = "." /\ OnlyWhitespace(f + 1, i)
    BY <1>4, <1>10, <2>1
  <2>3. ByteAt(i) \notin DecimalDigit \cup AsciiWhitespace
    BY <1>5, <1>10, DigitChars
  <2> QED
    BY <1>2, <1>6, <2>1, <2>2, <2>3, DotFits
<1>11. CASE /\ local.kind \in {"hex_int_literal", "bin_int_literal", "oct_int_literal"}
            /\ Put(local.kind, local.offset, e - local.from) /\ Return
  <2>1. kind \in NumericKind \ {"float_literal"}
    BY <1>1, <1>11 DEF NumericKind
  <2>2. Token(kind, o, e - f) \in Single
    BY <1>8, <2>1
  <2>3. tokens' = Append(tokens, Token(kind, o, e - f)) /\ pc' = "source"
    BY <1>1, <1>11 DEF Put, Return
  <2> QED
    BY <1>7, <2>2, <2>3
<1>12. CASE /\ local.kind = "dec_int_literal"
            /\ Put("dec_int_literal", local.offset, e - local.from) /\ Return
  <2>1. kind \in NumericKind \ {"float_literal"} /\ kind = "dec_int_literal"
    BY <1>1, <1>12 DEF NumericKind
  <2>2. Token(kind, o, e - f) \in Single
    BY <1>8, <2>1
  <2>3. tokens' = Append(tokens, Token(kind, o, e - f)) /\ pc' = "source"
    BY <1>1, <1>12, <2>1 DEF Put, Return
  <2> QED
    BY <1>7, <2>2, <2>3
<1>13. CASE /\ local.kind = "dec_int_literal" /\ peek = "." /\ Advance(1)
            /\ EnterDigits("float_literal", local.offset, it, e - local.from) /\ UNCHANGED tokens
  <2>1. kind = "dec_int_literal" /\ o = f /\ ByteAt(i) = "."
    BY <1>1, <1>4, <1>13 DEF peek
  <2>2. PICK m \in Nat : m = e - f /\ o + m = e /\ m >= 1
    BY <1>2, <1>4, <2>1
  <2>3. /\ pc' = "digits" /\ local'.kind = "float_literal" /\ local'.offset = o /\ local'.from = i
        /\ local'.int_length = m
    BY <1>1, <1>13, <2>2 DEF EnterDigits, Enter, NoLocals
  <2>4. it' = i + 1 /\ tokens' = tokens
    BY <1>1, <1>13 DEF Advance
  <2>5. IntegerPart(o, i, m)
    <3>1. e <= i /\ ByteAt(e - 1) \notin AsciiWhitespace /\ OnlyWhitespace(e, i) /\ o + m = e
      BY <1>4, <2>2
    <3>2. m >= 1
      BY <2>2
    <3> QED
      BY <1>2, <3>1, <3>2 DEF IntegerPart
  <2>6. DigitBytes("float_literal", o, i, i + 1, i + 1)
    <3>1. \A p \in o..(i + 1 - 1) : p = i \/ p \in o..(i - 1)
      BY <1>2
    <3>2. \A p \in o..(i - 1) : p # i /\ ByteAt(p) # "."
      BY <1>2, <1>4, <2>1
    <3>3. i < i + 1 /\ i + 1 <= i + 1 /\ i + 1 - 1 = i /\ ~(i < i + 1 - 1)
          /\ OnlyWhitespace(i + 1, i + 1)
      BY <1>2, NoWhitespace
    <3>4. \A p \in o..(i + 1 - 1) : ByteAt(p) = "." <=> p = i
      BY <2>1, <3>1, <3>2
    <3>5. ByteAt(i + 1 - 1) \notin AsciiWhitespace
      BY <2>1, <3>3, DigitChars
    <3>6. "float_literal" \in NumericKind \cup {"dot"}
      BY DEF NumericKind
    <3>7. "float_literal" \in {"dot", "float_literal"} /\ LiteralKind("float_literal") = "float_literal"
          /\ LiteralKind(kind) = "dec_int_literal"
      BY <2>1 DEF LiteralKind
    <3>8. NumberStart("float_literal", o) /\ \A p \in o..(i - 1) : NumberByte("float_literal", o, p)
      BY <1>4, <3>7, FloatChars
    <3>9. NumberByte("float_literal", o, i)
      BY <2>1 DEF NumberByte
    <3>10. \A p \in o..(i + 1 - 1) : NumberByte("float_literal", o, p)
      BY <3>1, <3>8, <3>9
    <3> QED
      BY <1>2, <3>3, <3>4, <3>5, <3>6, <3>7, <3>8, <3>10 DEF DigitBytes
  <2>7. pc' \in {"digits", "digit_gap"} /\ pc' # "digit_gap"
    BY <2>3
  <2> QED
    BY <2>3, <2>4, <2>5, <2>6, <2>7, DigitsGoOn
<1>14. CASE /\ local.kind = "float_literal"
            /\ IF e - local.from > 1
               THEN Put("float_literal", local.offset, local.from - local.offset + (e - local.from))
               ELSE tokens' = tokens \o <<Token("dec_int_literal", local.offset, local.int_length),
                                          Token("dot", local.from, 0)>>
            /\ Return
  <2>1. kind \in {"dot", "float_literal"} /\ pc' = "source" /\ kind = "float_literal"
    BY <1>1, <1>14 DEF Return
  <2>2. CASE e - f > 1
    <3>1. Token("float_literal", o, f - o + (e - f)) \in Single
      BY <1>9, <2>1, <2>2
    <3>2. tokens' = Append(tokens, Token("float_literal", o, f - o + (e - f)))
      BY <1>1, <1>14, <2>2 DEF Put
    <3> QED
      BY <1>7, <2>1, <3>1, <3>2
  <2>3. CASE ~(e - f > 1)
    <3>1. /\ n >= 1 /\ o + n <= f /\ ByteAt(o + n - 1) \notin AsciiWhitespace
          /\ OnlyWhitespace(o + n, f)
      BY <1>3, <2>1 DEF IntegerPart
    <3>2. ByteAt(f) = "."
      BY <1>2, <1>4, <2>1
    <3>3. NumberStart("dec_int_literal", o)
          /\ \A p \in o..(o + n - 1) : NumberByte("dec_int_literal", o, p)
      <4>1. \A p \in o..(o + n - 1) : p \in o..(i - 1) /\ p # f
        BY <1>2, <3>1
      <4>2. \A p \in o..(o + n - 1) : ByteAt(p) # "."
        BY <1>4, <4>1
      <4>3. LiteralKind(kind) = "float_literal" /\ o \in o..(o + n - 1)
        BY <1>2, <2>1, <3>1 DEF LiteralKind
      <4>4. NumberStart("float_literal", o) /\ \A p \in o..(o + n - 1) : NumberByte("float_literal", o, p)
        BY <1>4, <4>1, <4>3
      <4> QED
        BY <4>2, <4>3, <4>4, FloatChars
    <3>4. ByteAt(f) \notin DigitSet("dec_int_literal") \cup AsciiWhitespace
      BY <3>2, DigitChars DEF NumericKind
    <3>5. f \in 0..Len(text) /\ "dec_int_literal" \in NumericKind \ {"float_literal"}
      BY <1>2 DEF NumericKind
    <3>6. Token("dec_int_literal", o, n) \in Single
      BY <1>2, <1>6, <3>1, <3>3, <3>4, <3>5, IntegerFits
    <3>7. Token("dot", f, 0) \in Single
      BY <1>10, <2>1, <2>3
    <3>8. tokens' = tokens \o <<Token("dec_int_literal", o, n), Token("dot", f, 0)>>
      BY <1>1, <1>14, <2>3
    <3>9. \E t \in Single, u \in Single : tokens' = tokens \o <<t, u>>
      BY <3>6, <3>7, <3>8
    <3> QED
      BY <2>1, <3>9, FitGrows
  <2> QED
    BY <2>2, <2>3
<1>15. CASE /\ local.kind = "dot"
            /\ IF e - local.from > 1
               THEN Put("float_literal", local.offset, e - local.from)
               ELSE Put("dot", local.offset, 0)
            /\ Return
  <2>1. kind \in {"dot", "float_literal"} /\ pc' = "source" /\ o = f
    BY <1>1, <1>4, <1>15 DEF Return
  <2>2. CASE e - f > 1
    <3>1. Token("float_literal", o, f - o + (e - f)) \in Single /\ f - o + (e - f) = e - f
      BY <1>2, <1>6, <1>9, <2>1, <2>2
    <3>2. tokens' = Append(tokens, Token("float_literal", o, e - f))
      BY <1>1, <1>15, <2>2 DEF Put
    <3> QED
      BY <1>7, <2>1, <3>1, <3>2
  <2>3. CASE ~(e - f > 1)
    <3>1. Token("dot", f, 0) \in Single
      BY <1>10, <2>1, <2>3
    <3>2. tokens' = Append(tokens, Token("dot", f, 0))
      BY <1>1, <1>15, <2>1, <2>3 DEF Put
    <3> QED
      BY <1>7, <2>1, <3>1, <3>2
  <2> QED
    BY <2>2, <2>3
<1> QED
  BY <1>11, <1>12, <1>13, <1>14, <1>15 DEF FinishDigits

(* The loops of consume_digit_sequence, and what its callers do then. *)
LEMMA DigitStepFit ==
  ASSUME IInv, FInv, DigitStep
  PROVE  FInv'
<1>1. Next /\ pc \in {"digits", "digit_gap"} /\ text' = text /\ DigitInv
  BY ReportsGrow DEF Next, DigitStep, ConsumeDigit, OpenDigitGap, EndDigits, SkipDigitGap,
     CloseDigitGap, EndDigitGap, FInv
<1>2. PICK kind, o, f, e, i, n :
        /\ kind = local.kind /\ o = local.offset /\ f = local.from
        /\ e = DigitsEnd /\ i = it /\ n = local.int_length
  OBVIOUS
<1>3. /\ o \in Nat /\ f \in Nat /\ i \in Nat /\ o <= f /\ f < i
      /\ local \in LocalsType /\ local.length \in Nat
  BY <1>1, <1>2, TextLength DEF IInv, TypeOK, LocalsType, LoopInv
<1>4. e \in Nat /\ (pc = "digits" => e = i) /\ (pc = "digit_gap" => e = f + local.length)
  BY <1>1, <1>2, <1>3 DEF DigitsEnd
<1>5. DigitBytes(kind, o, f, e, i) /\ (kind = "float_literal" => IntegerPart(o, f, n))
  BY <1>1, <1>2 DEF DigitInv
<1>6. /\ ByteAt(i) \in DigitSet(kind) => DigitBytes(kind, o, f, i + 1, i + 1)
      /\ ByteAt(i) \in AsciiWhitespace => DigitBytes(kind, o, f, e, i + 1)
  BY <1>3, <1>4, <1>5, DigitTaken
<1>7. CASE ConsumeDigit \/ CloseDigitGap
  <2>1. /\ ByteAt(i) \in DigitSet(kind) /\ it' = i + 1 /\ pc' = "digits" /\ tokens' = tokens
        /\ local' = local
    BY <1>2, <1>7 DEF ConsumeDigit, CloseDigitGap, peek, Advance, Goto
  <2>2. /\ local'.kind = kind /\ local'.offset = o /\ local'.from = f /\ local'.int_length = n
        /\ pc' \in {"digits", "digit_gap"} /\ pc' # "digit_gap"
    BY <1>2, <2>1
  <2> QED
    BY <1>1, <1>5, <1>6, <2>1, <2>2, DigitsGoOn
<1>8. CASE SkipDigitGap
  <2>1. /\ ByteAt(i) \in AsciiWhitespace /\ it' = i + 1 /\ pc = "digit_gap" /\ pc' = "digit_gap"
        /\ tokens' = tokens /\ local' = local
    BY <1>2, <1>8 DEF SkipDigitGap, peek, Advance
  <2>2. /\ local'.kind = kind /\ local'.offset = o /\ local'.from = f /\ local'.int_length = n
        /\ pc' \in {"digits", "digit_gap"} /\ pc' # "digits" /\ e = f + local'.length
    BY <1>2, <1>4, <2>1
  <2> QED
    BY <1>1, <1>5, <1>6, <2>1, <2>2, DigitsGoOn
<1>9. CASE OpenDigitGap
  <2>1. /\ ByteAt(i) \in AsciiWhitespace /\ it' = i + 1 /\ pc = "digits" /\ pc' = "digit_gap"
        /\ tokens' = tokens /\ local' = [local EXCEPT !.length = it - local.from]
    BY <1>2, <1>9 DEF OpenDigitGap, peek, Advance, Enter
  <2>2. /\ local'.kind = kind /\ local'.offset = o /\ local'.from = f /\ local'.int_length = n
        /\ local'.length = i - f
    BY <1>2, <1>3, <2>1 DEF LocalsType
  <2>3. pc' \in {"digits", "digit_gap"} /\ pc' # "digits" /\ e = f + local'.length
    BY <1>3, <1>4, <2>1, <2>2
  <2> QED
    BY <1>1, <1>5, <1>6, <2>1, <2>2, <2>3, DigitsGoOn
<1>10. CASE EndDigits
  <2>1. FinishDigits(e - local.from) /\ peek \notin DigitSet(local.kind) \cup AsciiWhitespace
    <3>1. pc = "digits" /\ e = it
      BY <1>2, <1>4, <1>10 DEF EndDigits
    <3> QED
      BY <1>10, <3>1 DEF EndDigits
  <2> QED
    BY <1>1, <1>2, <1>4, <2>1, FinishFits
<1>11. CASE EndDigitGap
  <2>1. FinishDigits(e - local.from) /\ peek \notin DigitSet(local.kind) \cup AsciiWhitespace
    <3>1. pc = "digit_gap" /\ e = f + local.length
      BY <1>4, <1>11 DEF EndDigitGap
    <3>2. e - local.from = local.length
      BY <1>2, <1>3, <3>1
    <3> QED
      BY <1>11, <3>2 DEF EndDigitGap
  <2> QED
    BY <1>1, <1>2, <1>4, <2>1, FinishFits
<1> QED
  BY <1>7, <1>8, <1>9, <1>10, <1>11 DEF DigitStep

(* The handlers of operators. *)
LEMMA OperatorStepFit ==
  ASSUME IInv, FInv, on_operator
  PROVE  FInv'
<1>1. pc = "source" /\ text' = text /\ it \in Nat /\ text \in Seq(Byte)
      /\ Len(text) <= source_size_max /\ it \in 0..source_size_max
  <2>1. pc = "source" /\ text' = text
    BY DEF on_operator
  <2> QED
    BY <2>1, AtSource DEF IInv, TypeOK
<1>2. PICK i \in DOMAIN Alternatives :
        Matched(i) /\ Act(Alternatives[i].chars, Alternatives[i].kind)
  BY DEF on_operator
<1>3. PICK chars, kind : /\ chars = Alternatives[i].chars /\ kind = Alternatives[i].kind
                         /\ Act(chars, kind)
  BY <1>2
<1>4. CASE chars = <<">", ">">>
  <2>1. tokens' = tokens \o <<Token(kind, it, 0), Token(kind, it + 1, 0)>> /\ pc' = pc
    <3>1. kind \notin CommentKind
      BY <1>1, <1>2, <1>3, <1>4, ShiftFits DEF CommentKind
    <3> QED
      BY <1>3, <1>4, <3>1 DEF Act
  <2>2. Pair(Token(kind, it, 0), Token(kind, it + 1, 0))
    BY <1>1, <1>2, <1>3, <1>4, ShiftFits
  <2>3. \E t, u : Pair(t, u) /\ tokens' = tokens \o <<t, u>>
    BY <2>1, <2>2
  <2> QED
    BY <1>1, <2>1, <2>3, FitGrows
<1>5. CASE chars # <<">", ">">> /\ kind \in CommentKind
  <2>1. tokens' = tokens /\ pc' \in CommentKind
    BY <1>2, <1>3, <1>5 DEF Act, Enter
  <2> QED
    BY <1>1, <2>1, FitGrows DEF CommentKind
<1>6. CASE chars # <<">", ">">> /\ kind \notin CommentKind
  <2>1. tokens' = Append(tokens, Token(kind, it, 0)) /\ pc' = pc
    BY <1>2, <1>3, <1>6 DEF Act, Put
  <2>2. Token(kind, it, 0) \in Single
    BY <1>1, <1>2, <1>3, <1>6, OperatorFits
  <2> QED
    BY <1>1, <2>1, <2>2, FitGrows
<1> QED
  BY <1>4, <1>5, <1>6

(* What the other handlers put is plain. *)
LEMMA OtherStepsFit ==
  ASSUME IInv, EInv, FInv, RunStep \/ DispatchStep \/ WordStep \/ CommentStep \/ QuoteStep
  PROVE  FInv'
<1>1. Next /\ text' = text /\ it \in Nat
  BY ReportsGrow, TextLength DEF Next, IInv
<1>2. ASSUME tokens' = tokens, pc' \notin {"digits", "digit_gap"} PROVE FInv'
  BY <1>1, <1>2, FitGrows
<1>3. CASE RunStep
  <2>1. pc' \notin {"digits", "digit_gap"} /\ (tokens' = tokens \/ Put("end_of_file", it, 0))
    BY <1>3 DEF RunStep, RefuseSource, StartSource, Goto
  <2> QED
    BY <1>1, <1>2, <2>1, PlainPut, PlainKinds
<1>4. CASE DispatchStep
  <2>1. ASSUME EndSource PROVE FInv'
    <3>1. pc' \notin {"digits", "digit_gap"} /\ Put("end_of_file", it, 0)
      BY <2>1 DEF EndSource, Goto
    <3> QED
      BY <1>1, <3>1, PlainPut, PlainKinds
  <2>2. ASSUME SkipWhitespace \/ on_alphabetic \/ on_quote \/ StartWordUtf8 \/ RejectChar PROVE FInv'
    <3>1. tokens' = tokens /\ pc' \notin {"digits", "digit_gap"}
      BY <2>2 DEF SkipWhitespace, on_alphabetic, on_quote, StartWordUtf8, RejectChar, Enter
    <3> QED
      BY <1>2, <3>1
  <2> QED
    BY <1>4, <2>1, <2>2, DigitsEntered, OperatorStepFit DEF DispatchStep
<1>5. CASE WordStep
  <2>1. pc = "word" /\ pc \in Loop /\ WordInv
    BY <1>5 DEF WordStep, ConsumeIdentifierChar, EndWord, ContinueWordUtf8, BreakWordUtf8, Loop, EInv
  <2>2. local.offset \in Nat /\ Len(text) \in Nat /\ local.offset <= it /\ it <= Len(text)
    BY <2>1, AtFrontier
  <2>3. CASE ConsumeIdentifierChar \/ ContinueWordUtf8
    <3>1. tokens' = tokens /\ pc' \notin {"digits", "digit_gap"}
      BY <2>3 DEF ConsumeIdentifierChar, ContinueWordUtf8
    <3> QED
      BY <1>2, <3>1
  <2>4. ASSUME NEW e \in Nat, it <= e, PutWord(local.offset, local.may_be_keyword, e), Return
        PROVE  FInv'
    <3>1. pc' \notin {"digits", "digit_gap"} /\ e - local.offset \in Nat
      BY <1>1, <2>2, <2>4 DEF Return
    <3>2. \/ \E kind \in KeywordKind : Put(kind, local.offset, 0)
          \/ Put("identifier", local.offset, e - local.offset)
      BY <2>4, KeywordsAssumption DEF PutWord, KeywordsSpelled, KeywordsFor
    <3> QED
      BY <1>1, <2>2, <3>1, <3>2, PlainPut, PlainKinds
  <2>5. CASE EndWord
    BY <1>1, <2>4, <2>5 DEF EndWord
  <2>6. CASE BreakWordUtf8
    <3>1. Utf8Width(it) \in 1..(Len(text) - it)
      BY <2>6, CharClasses, Utf8WidthFits DEF BreakWordUtf8, IInv
    <3>2. PICK e \in Nat : e = it + Utf8Width(it) /\ it <= e
      BY <1>1, <2>2, <3>1
    <3> QED
      BY <2>4, <2>6, <3>2 DEF BreakWordUtf8
  <2> QED
    BY <1>5, <2>3, <2>5, <2>6 DEF WordStep
<1>6. CASE CommentStep
  <2>1. pc \in CommentKind /\ pc \in Loop
    BY <1>6 DEF CommentStep, ConsumeLineCommentChar, EndLineComment, NestBlockComment,
       CloseBlockComment, ConsumeBlockCommentChar, AbandonBlockComment, CommentKind, Loop
  <2>2. local.kind \in PlainKind /\ local.offset \in Nat /\ local.offset <= it
    BY <1>1, <2>1, PlainKinds, AtFrontier DEF EInv
  <2>3. ASSUME NEW e \in Nat, it <= e, PutComment(e), Return PROVE FInv'
    <3>1. pc' \notin {"digits", "digit_gap"} /\ e - local.offset \in Nat
      BY <1>1, <2>2, <2>3 DEF Return
    <3>2. tokens' = tokens \/ Put(local.kind, local.offset, e - local.offset)
      BY <2>3 DEF PutComment
    <3> QED
      BY <1>1, <1>2, <2>2, <3>1, <3>2, PlainPut
  <2>4. it <= it /\ it + 2 \in Nat /\ it <= it + 2
    BY <1>1
  <2>5. CASE ConsumeLineCommentChar \/ NestBlockComment \/ ConsumeBlockCommentChar
    <3>1. tokens' = tokens /\ pc' \notin {"digits", "digit_gap"}
      BY <2>1, <2>5 DEF ConsumeLineCommentChar, NestBlockComment, ConsumeBlockCommentChar, CommentKind
    <3> QED
      BY <1>2, <3>1
  <2>6. CASE EndLineComment \/ AbandonBlockComment
    BY <1>1, <2>3, <2>4, <2>6 DEF EndLineComment, AbandonBlockComment
  <2>7. CASE CloseBlockComment
    <3>1. CASE local.unclosed_count = 1
      BY <2>3, <2>4, <2>7, <3>1 DEF CloseBlockComment
    <3>2. CASE local.unclosed_count # 1
      <4>1. tokens' = tokens /\ pc' \notin {"digits", "digit_gap"}
        BY <2>7, <3>2 DEF CloseBlockComment
      <4> QED
        BY <1>2, <4>1
    <3> QED
      BY <3>1, <3>2
  <2> QED
    BY <1>6, <2>5, <2>6, <2>7 DEF CommentStep
<1>7. CASE QuoteStep
  <2>1. pc = "quote" /\ pc \in Loop /\ QuoteInv
    BY <1>7 DEF QuoteStep, ConsumeQuotedChar, CloseQuote, AbandonQuote, Loop, EInv
  <2>2. local.kind \in PlainKind /\ local.offset \in Nat /\ local.offset <= it
    BY <1>1, <2>1, PlainKinds, AtFrontier, Quotes DEF QuoteInv
  <2>3. it + 1 - local.offset \in Nat /\ it - local.offset \in Nat
    BY <1>1, <2>2
  <2>4. pc' \notin {"digits", "digit_gap"}
    BY <1>7 DEF QuoteStep, ConsumeQuotedChar, CloseQuote, AbandonQuote, Return
  <2>5. \/ tokens' = tokens
        \/ Put(local.kind, local.offset, it + 1 - local.offset)
        \/ Put(local.kind, local.offset, it - local.offset)
    BY <1>7 DEF QuoteStep, ConsumeQuotedChar, CloseQuote, AbandonQuote
  <2> QED
    BY <1>1, <1>2, <2>2, <2>3, <2>4, <2>5, PlainPut
<1> QED
  BY <1>3, <1>4, <1>5, <1>6, <1>7

(* A stuttering step changes nothing. *)
LEMMA StutterFit ==
  ASSUME FInv, UNCHANGED vars
  PROVE  FInv'
<1>1. /\ text' = text /\ it' = it /\ tokens' = tokens /\ pc' = pc /\ local' = local
  BY DEF vars
<1>2. DigitInv => DigitInv'
  BY <1>1 DEF DigitInv, DigitBytes, IntegerPart, DigitsEnd, OnlyWhitespace, ByteAt, NumberStart,
     NumberByte
<1> QED
  BY <1>1, <1>2, ListFits DEF FInv

(***************************************************************************)
(* For every text, what consume_digit_sequence knows about the bytes       *)
(* behind it is true, and so is what the numbers and the punctuation in    *)
(* the list say.                                                           *)
(***************************************************************************)
THEOREM FitInvariance == Spec => []FInv
<1>1. Init => FInv
  <2> SUFFICES ASSUME Init PROVE FInv
    OBVIOUS
  <2>1. tokens = <<>> /\ pc = "run"
    BY DEF Init
  <2>2. Pairing(<<>>, {})
    BY DEF Pairing
  <2> QED
    BY <2>1, <2>2 DEF FInv
<1>2. IInv /\ EInv /\ FInv /\ [Next]_vars => FInv'
  <2> SUFFICES ASSUME IInv, EInv, FInv, [Next]_vars PROVE FInv'
    OBVIOUS
  <2>1. CASE Next /\ ~Returned
    BY <2>1, DigitStepFit, OtherStepsFit DEF Next
  <2>2. CASE UNCHANGED vars \/ Returned
    BY <2>2, StutterFit DEF Returned
  <2> QED
    BY <2>1, <2>2
<1> QED
  BY <1>1, <1>2, Invariance, ExtentInvariance, PTL DEF Spec

(* A token of the list, by the invariant. *)
LEMMA TokenIsFit ==
  ASSUME FInv, NEW i \in 1..Len(tokens)
  PROVE  FitOK(tokens[i])
<1>1. tokens[i] \in Fit
  BY DEF FInv
<1> QED
  BY <1>1 DEF Fit

(* The pairs of > in the list, by the invariant. *)
LEMMA AnglesArePaired ==
  ASSUME FInv
  PROVE  \E firsts \in SUBSET TokensOf({"r_angle"}) : AnglesPaired(firsts)
<1>1. PICK firsts : Pairing(tokens, firsts)
  BY DEF FInv
<1>2. firsts \in SUBSET TokensOf({"r_angle"})
  BY <1>1 DEF Pairing, Pair, TokensOf
<1>3. ASSUME NEW i \in firsts
      PROVE  /\ i + 1 \in TokensOf({"r_angle"}) \ firsts
             /\ tokens[i + 1].offset = End(tokens[i])
             /\ ByteAt(End(tokens[i + 1])) # "="
  BY <1>1 DEF Pairing, Pair, TokensOf
<1>4. ASSUME NEW i \in TokensOf({"r_angle"}) \ firsts
      PROVE  i - 1 \in firsts \/ ByteAt(End(tokens[i])) \notin {">", "="}
  BY <1>1 DEF Pairing, Single, TokensOf
<1>5. AnglesPaired(firsts)
  BY <1>3, <1>4 DEF AnglesPaired
<1> QED
  BY <1>2, <1>5

(***************************************************************************)
(* The order in which the operator handlers try their alternatives never   *)
(* cuts an operator short: no longer punctuation and no comment begins     *)
(* where a punctuation token stands, but for the two halves of >>.  These  *)
(* are put only where >>= does not follow; a single > has neither > nor =  *)
(* after it.                                                               *)
(***************************************************************************)
THEOREM PunctuationStaysLongest == Spec => []MaximalMunch
<1>1. FInv => MaximalMunch
  <2> SUFFICES ASSUME FInv PROVE MaximalMunch
    OBVIOUS
  <2>1. \A i \in TokensOf(PunctuationKind) : LongestMatch(tokens[i])
    BY TokenIsFit DEF TokensOf, FitOK
  <2> QED
    BY <2>1, AnglesArePaired DEF MaximalMunch
<1> QED
  BY <1>1, FitInvariance, PTL

(***************************************************************************)
(* A numeric literal is made of digits, of the whitespace between them, of *)
(* its radix prefix and, if it is a float, of one dot.  It ends before     *)
(* trailing whitespace, takes every digit that follows, and has the dot    *)
(* exactly when a digit follows it; a dot that is a token of its own has   *)
(* no digit after it.                                                      *)
(***************************************************************************)
THEOREM NumbersStayWhole == Spec => []NumbersWhole
<1>1. FInv => NumbersWhole
  BY TokenIsFit DEF NumbersWhole, TokensOf, FitOK
<1> QED
  BY <1>1, FitInvariance, PTL

-----------------------------------------------------------------------------
(* Nothing is lost *)

(* The lexer has stopped only at the end of the text, or with a report. *)
StopInv ==
  pc = "done" /\ ~Refused =>
    it = Len(text) \/ (ByteAt(it) = NUL /\ Reported("invalid_character", it))

(* All that lies before the frontier is accounted for. *)
LInv ==
  /\ emit_comments => \A p \in 0..(Frontier - 1) : Accounted(p)
  /\ StopInv

(* Tokens are only added, one or two at a time. *)
LEMMA TokensGrow ==
  ASSUME Next
  PROVE  /\ emit_comments' = emit_comments
         /\ \/ tokens' = tokens
            \/ \E t : tokens' = Append(tokens, t)
            \/ \E t, u : tokens' = tokens \o <<t, u>>
<1> USE DEF Put
<1>1. CASE RunStep
  BY <1>1 DEF RunStep, RefuseSource, StartSource
<1>2. CASE DispatchStep
  <2>1. CASE on_operator
    BY <2>1 DEF on_operator, Act
  <2>2. CASE ~on_operator
    BY <1>2, <2>2 DEF DispatchStep, EndSource, SkipWhitespace, on_alphabetic, on_zero, on_nonzero,
       on_dot, on_quote, StartWordUtf8, RejectChar
  <2> QED
    BY <2>1, <2>2
<1>3. CASE WordStep
  BY <1>3 DEF WordStep, ConsumeIdentifierChar, EndWord, ContinueWordUtf8, BreakWordUtf8, PutWord
<1>4. CASE DigitStep
  <2>1. \A length : FinishDigits(length) => \/ tokens' = tokens
                                            \/ \E t : tokens' = Append(tokens, t)
                                            \/ \E t, u : tokens' = tokens \o <<t, u>>
    BY DEF FinishDigits
  <2> QED
    BY <1>4, <2>1 DEF DigitStep, ConsumeDigit, OpenDigitGap, EndDigits, SkipDigitGap, CloseDigitGap,
       EndDigitGap
<1>5. CASE CommentStep
  BY <1>5 DEF CommentStep, ConsumeLineCommentChar, EndLineComment, NestBlockComment,
     CloseBlockComment, ConsumeBlockCommentChar, AbandonBlockComment, PutComment
<1>6. CASE QuoteStep
  BY <1>6 DEF QuoteStep, ConsumeQuotedChar, CloseQuote, AbandonQuote
<1>7. CASE Returned
  BY <1>7 DEF Returned, vars
<1> QED
  BY <1>1, <1>2, <1>3, <1>4, <1>5, <1>6, <1>7 DEF Next

(* What is accounted for stays so. *)
LEMMA AccountedStays ==
  ASSUME IInv, Next, NEW p, Accounted(p)
  PROVE  Accounted(p)'
<1>1. text' = text /\ tokens \in Seq(TokenType) /\ reports \in Seq(ReportType)
  BY ReportsGrow DEF IInv, TypeOK, ReportType
<1>2. ASSUME NEW i \in 1..Len(tokens) PROVE i \in 1..Len(tokens') /\ tokens'[i] = tokens[i]
  <2>1. CASE tokens' = tokens
    BY <2>1
  <2>2. ASSUME NEW t, tokens' = Append(tokens, t)
        PROVE  i \in 1..Len(tokens') /\ tokens'[i] = tokens[i]
    BY <1>1, <2>2
  <2>3. ASSUME NEW t, NEW u, tokens' = tokens \o <<t, u>>
        PROVE  i \in 1..Len(tokens') /\ tokens'[i] = tokens[i]
    BY <1>1, <2>3
  <2> QED
    BY <2>1, <2>2, <2>3, TokensGrow
<1>3. ASSUME NEW i \in 1..Len(reports) PROVE i \in 1..Len(reports') /\ reports'[i] = reports[i]
  BY <1>1, ReportsGrow
<1>4. CASE ByteAt(p) \in AsciiWhitespace
  BY <1>1, <1>4 DEF Accounted, ByteAt
<1>5. CASE \E i \in 1..Len(tokens) : p \in tokens[i].offset..(End(tokens[i]) - 1)
  <2>1. PICK i \in 1..Len(tokens) : p \in tokens[i].offset..(End(tokens[i]) - 1)
    BY <1>5
  <2>2. PICK t : t = tokens[i] /\ t = tokens'[i] /\ i \in 1..Len(tokens')
    BY <1>2
  <2>3. p \in t.offset..(End(t) - 1)
    BY <2>1, <2>2
  <2>4. End(tokens[i])' = End(t)
    BY <2>2 DEF End, Width, KeywordLexeme
  <2> QED
    BY <2>2, <2>3, <2>4 DEF Accounted
<1>6. CASE \E i \in 1..Len(reports) :
             /\ reports[i].message = "invalid_character"
             /\ p \in reports[i].offset..(reports[i].offset + Utf8Width(reports[i].offset) - 1)
  <2>1. PICK i \in 1..Len(reports) :
             /\ reports[i].message = "invalid_character"
             /\ p \in reports[i].offset..(reports[i].offset + Utf8Width(reports[i].offset) - 1)
    BY <1>6
  <2>2. i \in 1..Len(reports') /\ reports'[i] = reports[i]
    BY <1>3
  <2>3. Utf8Width(reports[i].offset)' = Utf8Width(reports[i].offset)
    BY <1>1, <2>2 DEF Utf8Width, ByteAt
  <2> QED
    BY <2>1, <2>2, <2>3 DEF Accounted
<1> QED
  BY <1>4, <1>5, <1>6 DEF Accounted

(* The bytes of a token that is put are accounted for. *)
LEMMA TokenAccounts ==
  ASSUME tokens \in Seq(TokenType), NEW t \in TokenType, NEW i \in 1..Len(tokens'), tokens'[i] = t,
         NEW p, p \in t.offset..(End(t) - 1)
  PROVE  Accounted(p)'
<1>1. End(tokens[i])' = End(t)
  BY DEF End, Width, KeywordLexeme
<1> QED
  BY <1>1 DEF Accounted

(* One token is put, and its bytes are those that have been passed. *)
LEMMA PutAccounts ==
  ASSUME tokens \in Seq(TokenType), NEW t \in TokenType, tokens' = Append(tokens, t)
  PROVE  \A p \in t.offset..(End(t) - 1) : Accounted(p)'
<1>1. PICK i : i = Len(tokens) + 1
  OBVIOUS
<1>2. i \in 1..Len(tokens') /\ tokens'[i] = t
  BY <1>1
<1> QED
  BY <1>2, TokenAccounts

(* Two tokens are put. *)
LEMMA PutTwoAccounts ==
  ASSUME tokens \in Seq(TokenType), NEW t \in TokenType, NEW u \in TokenType,
         tokens' = tokens \o <<t, u>>
  PROVE  /\ \A p \in t.offset..(End(t) - 1) : Accounted(p)'
         /\ \A p \in u.offset..(End(u) - 1) : Accounted(p)'
<1>1. PICK i, j : i = Len(tokens) + 1 /\ j = Len(tokens) + 2
  OBVIOUS
<1>2. i \in 1..Len(tokens') /\ tokens'[i] = t /\ j \in 1..Len(tokens') /\ tokens'[j] = u
  <2>1. <<t, u>> \in Seq(TokenType) /\ Len(<<t, u>>) = 2 /\ <<t, u>>[1] = t /\ <<t, u>>[2] = u
    OBVIOUS
  <2>2. Len(tokens) \in Nat /\ Len(tokens') = Len(tokens) + 2
    BY <2>1
  <2> QED
    BY <1>1, <2>1, <2>2
<1> QED
  BY <1>2, TokenAccounts

(* Whitespace is accounted for. *)
LEMMA WhitespaceAccounts ==
  ASSUME text' = text, NEW p, ByteAt(p) \in AsciiWhitespace
  PROVE  Accounted(p)'
BY DEF Accounted, ByteAt

(* The token of a punctuation of one character. *)
LEMMA OneCharToken ==
  ASSUME NEW k \in {"dot", "r_angle"}, NEW o \in Nat, o <= source_size_max, NEW t, t = Token(k, o, 0)
  PROVE  t \in TokenType /\ t.offset = o /\ End(t) = o + 1
<1>1. k \in PunctuationKind
  BY DEF PunctuationKind, Lexeme
<1>2. Lexeme["dot"] = <<".">> /\ Lexeme["r_angle"] = <<">">>
  BY DEF Lexeme
<1>3. Len(<<".">>) = 1 /\ Len(<<">">>) = 1
  OBVIOUS
<1>4. Len(Lexeme["dot"]) = 1 /\ Len(Lexeme["r_angle"]) = 1
  BY <1>2, <1>3, Zenon
<1>5. Len(Lexeme[k]) = 1
  BY <1>4, Zenon
<1>6. o \in 0..source_size_max
  BY SourceSizeAssumption
<1>7. t \in TokenType /\ t.offset = o /\ End(t) = o + Len(Lexeme[k])
  BY <1>1, <1>6, PunctuationToken, Zenon
<1> QED
  BY <1>5, <1>7, Zenon

(* What the frontier passes when the callers of consume_digit_sequence return. *)
LEMMA FinishAccounts ==
  ASSUME IInv, FInv, pc \in {"digits", "digit_gap"}, text' = text, pc' = "source",
         NEW e \in Nat, e = DigitsEnd, FinishDigits(e - local.from)
  PROVE  it' = it /\ \A p \in local.offset..(it - 1) : Accounted(p)'
<1>1. PICK kind, o, f, i, n : /\ kind = local.kind /\ o = local.offset /\ f = local.from
                              /\ i = it /\ n = local.int_length
  OBVIOUS
<1>2. /\ o \in Nat /\ f \in Nat /\ i \in Nat /\ n \in Nat /\ Len(text) \in Nat
      /\ o <= f /\ f < i /\ i <= Len(text) /\ tokens \in Seq(TokenType)
      /\ Len(text) <= source_size_max /\ source_size_max \in Nat
  BY <1>1, TextLength, SourceSizeAssumption DEF IInv, TypeOK, LocalsType, LoopInv, SizeInv, Loop
<1>3. /\ kind # "float_literal" => o = f
      /\ f < e /\ e <= i /\ OnlyWhitespace(e, i)
      /\ kind = "float_literal" => IntegerPart(o, f, n)
  BY <1>1 DEF FInv, DigitInv, DigitBytes
<1>4. \A p \in e..(i - 1) : Accounted(p)'
  BY <1>3, WhitespaceAccounts DEF OnlyWhitespace
<1>5. o \in 0..source_size_max /\ f \in 0..source_size_max /\ e - f \in Nat
  BY <1>2, <1>3
<1>6. ASSUME NEW k \in NumericKind, NEW m \in Nat, o + m = e, tokens' = Append(tokens, Token(k, o, m))
      PROVE  \A p \in o..(i - 1) : Accounted(p)'
  <2>1. PICK t : t = Token(k, o, m)
    OBVIOUS
  <2>2. t \in TokenType /\ t.offset = o /\ End(t) = e
    BY <1>5, <1>6, <2>1, NumberToken DEF Token
  <2>3. \A p \in o..(e - 1) : Accounted(p)'
    BY <1>2, <1>6, <2>1, <2>2, PutAccounts
  <2>4. \A p \in o..(i - 1) : p \in o..(e - 1) \/ p \in e..(i - 1)
    BY <1>2
  <2> QED
    BY <1>4, <2>3, <2>4
<1>7. /\ {"hex_int_literal", "bin_int_literal", "oct_int_literal", "dec_int_literal", "float_literal"}
           \subseteq NumericKind
      /\ "dot" \in PunctuationKind /\ Lexeme["dot"] = <<".">> /\ Len(<<".">>) = 1
  BY DEF NumericKind, PunctuationKind, Lexeme
<1>8. ASSUME NEW t, t = Token("dot", f, 0) PROVE t \in TokenType /\ t.offset = f /\ End(t) = f + 1
  <2>1. f \in Nat /\ f <= source_size_max
    BY <1>2
  <2> QED
    BY <1>8, <2>1, OneCharToken
<1>9. CASE /\ local.kind \in {"hex_int_literal", "bin_int_literal", "oct_int_literal"}
           /\ Put(local.kind, local.offset, e - local.from) /\ UNCHANGED it
  <2>1. kind \in NumericKind /\ o = f
    BY <1>1, <1>3, <1>7, <1>9
  <2>2. PICK m \in Nat : m = e - f /\ o + m = e
    BY <1>2, <1>3, <2>1
  <2>3. tokens' = Append(tokens, Token(kind, o, m))
    BY <1>1, <1>9, <2>2 DEF Put
  <2> QED
    BY <1>1, <1>6, <1>9, <2>1, <2>2, <2>3
<1>10. CASE /\ local.kind = "dec_int_literal"
            /\ Put("dec_int_literal", local.offset, e - local.from) /\ UNCHANGED it
  <2>1. kind \in NumericKind /\ o = f /\ kind = "dec_int_literal"
    BY <1>1, <1>3, <1>7, <1>10
  <2>2. PICK m \in Nat : m = e - f /\ o + m = e
    BY <1>2, <1>3, <2>1
  <2>3. tokens' = Append(tokens, Token(kind, o, m))
    BY <1>1, <1>10, <2>1, <2>2 DEF Put
  <2> QED
    BY <1>1, <1>6, <1>10, <2>1, <2>2, <2>3
<1>11. CASE /\ local.kind = "float_literal"
            /\ IF e - local.from > 1
               THEN Put("float_literal", local.offset, local.from - local.offset + (e - local.from))
               ELSE tokens' = tokens \o <<Token("dec_int_literal", local.offset, local.int_length),
                                          Token("dot", local.from, 0)>>
            /\ UNCHANGED it
  <2>1. kind = "float_literal" /\ it' = it
    BY <1>1, <1>11
  <2>2. CASE e - f > 1
    <3>1. PICK m \in Nat : m = f - o + (e - f) /\ o + m = e
      BY <1>2, <1>3
    <3>2. tokens' = Append(tokens, Token("float_literal", o, m))
      BY <1>1, <1>11, <2>2, <3>1 DEF Put
    <3> QED
      BY <1>1, <1>6, <1>7, <2>1, <3>1, <3>2
  <2>3. CASE ~(e - f > 1)
    <3>1. PICK t, u : t = Token("dec_int_literal", o, n) /\ u = Token("dot", f, 0)
      OBVIOUS
    <3>2. tokens' = tokens \o <<t, u>>
      BY <1>1, <1>11, <2>3, <3>1
    <3>3. t \in TokenType /\ t.offset = o /\ End(t) = o + n
      <4>1. o \in Nat /\ n \in Nat /\ o \in 0..source_size_max
        BY <1>2, <1>5
      <4>2. "dec_int_literal" \in NumericKind
        BY <1>7
      <4> QED
        BY <3>1, <4>1, <4>2, NumberToken
    <3>4. u \in TokenType /\ u.offset = f /\ End(u) = f + 1
      BY <1>8, <3>1
    <3>5. PICK m \in Nat : m = o + n
      BY <1>2
    <3>6. e = f + 1 /\ OnlyWhitespace(m, f) /\ m <= f
      BY <1>2, <1>3, <2>1, <2>3, <3>5 DEF IntegerPart
    <3>7. (\A p \in o..(m - 1) : Accounted(p)') /\ (\A p \in f..(e - 1) : Accounted(p)')
      BY <1>2, <3>2, <3>3, <3>4, <3>5, <3>6, PutTwoAccounts
    <3>8. \A p \in m..(f - 1) : Accounted(p)'
      BY <3>6, WhitespaceAccounts DEF OnlyWhitespace
    <3>9. \A p \in o..(i - 1) : p \in o..(m - 1) \/ p \in m..(f - 1) \/ p \in f..(e - 1) \/ p \in e..(i - 1)
      BY <1>2, <3>6
    <3> QED
      BY <1>1, <1>4, <2>1, <3>7, <3>8, <3>9
  <2> QED
    BY <2>2, <2>3
<1>12. CASE /\ local.kind = "dot"
            /\ IF e - local.from > 1
               THEN Put("float_literal", local.offset, e - local.from)
               ELSE Put("dot", local.offset, 0)
            /\ UNCHANGED it
  <2>1. o = f /\ it' = it
    BY <1>1, <1>3, <1>12
  <2>2. CASE e - f > 1
    <3>1. PICK m \in Nat : m = e - f /\ o + m = e
      BY <1>2, <1>3, <2>1
    <3>2. tokens' = Append(tokens, Token("float_literal", o, m))
      BY <1>1, <1>12, <2>2, <3>1 DEF Put
    <3> QED
      BY <1>1, <1>6, <1>7, <2>1, <3>1, <3>2
  <2>3. CASE ~(e - f > 1)
    <3>1. PICK u : u = Token("dot", f, 0) /\ tokens' = Append(tokens, u)
      BY <1>1, <1>12, <2>1, <2>3 DEF Put
    <3>2. e = f + 1 /\ u \in TokenType /\ u.offset = f /\ End(u) = f + 1
      BY <1>2, <1>3, <1>8, <2>3, <3>1
    <3>3. \A p \in f..(e - 1) : Accounted(p)'
      BY <1>2, <3>1, <3>2, PutAccounts
    <3>4. \A p \in o..(i - 1) : p \in f..(e - 1) \/ p \in e..(i - 1)
      BY <1>2, <2>1, <3>2
    <3> QED
      BY <1>1, <1>4, <2>1, <3>3, <3>4
  <2> QED
    BY <2>2, <2>3
<1> QED
  BY <1>9, <1>10, <1>11, <1>12 DEF FinishDigits, EnterDigits, Enter

(* What the frontier passes in a step of the operator handlers. *)
LEMMA OperatorAccounts ==
  ASSUME IInv, EInv, on_operator
  PROVE  \A p \in it..(Frontier' - 1) : Accounted(p)'
<1>1. /\ pc = "source" /\ text' = text /\ it \in Nat /\ tokens \in Seq(TokenType)
      /\ text \in Seq(Byte) /\ Len(text) <= source_size_max /\ it \in 0..source_size_max
  <2>1. pc = "source" /\ text' = text
    BY DEF on_operator
  <2> QED
    BY <2>1, AtSource DEF IInv, TypeOK
<1>2. PICK i \in DOMAIN Alternatives :
        /\ Matched(i) /\ it' = it + Len(Alternatives[i].chars)
        /\ Act(Alternatives[i].chars, Alternatives[i].kind)
  BY DEF on_operator, Advance
<1>3. PICK chars, kind, o : /\ chars = Alternatives[i].chars /\ kind = Alternatives[i].kind
                            /\ Act(chars, kind) /\ it' = o + Len(chars) /\ o = it
  BY <1>2
<1>4. Len(chars) \in 1..3
  BY <1>3, AllInPlace DEF InPlace
<1>5. CASE chars = <<">", ">">>
  <2>1. kind = "r_angle"
    BY <1>1, <1>2, <1>3, <1>5, ShiftFits
  <2>2. tokens' = tokens \o <<Token(kind, o, 0), Token(kind, o + 1, 0)>> /\ pc' = pc
    BY <1>3, <1>5, <2>1 DEF Act, CommentKind
  <2>3. Len(chars) = 2
    BY <1>5
  <2>4. it' = o + 2 /\ Frontier' = o + 2 /\ o \in Nat /\ o + 2 <= Len(text) /\ Len(text) \in Nat
    BY <1>1, <1>2, <1>3, <2>2, <2>3 DEF Matched, Follows, Frontier, Loop
  <2>5. o \in 0..source_size_max /\ o + 1 \in 0..source_size_max
    BY <1>1, <2>4, SourceSizeAssumption
  <2>8. PICK t, u : t = Token("r_angle", o, 0) /\ u = Token("r_angle", o + 1, 0)
    OBVIOUS
  <2>9. /\ t \in TokenType /\ t.offset = o /\ End(t) = o + 1
        /\ u \in TokenType /\ u.offset = o + 1 /\ End(u) = o + 1 + 1
    <3>1. o \in Nat /\ o + 1 \in Nat /\ o <= source_size_max /\ o + 1 <= source_size_max
      BY <2>4, <2>5
    <3>2. t \in TokenType /\ t.offset = o /\ End(t) = o + 1
      BY <2>8, <3>1, OneCharToken
    <3>3. u \in TokenType /\ u.offset = o + 1 /\ End(u) = o + 1 + 1
      BY <2>8, <3>1, OneCharToken
    <3> QED
      BY <3>2, <3>3
  <2>10. tokens' = tokens \o <<t, u>>
    BY <2>1, <2>2, <2>8
  <2>11. Accounted(o)' /\ Accounted(o + 1)'
    <3>1. o \in Nat /\ o \in o..(o + 1 - 1) /\ o + 1 \in (o + 1)..(o + 1 + 1 - 1)
      BY <2>4
    <3>2. tokens \in Seq(TokenType)
      BY <1>1
    <3>3. /\ \A p \in t.offset..(End(t) - 1) : Accounted(p)'
          /\ \A p \in u.offset..(End(u) - 1) : Accounted(p)'
      BY <2>9, <2>10, <3>2, PutTwoAccounts, Zenon
    <3>4. t.offset..(End(t) - 1) = o..(o + 1 - 1)
      BY <2>9, <3>1
    <3>5. u.offset..(End(u) - 1) = (o + 1)..(o + 1 + 1 - 1)
      BY <2>9, <3>1
    <3> QED
      BY <3>1, <3>3, <3>4, <3>5, Zenon
  <2>12. \A p \in o..(o + 2 - 1) : p = o \/ p = o + 1
    BY <2>4
  <2> QED
    BY <1>3, <2>4, <2>11, <2>12
<1>6. CASE chars # <<">", ">">> /\ kind \in CommentKind
  <2>1. pc' \in Loop /\ local'.offset = it
    BY <1>3, <1>6 DEF Act, Enter, NoLocals, CommentKind, Loop
  <2>2. Frontier' = it
    BY <2>1 DEF Frontier
  <2> QED
    BY <1>1, <2>2
<1>7. CASE chars # <<">", ">">> /\ kind \notin CommentKind
  <2>1. tokens' = Append(tokens, Token(kind, o, 0)) /\ pc' = pc
    BY <1>3, <1>7 DEF Act, Put
  <2>2. Frontier' = o + Len(chars)
    BY <1>1, <1>3, <2>1 DEF Frontier, Loop
  <2>3. i \in (1..49) \ {15, 32, 33}
    BY <1>3, <1>7, SpellingTable, AllInPlace DEF CommentKind
  <2>4. kind \in PunctuationKind /\ chars = Lexeme[kind]
    BY <1>3, <2>3, SpellingTable DEF Spells
  <2>5. PICK t : t = Token(kind, o, 0)
    OBVIOUS
  <2>6. t \in TokenType /\ t.offset = o /\ End(t) = o + Len(chars)
    <3>1. o \in 0..source_size_max
      BY <1>1, <1>3
    <3>2. /\ Token(kind, o, 0) \in TokenType /\ Token(kind, o, 0).offset = o
          /\ End(Token(kind, o, 0)) = o + Len(Lexeme[kind])
      BY <2>4, <3>1, PunctuationToken DEF Token
    <3> QED
      BY <2>4, <2>5, <3>2
  <2> QED
    BY <1>1, <1>3, <2>1, <2>2, <2>5, <2>6, PutAccounts
<1> QED
  BY <1>5, <1>6, <1>7

(* The token a loop puts when it ends, for all that it has passed. *)
LEMMA LoopAccounts ==
  ASSUME IInv, pc \in Loop, NEW kind \in VariableLengthKind, NEW n \in Nat,
         local.offset + n = it', tokens' = Append(tokens, Token(kind, local.offset, n))
  PROVE  \A p \in local.offset..(it' - 1) : Accounted(p)'
<1>1. PICK o, t : o = local.offset /\ t = Token(kind, o, n)
  OBVIOUS
<1>2. o \in Nat /\ o <= source_size_max /\ source_size_max \in Nat /\ tokens \in Seq(TokenType)
  BY <1>1, AtFrontier
<1>3. o \in Nat /\ o \in 0..source_size_max
  BY <1>2
<1>4. t \in TokenType /\ t.offset = o /\ End(t) = o + n
  <2>1. t = Token(kind, o, n) /\ kind \in VariableLengthKind /\ n \in Nat
    BY <1>1
  <2> QED
    BY ONLY <1>3, <2>1, VariableToken
<1>5. \A p \in t.offset..(End(t) - 1) : Accounted(p)'
  BY <1>1, <1>2, <1>4, PutAccounts
<1> QED
  BY <1>1, <1>4, <1>5

(* The bytes the frontier passes. *)
Passed == Frontier..(Frontier' - 1)

(* The steps of a loop that goes on, and the ones that enter one, leave the frontier where it is. *)
LEMMA FrontierRests ==
  ASSUME IInv, pc' \in Loop, local'.offset = Frontier
  PROVE  \A p \in Passed : Accounted(p)'
<1>1. Frontier' = Frontier /\ Frontier \in Nat
  <2>1. CASE pc \in Loop
    BY <2>1, AtFrontier DEF Frontier
  <2>2. CASE pc \notin Loop
    BY <2>2, TextLength DEF IInv, Frontier
  <2> QED
    BY <2>1, <2>2
<1> QED
  BY <1>1 DEF Passed

(* The frontier follows a handler that has returned. *)
LEMMA ReturnPasses ==
  ASSUME IInv, pc \in Loop, Return
  PROVE  Passed = local.offset..(it' - 1)
<1>1. pc' \notin Loop
  BY DEF Return, Loop
<1> QED
  BY <1>1 DEF Passed, Frontier

(* A step of the dispatch loop. *)
LEMMA DispatchAccounts ==
  ASSUME IInv, EInv, DispatchStep
  PROVE  \A p \in Passed : Accounted(p)'
<1>1. pc = "source" /\ pc \notin Loop /\ Frontier = it
  BY DEF DispatchStep, EndSource, SkipWhitespace, on_alphabetic, on_zero, on_nonzero, on_dot,
     on_operator, on_quote, StartWordUtf8, RejectChar, Loop, Frontier
<1>2. it \in Nat /\ Len(text) \in Nat /\ it <= Len(text) /\ reports \in Seq(ReportType)
  BY <1>1, AtSource
<1>3. CASE EndSource
  <2>1. Frontier' = it
    BY <1>3 DEF EndSource, Goto, Frontier, Loop
  <2> QED
    BY <1>1, <1>2, <2>1 DEF Passed
<1>4. CASE SkipWhitespace
  <2>1. Frontier' = it + 1 /\ text' = text /\ ByteAt(it) \in AsciiWhitespace
    BY <1>1, <1>4 DEF SkipWhitespace, Frontier, Advance, peek
  <2>2. \A p \in Passed : p = it
    BY <1>1, <1>2, <2>1 DEF Passed
  <2> QED
    BY <2>1, <2>2, WhitespaceAccounts
<1>5. CASE on_alphabetic \/ on_zero \/ on_nonzero \/ on_dot \/ on_quote \/ StartWordUtf8
  <2>1. pc' \in Loop /\ local'.offset = it
    BY <1>5 DEF on_alphabetic, on_zero, on_nonzero, on_dot, on_quote, StartWordUtf8, Enter,
       EnterDigits, NoLocals, Loop
  <2> QED
    BY <1>1, <2>1, FrontierRests
<1>6. CASE on_operator
  BY <1>1, <1>6, OperatorAccounts DEF Passed
<1>7. CASE RejectChar
  <2>1. /\ Frontier' = it + Utf8Width(it) /\ text' = text
        /\ reports' = Append(reports, [message |-> "invalid_character", offset |-> it])
    BY <1>1, <1>7 DEF RejectChar, Frontier, Advance, Report
  <2>2. PICK i : i = Len(reports) + 1
    OBVIOUS
  <2>3. i \in 1..Len(reports')
    BY <1>2, <2>1, <2>2
  <2>4. reports'[i] = [message |-> "invalid_character", offset |-> it]
    BY <1>2, <2>1, <2>2
  <2>5. reports'[i].message = "invalid_character" /\ reports'[i].offset = it
    BY <2>4
  <2>6. Utf8Width(reports[i].offset)' = Utf8Width(it)
    BY <2>1, <2>5 DEF Utf8Width, ByteAt
  <2>7. peek # NUL
    BY <1>7, CharClasses DEF RejectChar
  <2>8. Utf8Width(it) \in 1..(Len(text) - it)
    BY <2>7, Utf8WidthFits DEF IInv
  <2>9. PICK w \in Nat : w = Utf8Width(it)
    BY <1>2, <2>8
  <2>10. Frontier = it /\ Frontier' = it + w
    BY <1>1, <2>1, <2>9
  <2>11. ASSUME NEW p \in Passed
         PROVE  (p \in reports[i].offset..(reports[i].offset + Utf8Width(reports[i].offset) - 1))'
    <3>1. p \in it..(it + w - 1)
      BY <1>2, <2>10 DEF Passed
    <3> QED
      BY <1>2, <2>5, <2>6, <2>9, <3>1
  <2> QED
    BY <2>3, <2>5, <2>11 DEF Accounted
<1> QED
  BY <1>3, <1>4, <1>5, <1>6, <1>7 DEF DispatchStep

(* A step of a word. *)
LEMMA WordAccounts ==
  ASSUME IInv, EInv, WordStep
  PROVE  \A p \in Passed : Accounted(p)'
<1>1. pc \in Loop /\ Frontier = local.offset /\ tokens \in Seq(TokenType)
  BY DEF WordStep, ConsumeIdentifierChar, EndWord, ContinueWordUtf8, BreakWordUtf8, Loop, Frontier,
     IInv, TypeOK
<1>2. CASE ConsumeIdentifierChar \/ ContinueWordUtf8
  <2>1. pc' \in Loop /\ local' = local
    BY <1>1, <1>2 DEF ConsumeIdentifierChar, ContinueWordUtf8
  <2> QED
    BY <1>1, <2>1, FrontierRests
<1>3. CASE EndWord \/ BreakWordUtf8
  <2>1. PICK t \in Sound' : tokens' = Append(tokens, t) /\ t.offset = local.offset /\ End(t) = it'
    BY <1>3, WordIsPut
  <2>2. t \in TokenType
    BY <2>1 DEF Sound
  <2>3. \A p \in t.offset..(End(t) - 1) : Accounted(p)'
    BY <1>1, <2>1, <2>2, PutAccounts
  <2>4. Return
    BY <1>3 DEF EndWord, BreakWordUtf8
  <2>5. Passed = local.offset..(it' - 1)
    BY <1>1, <2>4, ReturnPasses
  <2> QED
    BY <2>1, <2>3, <2>5
<1> QED
  BY <1>2, <1>3 DEF WordStep

(* A step of a number. *)
LEMMA DigitAccounts ==
  ASSUME IInv, FInv, DigitStep
  PROVE  \A p \in Passed : Accounted(p)'
<1>1. pc \in {"digits", "digit_gap"} /\ pc \in Loop /\ Frontier = local.offset /\ text' = text
  BY DEF DigitStep, ConsumeDigit, OpenDigitGap, EndDigits, SkipDigitGap, CloseDigitGap, EndDigitGap,
     Loop, Frontier
<1>2. CASE ConsumeDigit \/ OpenDigitGap \/ SkipDigitGap \/ CloseDigitGap
  <2>1. pc' \in Loop /\ local'.offset = local.offset
    BY <1>1, <1>2 DEF ConsumeDigit, OpenDigitGap, SkipDigitGap, CloseDigitGap, Enter, Goto, Loop,
       IInv, TypeOK, LocalsType
  <2> QED
    BY <1>1, <2>1, FrontierRests
<1>3. CASE EndDigits \/ EndDigitGap
  <2>1. PICK e \in Nat : e = DigitsEnd /\ FinishDigits(e - local.from)
    <3>1. it \in Nat /\ local.from \in Nat /\ local.length \in Nat
      BY DEF IInv, TypeOK, LocalsType
    <3>2. CASE EndDigits
      BY <3>1, <3>2 DEF EndDigits, DigitsEnd
    <3>3. CASE EndDigitGap
      BY <3>1, <3>3 DEF EndDigitGap, DigitsEnd
    <3> QED
      BY <1>3, <3>2, <3>3
  <2>2. CASE pc' = "source"
    <3>1. it' = it /\ \A p \in local.offset..(it - 1) : Accounted(p)'
      BY <1>1, <2>1, <2>2, FinishAccounts
    <3>2. Frontier' = it'
      BY <2>2 DEF Frontier, Loop
    <3> QED
      BY <1>1, <3>1, <3>2 DEF Passed
  <2>3. CASE pc' # "source"
    <3>1. pc' \in Loop /\ local'.offset = local.offset
      BY <2>1, <2>3 DEF FinishDigits, Return, EnterDigits, Enter, NoLocals, Loop
    <3> QED
      BY <1>1, <3>1, FrontierRests
  <2> QED
    BY <2>2, <2>3
<1> QED
  BY <1>2, <1>3 DEF DigitStep

(* A step of a comment. *)
LEMMA CommentAccounts ==
  ASSUME IInv, EInv, CommentStep, emit_comments
  PROVE  \A p \in Passed : Accounted(p)'
<1>1. pc \in CommentKind /\ pc \in Loop /\ Frontier = local.offset /\ local.kind = pc
  BY DEF CommentStep, ConsumeLineCommentChar, EndLineComment, NestBlockComment, CloseBlockComment,
     ConsumeBlockCommentChar, AbandonBlockComment, CommentKind, Loop, Frontier, EInv
<1>2. local.kind \in VariableLengthKind
  BY <1>1 DEF VariableLengthKind
<1>3. it \in Nat /\ local.offset \in Nat /\ local.offset < it /\ local \in LocalsType
  BY <1>1, AtFrontier DEF IInv, TypeOK
<1>4. ASSUME NEW e \in Nat, e >= it, it' = e, PutComment(e), Return
      PROVE  \A p \in Passed : Accounted(p)'
  <2>1. PICK n \in Nat : n = e - local.offset /\ local.offset + n = it'
    BY <1>3, <1>4
  <2>2. tokens' = Append(tokens, Token(local.kind, local.offset, n))
    BY <1>4, <2>1 DEF PutComment, Put
  <2> QED
    BY <1>1, <1>2, <1>4, <2>1, <2>2, LoopAccounts, ReturnPasses
<1>5. CASE ConsumeLineCommentChar \/ NestBlockComment \/ ConsumeBlockCommentChar
  <2>1. pc' \in Loop /\ local'.offset = local.offset
    BY <1>1, <1>3, <1>5 DEF ConsumeLineCommentChar, NestBlockComment, ConsumeBlockCommentChar,
       LocalsType
  <2> QED
    BY <1>1, <2>1, FrontierRests
<1>6. CASE EndLineComment \/ AbandonBlockComment
  <2>1. it' = it /\ Return
    BY <1>6 DEF EndLineComment, AbandonBlockComment
  <2>2. PutComment(it)
    BY <1>6 DEF EndLineComment, AbandonBlockComment
  <2>3. it >= it
    BY <1>3
  <2> QED
    BY <1>3, <1>4, <2>1, <2>2, <2>3
<1>7. CASE CloseBlockComment
  <2>1. CASE local.unclosed_count = 1
    <3>1. it + 2 \in Nat /\ it + 2 >= it
      BY <1>3
    <3> QED
      BY <1>4, <1>7, <2>1, <3>1 DEF CloseBlockComment, Advance
  <2>2. CASE local.unclosed_count # 1
    <3>1. pc' \in Loop /\ local'.offset = local.offset
      BY <1>1, <1>3, <1>7, <2>2 DEF CloseBlockComment, LocalsType
    <3> QED
      BY <1>1, <3>1, FrontierRests
  <2> QED
    BY <2>1, <2>2
<1> QED
  BY <1>5, <1>6, <1>7 DEF CommentStep

(* A step of a string or character literal. *)
LEMMA QuoteAccounts ==
  ASSUME IInv, EInv, QuoteStep
  PROVE  \A p \in Passed : Accounted(p)'
<1>1. pc = "quote" /\ pc \in Loop /\ Frontier = local.offset /\ QuoteInv
  BY DEF QuoteStep, ConsumeQuotedChar, CloseQuote, AbandonQuote, Loop, Frontier, EInv
<1>2. local.kind \in VariableLengthKind
  <2>1. local.kind \in QuotedKind
    BY <1>1, Quotes DEF QuoteInv
  <2> QED
    BY <2>1 DEF VariableLengthKind
<1>3. it \in Nat /\ local.offset \in Nat /\ local.offset < it /\ local \in LocalsType
  BY <1>1, AtFrontier DEF IInv, TypeOK
<1>4. ASSUME NEW e \in Nat, e >= it, it' = e, Put(local.kind, local.offset, e - local.offset), Return
      PROVE  \A p \in Passed : Accounted(p)'
  <2>1. PICK n \in Nat : n = e - local.offset /\ local.offset + n = it'
    BY <1>3, <1>4
  <2>2. tokens' = Append(tokens, Token(local.kind, local.offset, n))
    BY <1>4, <2>1 DEF Put
  <2> QED
    BY <1>1, <1>2, <1>4, <2>1, <2>2, LoopAccounts, ReturnPasses
<1>5. CASE ConsumeQuotedChar
  <2>1. pc' \in Loop /\ local'.offset = local.offset
    BY <1>1, <1>3, <1>5 DEF ConsumeQuotedChar, LocalsType
  <2> QED
    BY <1>1, <2>1, FrontierRests
<1>6. CASE CloseQuote
  <2>1. PICK e \in Nat : e = it + 1 /\ e >= it
    BY <1>3
  <2>2. it' = e /\ Return
    BY <1>6, <2>1 DEF CloseQuote, Advance
  <2>3. Put(local.kind, local.offset, e - local.offset)
    <3>1. it + 1 - local.offset = e - local.offset
      BY <1>3, <2>1
    <3>2. Put(local.kind, local.offset, it + 1 - local.offset)
      BY <1>6 DEF CloseQuote
    <3> QED
      BY <3>1, <3>2, Zenon
  <2> QED
    BY <1>4, <2>1, <2>2, <2>3
<1>7. CASE AbandonQuote
  BY <1>3, <1>4, <1>7 DEF AbandonQuote
<1> QED
  BY <1>5, <1>6, <1>7 DEF QuoteStep

(* Each step accounts for the bytes the frontier passes in it. *)
LEMMA StepAccounts ==
  ASSUME IInv, EInv, FInv, Next, emit_comments
  PROVE  \A p \in Passed : Accounted(p)'
<1>1. CASE RunStep \/ Returned
  <2>1. pc \notin Loop /\ pc' \notin Loop /\ it' = it /\ it \in Nat
    BY <1>1, TextLength DEF RunStep, RefuseSource, StartSource, Returned, Goto, vars, Loop, IInv
  <2>2. Frontier = it /\ Frontier' = it
    BY <2>1 DEF Frontier
  <2> QED
    BY <2>1, <2>2 DEF Passed
<1> QED
  BY <1>1, DispatchAccounts, WordAccounts, DigitAccounts, CommentAccounts, QuoteAccounts DEF Next

(* When the lexer is done, it has refused the source or come to its end or to a NUL. *)
LEMMA StopsAtEnd ==
  ASSUME IInv, StopInv, Next
  PROVE  StopInv'
<1> SUFFICES ASSUME pc' = "done", ~Refused'
             PROVE  (it = Len(text) \/ (ByteAt(it) = NUL /\ Reported("invalid_character", it)))'
  BY DEF StopInv
<1>1. it \in Nat /\ Len(text) \in Nat /\ it <= Len(text) /\ text' = text
  BY TextLength, ReportsGrow DEF IInv
<1>2. CASE RefuseSource
  <2>1. Report("source_file_too_large", 0) /\ 0 \in 0..Len(text) /\ "source_file_too_large" \in Message
    BY <1>1, <1>2 DEF RefuseSource, Message
  <2> QED
    BY <2>1, ReportIsMade DEF Refused
<1>3. CASE EndSource
  <2>1. ByteAt(it) = NUL /\ it' = it
    BY <1>3 DEF EndSource, peek
  <2>2. CASE it < Len(text)
    <3>1. Report("invalid_character", it) /\ it \in 0..Len(text) /\ "invalid_character" \in Message
      BY <1>1, <1>3, <2>2 DEF EndSource, valid, Message
    <3>2. Reported("invalid_character", it)'
      <4>1. PICK i : i = it
        OBVIOUS
      <4>2. Reported("invalid_character", i)'
        BY <3>1, <4>1, ReportIsMade
      <4> QED
        BY <2>1, <4>1, <4>2 DEF Reported
    <3> QED
      BY <1>1, <2>1, <3>2 DEF ByteAt
  <2>3. CASE ~(it < Len(text))
    BY <1>1, <2>1, <2>3
  <2> QED
    BY <2>2, <2>3
<1>4. CASE Returned
  <2>1. pc = "done" /\ it' = it /\ text' = text /\ reports' = reports
    BY <1>4 DEF Returned, vars
  <2>2. ~Refused
    BY <2>1 DEF Refused, Reported
  <2> QED
    BY <2>1, <2>2 DEF StopInv, ByteAt, Reported
<1>5. CASE ~(RefuseSource \/ EndSource \/ Returned)
  <2>1. CASE StartSource
    BY <2>1 DEF StartSource, Goto
  <2>2. CASE DispatchStep
    <3>1. CASE on_operator
      BY <3>1 DEF on_operator, Act, Enter, CommentKind
    <3> QED
      BY <1>5, <2>2, <3>1 DEF DispatchStep, SkipWhitespace, on_alphabetic, on_zero, on_nonzero, on_dot,
         on_quote, StartWordUtf8, RejectChar, Enter, EnterDigits
  <2>3. CASE WordStep
    BY <2>3 DEF WordStep, ConsumeIdentifierChar, EndWord, ContinueWordUtf8, BreakWordUtf8, Return
  <2>4. CASE DigitStep
    <3>1. \A n : FinishDigits(n) => pc' # "done"
      BY DEF FinishDigits, Return, EnterDigits, Enter
    <3> QED
      BY <2>4, <3>1 DEF DigitStep, ConsumeDigit, OpenDigitGap, EndDigits, SkipDigitGap, CloseDigitGap,
         EndDigitGap, Enter, Goto
  <2>5. CASE CommentStep
    BY <2>5 DEF CommentStep, ConsumeLineCommentChar, EndLineComment, NestBlockComment,
       CloseBlockComment, ConsumeBlockCommentChar, AbandonBlockComment, Return
  <2>6. CASE QuoteStep
    BY <2>6 DEF QuoteStep, ConsumeQuotedChar, CloseQuote, AbandonQuote, Return
  <2> QED
    BY <1>5, <2>1, <2>2, <2>3, <2>4, <2>5, <2>6 DEF Next, RunStep
<1> QED
  BY <1>2, <1>3, <1>4, <1>5

(* The invariant of the accounting. *)
THEOREM LossInvariance == Spec => []LInv
<1>1. Init => LInv
  <2> SUFFICES ASSUME Init PROVE LInv
    OBVIOUS
  <2>1. pc = "run" /\ it = 0
    BY DEF Init
  <2>2. Frontier = 0
    BY <2>1 DEF Frontier, Loop
  <2> QED
    BY <2>1, <2>2 DEF LInv, StopInv
<1>2. IInv /\ EInv /\ FInv /\ LInv /\ [Next]_vars => LInv'
  <2> SUFFICES ASSUME IInv, EInv, FInv, LInv, [Next]_vars PROVE LInv'
    OBVIOUS
  <2>1. CASE Next
    <3>1. ASSUME emit_comments', NEW p \in 0..(Frontier' - 1) PROVE Accounted(p)'
      <4>1. emit_comments
        BY <2>1, <3>1, TokensGrow
      <4>2. Frontier \in Nat
        BY AtFrontier, TextLength DEF IInv, Frontier
      <4>3. p \in 0..(Frontier - 1) \/ p \in Passed
        BY <4>2 DEF Passed
      <4>4. CASE p \in 0..(Frontier - 1)
        BY <2>1, <4>1, <4>4, AccountedStays DEF LInv
      <4>5. CASE p \in Passed
        BY <2>1, <4>1, <4>5, StepAccounts
      <4> QED
        BY <4>3, <4>4, <4>5
    <3>2. StopInv'
      BY <2>1, StopsAtEnd DEF LInv
    <3> QED
      BY <3>1, <3>2 DEF LInv
  <2>2. CASE UNCHANGED vars
    BY <2>2, ZenonT(60) DEF vars, LInv, StopInv, Frontier, Accounted, Refused, Reported, ByteAt, Utf8Width, End,
       Width, KeywordLexeme
  <2> QED
    BY <2>1, <2>2
<1> QED
  BY <1>1, <1>2, Invariance, ExtentInvariance, FitInvariance, PTL DEF Spec

(***************************************************************************)
(* Lexer::run: for every text, each byte the lexer has passed is           *)
(* whitespace, belongs to a token or to a character it has reported, when  *)
(* comments are emitted; and it stops before the end of the text only at   *)
(* a NUL that it reports.                                                  *)
(***************************************************************************)
THEOREM NothingIsLost == Spec => []NothingLost
<1>1. LInv => NothingLost
  <2> SUFFICES ASSUME LInv, pc = "done", ~Refused PROVE NothingLost
    BY DEF NothingLost
  <2>1. Frontier = it
    BY DEF Frontier, Loop
  <2> QED
    BY <2>1 DEF LInv, StopInv, NothingLost
<1> QED
  BY <1>1, LossInvariance, PTL

-----------------------------------------------------------------------------
(* Comments end where they are closed *)

(***************************************************************************)
(* Nesting is a recursive function on the offsets.  That there is one that *)
(* satisfies its equation is shown by the least offset up to which there   *)
(* would be none.                                                          *)
(***************************************************************************)
Depths(f, o, m) == f = [p \in o..m |-> DepthAt(f, o, p)]

(* A set of natural numbers that is not empty has a least element. *)
LEMMA LeastElement ==
  ASSUME NEW S \in SUBSET Nat, S # {}
  PROVE  \E i \in S : \A j \in S : i <= j
<1> DEFINE less == {pair \in Nat \X Nat : pair[1] < pair[2]}
<1>1. PICK i \in S : \A j \in S : <<j, i>> \notin less
  <2>1. W!IsWellFoundedOn(less, Nat)
    BY W!NatLessThanWellFounded, Zenon DEF W!OpToRel
  <2> HIDE DEF less
  <2> QED
    BY <2>1, W!WFMin
<1>2. \A j \in S : ~(j < i)
  BY <1>1
<1> QED
  BY <1>2

(* The depth of an offset depends only on the offsets before it. *)
LEMMA DepthByEarlier ==
  ASSUME NEW o \in Nat, NEW p \in Nat, o <= p, NEW f, NEW g, \A q \in o..(p - 1) : f[q] = g[q]
  PROVE  DepthAt(f, o, p) = DepthAt(g, o, p)
<1>1. Marks(f, o, p) = Marks(g, o, p)
  BY DEF Marks
<1>2. CASE Marks(f, o, p) = {}
  BY <1>1, <1>2 DEF DepthAt
<1>3. CASE Marks(f, o, p) # {}
  <2>1. PICK q : q = (CHOOSE m \in Marks(f, o, p) : TRUE) /\ q = (CHOOSE m \in Marks(g, o, p) : TRUE)
    BY <1>1, Zenon
  <2>2. q \in o..(p - 1)
    <3>1. q \in Marks(f, o, p)
      BY <1>3, <2>1, Zenon
    <3> QED
      BY <3>1 DEF Marks
  <2>3. f[q] = g[q]
    BY <2>2
  <2> QED
    BY <1>1, <1>3, <2>1, <2>3, Zenon DEF DepthAt
<1> QED
  BY <1>2, <1>3

(* Depths up to an offset go on to the next one. *)
LEMMA DepthsExtend ==
  ASSUME NEW o \in Nat, NEW m \in Nat, o <= m, NEW f, Depths(f, o, m)
  PROVE  \E g : Depths(g, o, m + 1)
<1> DEFINE g == [p \in o..(m + 1) |-> IF p = m + 1 THEN DepthAt(f, o, p) ELSE f[p]]
<1>1. \A q \in o..m : q # m + 1 /\ q \in o..(m + 1)
  OBVIOUS
<1>2. \A q \in o..m : g[q] = f[q]
  BY <1>1
<1>3. ASSUME NEW p \in o..(m + 1) PROVE g[p] = DepthAt(g, o, p)
  <2> HIDE DEF g
  <2>1. p \in Nat /\ o <= p /\ \A q \in o..(p - 1) : f[q] = g[q]
    BY <1>2
  <2>2. DepthAt(f, o, p) = DepthAt(g, o, p)
    BY <2>1, DepthByEarlier
  <2>3. CASE p = m + 1
    BY <2>2, <2>3 DEF g
  <2>4. CASE p # m + 1
    <3>1. p \in o..m
      BY <2>4
    <3>2. f[p] = DepthAt(f, o, p)
      BY <3>1 DEF Depths
    <3> QED
      BY <1>2, <2>2, <3>1, <3>2
  <2> QED
    BY <2>3, <2>4
<1>4. g = [p \in o..(m + 1) |-> g[p]]
  BY Zenon
<1> HIDE DEF g
<1>5. Depths(g, o, m + 1)
  BY <1>3, <1>4 DEF Depths
<1> QED
  BY <1>5

(* There are depths up to every offset. *)
LEMMA DepthsExist ==
  ASSUME NEW o \in Nat, NEW m \in Nat, o <= m
  PROVE  \E f : Depths(f, o, m)
<1> DEFINE None == {n \in Nat : n >= o /\ ~\E f : Depths(f, o, n)}
<1>1. ASSUME None # {} PROVE FALSE
  <2>1. PICK n \in None : \A j \in None : n <= j
    BY <1>1, LeastElement
  <2>2. n \in Nat /\ n >= o /\ ~\E f : Depths(f, o, n)
    BY <2>1
  <2>3. CASE n = o
    <3> DEFINE f == [p \in o..o |-> 0]
    <3>1. \A p \in o..o : DepthAt(f, o, p) = 0
      BY DEF DepthAt
    <3>2. Depths(f, o, n)
      BY <2>3, <3>1 DEF Depths
    <3> QED
      BY <2>2, <3>2
  <2>4. CASE n # o
    <3>1. PICK k \in Nat : n = k + 1 /\ k >= o
      <4>1. n - 1 \in Nat /\ n = (n - 1) + 1 /\ n - 1 >= o
        BY <2>2, <2>4
      <4> QED
        BY <4>1
    <3>2. k \notin None
      BY <2>1, <3>1
    <3>3. PICK f : Depths(f, o, k)
      BY <3>1, <3>2
    <3> QED
      BY <2>2, <3>1, <3>3, DepthsExtend
  <2> QED
    BY <2>3, <2>4
<1>2. m \notin None
  BY <1>1
<1> QED
  BY <1>2

(* Nesting satisfies its equation. *)
LEMMA NestingIsDepth ==
  ASSUME NEW o \in Nat, Len(text) \in Nat, o <= Len(text)
  PROVE  \A p \in o..Len(text) : Nesting(o)[p] = DepthAt(Nesting(o), o, p)
<1>1. PICK f : f = [p \in o..Len(text) |-> DepthAt(f, o, p)]
  BY DepthsExist DEF Depths
<1>2. Nesting(o) = [p \in o..Len(text) |-> DepthAt(Nesting(o), o, p)]
  BY <1>1 DEF Nesting
<1> QED
  BY <1>2

(* The text does not change, and with it the nesting of comments. *)
LEMMA NestingStays ==
  ASSUME text' = text, NEW o
  PROVE  Nesting(o)' = Nesting(o) /\ AfterMark(o)' = AfterMark(o)
BY DEF Nesting, DepthAt, Marks, AfterMark, Deepens, Follows

(* The offsets before offset i whose depth is known lead to offsets up to i. *)
Charted(o, i) == \A q \in o..(i - 1) : Nesting(o)[q] >= 0 => AfterMark(q) <= i

(* Offset i is the only one that leads to the offset after its mark. *)
LEMMA NestingStep ==
  ASSUME Len(text) \in Nat, NEW o \in Nat, NEW i \in Nat, NEW c \in Nat, NEW a, a = AfterMark(i),
         o <= i, a <= Len(text), Nesting(o)[i] = c, Charted(o, i)
  PROVE  /\ a \in Nat /\ i < a /\ a <= i + 2
         /\ Nesting(o)[a] = c + Deepens(i)
         /\ \A p \in (i + 1)..(a - 1) : Nesting(o)[p] = -1
         /\ Charted(o, a)
<1>1. PICK d : d = Nesting(o)
  OBVIOUS
<1>2. a = i + 1 \/ a = i + 2
  BY DEF AfterMark
<1>3. a \in Nat /\ i < a /\ a <= i + 2 /\ o <= Len(text)
  BY <1>2
<1>4. \A p \in o..Len(text) : d[p] = DepthAt(d, o, p)
  BY <1>1, <1>3, NestingIsDepth
<1>5. \A q \in o..(i - 1) : d[q] >= 0 => AfterMark(q) <= i
  BY <1>1 DEF Charted
<1>6. d[i] = c /\ c >= 0
  BY <1>1
<1>7. ASSUME NEW p \in (i + 1)..(a - 1) PROVE d[p] = -1
  <2>1. p \in Nat /\ p = i + 1 /\ p # o /\ p \in o..Len(text) /\ a = i + 2
    BY <1>2
  <2>2. Marks(d, o, p) = {}
    <3>1. ASSUME NEW q \in o..(p - 1), AfterMark(q) = p, d[q] >= 0 PROVE FALSE
      <4>1. q = i \/ q \in o..(i - 1)
        BY <2>1
      <4>2. CASE q = i
        <5>1. a = p
          BY <3>1, <4>2, Zenon
        <5> QED
          BY <2>1, <5>1
      <4>3. CASE q \in o..(i - 1)
        <5>1. p <= i
          BY <1>5, <3>1, <4>3
        <5> QED
          BY <2>1, <5>1
      <4> QED
        BY <4>1, <4>2, <4>3
    <3> QED
      BY <3>1 DEF Marks
  <2>3. DepthAt(d, o, p) = -1
    BY <2>1, <2>2 DEF DepthAt
  <2> QED
    BY <1>4, <2>1, <2>3
<1>8. d[a] = c + Deepens(i)
  <2>1. Marks(d, o, a) = {i}
    <3>1. ASSUME NEW q \in o..(a - 1), AfterMark(q) = a, d[q] >= 0 PROVE q = i
      <4>1. q \in o..(i - 1) \/ q = i \/ q \in (i + 1)..(a - 1)
        BY <1>3
      <4>2. CASE q \in o..(i - 1)
        <5>1. a <= i
          BY <1>5, <3>1, <4>2
        <5> QED
          BY <1>3, <5>1
      <4>3. CASE q \in (i + 1)..(a - 1)
        <5>1. d[q] = -1
          BY <1>7, <4>3
        <5> QED
          BY <3>1, <5>1
      <4> QED
        BY <4>1, <4>2, <4>3
    <3>2. i \in o..(a - 1)
      BY <1>3
    <3> QED
      BY <1>6, <3>1, <3>2 DEF Marks
  <2>2. (CHOOSE q \in Marks(d, o, a) : TRUE) = i
    BY <2>1
  <2>3. a # o /\ Marks(d, o, a) # {}
    BY <1>3, <2>1
  <2>4. DepthAt(d, o, a) = d[i] + Deepens(i)
    BY <2>2, <2>3, Zenon DEF DepthAt
  <2>5. a \in o..Len(text)
    BY <1>3
  <2> QED
    BY <1>4, <1>6, <2>4, <2>5
<1>9. ASSUME NEW q \in o..(a - 1), d[q] >= 0 PROVE AfterMark(q) <= a
  <2>1. q \in o..(i - 1) \/ q = i \/ q \in (i + 1)..(a - 1)
    BY <1>3
  <2>2. CASE q \in o..(i - 1)
    <3>1. AfterMark(q) <= i /\ (AfterMark(q) = q + 1 \/ AfterMark(q) = q + 2) /\ q \in Nat
      BY <1>5, <1>9, <2>2 DEF AfterMark
    <3> QED
      BY <1>3, <3>1
  <2>3. CASE q = i
    BY <1>3, <2>3
  <2>4. CASE q \in (i + 1)..(a - 1)
    <3>1. d[q] = -1
      BY <1>7, <2>4
    <3> QED
      BY <1>9, <3>1
  <2> QED
    BY <2>1, <2>2, <2>3, <2>4
<1> QED
  BY <1>1, <1>3, <1>7, <1>8, <1>9 DEF Charted

(* At offset i, c comments are open, of which the first begins at offset o. *)
Nested(o, i, c) ==
  /\ Nesting(o)[i] = c
  /\ \A p \in (o + 1)..(i - 1) : Nesting(o)[p] # 0
  /\ Charted(o, i)

(* While the loop of the block comment runs: unclosed_count is the depth of the cursor. *)
CommentInv ==
  \E o \in Nat, i \in Nat, c \in Nat :
    o = local.offset /\ i = it /\ c = local.unclosed_count /\ Nested(o, i, c)

CInv == CommentsBalanced /\ (pc = "block_comment" => CommentInv)

(* A report adds what it says and nothing else. *)
LEMMA ReportAdds ==
  ASSUME reports \in Seq(ReportType), NEW r \in ReportType, reports' = Append(reports, r),
         NEW message, NEW offset, r # [message |-> message, offset |-> offset]
  PROVE  Reported(message, offset)' <=> Reported(message, offset)
<1>1. Len(reports) \in Nat /\ Len(reports') = Len(reports) + 1 /\ reports'[Len(reports) + 1] = r
  OBVIOUS
<1>2. \A i \in 1..Len(reports) : i \in 1..Len(reports') /\ reports'[i] = reports[i]
  OBVIOUS
<1>3. \A i \in 1..Len(reports') : i \in 1..Len(reports) \/ i = Len(reports) + 1
  BY <1>1
<1> QED
  BY <1>1, <1>2, <1>3 DEF Reported

(* Only the end of the text within a block comment is reported as such, at the comment's offset. *)
LEMMA UnterminatedGrows ==
  ASSUME IInv, Next, NEW o, ~(AbandonBlockComment /\ o = local.offset)
  PROVE  Reported("unterminated_block_comment", o)' <=> Reported("unterminated_block_comment", o)
<1>1. reports \in Seq(ReportType) /\ it \in 0..Len(text) /\ Len(text) \in Nat
  BY TextLength DEF IInv, TypeOK, ReportType
<1>2. CASE reports' = reports
  BY <1>2 DEF Reported
<1>3. ASSUME NEW message \in Message, NEW offset \in 0..Len(text), Report(message, offset),
             message # "unterminated_block_comment" \/ offset # o
      PROVE  Reported("unterminated_block_comment", o)' <=> Reported("unterminated_block_comment", o)
  <2>1. PICK r : r = [message |-> message, offset |-> offset]
    OBVIOUS
  <2>2. r \in ReportType /\ r # [message |-> "unterminated_block_comment", offset |-> o]
    BY <1>3, <2>1 DEF ReportType
  <2>3. reports' = Append(reports, r)
    BY <1>3, <2>1 DEF Report
  <2> QED
    BY <1>1, <2>2, <2>3, ReportAdds
<1>4. /\ 0 \in 0..Len(text)
      /\ {"source_file_too_large", "invalid_character", "missing_closing_quote"}
           \subseteq Message \ {"unterminated_block_comment"}
      /\ "unterminated_block_comment" \in Message
  BY <1>1 DEF Message
<1>5. CASE RunStep
  BY <1>2, <1>3, <1>4, <1>5 DEF RunStep, RefuseSource, StartSource
<1>6. CASE DispatchStep
  BY <1>1, <1>2, <1>3, <1>4, <1>6 DEF DispatchStep, EndSource, SkipWhitespace, on_alphabetic, on_zero,
     on_nonzero, on_dot, on_operator, on_quote, StartWordUtf8, RejectChar
<1>7. CASE WordStep
  BY <1>1, <1>2, <1>3, <1>4, <1>7 DEF WordStep, ConsumeIdentifierChar, EndWord, ContinueWordUtf8,
     BreakWordUtf8
<1>8. CASE DigitStep
  BY <1>2, <1>8 DEF DigitStep, ConsumeDigit, OpenDigitGap, EndDigits, SkipDigitGap, CloseDigitGap,
     EndDigitGap
<1>9. CASE CommentStep
  <2>1. CASE AbandonBlockComment
    <3>1. pc \in Loop /\ local.offset # o /\ Report("unterminated_block_comment", local.offset)
      BY <2>1 DEF AbandonBlockComment, Loop
    <3>2. local.offset \in 0..Len(text)
      BY <3>1, AtFrontier
    <3> QED
      BY <1>3, <1>4, <3>1, <3>2
  <2> QED
    BY <1>2, <1>9, <2>1 DEF CommentStep, ConsumeLineCommentChar, EndLineComment, NestBlockComment,
       CloseBlockComment, ConsumeBlockCommentChar
<1>10. CASE QuoteStep
  BY <1>1, <1>2, <1>3, <1>4, <1>10 DEF QuoteStep, ConsumeQuotedChar, CloseQuote, AbandonQuote
<1>11. CASE Returned
  BY <1>2, <1>11 DEF Returned, vars
<1> QED
  BY <1>5, <1>6, <1>7, <1>8, <1>9, <1>10, <1>11 DEF Next

(* A comment that was balanced stays so. *)
LEMMA BalancedStays ==
  ASSUME IInv, Next, NEW i \in 1..Len(tokens), NEW t, t = tokens[i], CommentBalanced(t)
  PROVE  CommentBalanced(t)'
<1>1. text' = text
  BY ReportsGrow
<1>2. ~(AbandonBlockComment /\ t.offset = local.offset)
  <2> SUFFICES ASSUME AbandonBlockComment PROVE t.offset # local.offset
    OBVIOUS
  <2>1. pc \in Loop /\ pc # "done"
    BY DEF AbandonBlockComment, Loop
  <2>2. t.offset \in Nat /\ local.offset \in Nat
    <3>1. tokens \in Seq(TokenType) /\ local.offset \in Nat
      BY <2>1, AtFrontier
    <3>2. t \in TokenType
      BY <3>1
    <3> QED
      BY <3>1, <3>2, SourceSizeAssumption DEF TokenType
  <2>3. t.offset < local.offset
    BY <2>1 DEF IInv, TokenInv, Before, Frontier
  <2> QED
    BY <2>2, <2>3
<1>3. Reported("unterminated_block_comment", t.offset)' <=>
        Reported("unterminated_block_comment", t.offset)
  BY <1>2, UnterminatedGrows
<1>4. Nesting(t.offset)' = Nesting(t.offset)
  BY <1>1, NestingStays
<1>5. End(t)' = End(t)
  BY DEF End, Width, KeywordLexeme
<1> QED
  BY <1>1, <1>3, <1>4, <1>5 DEF CommentBalanced

(* No other step puts a block comment. *)
LEMMA OtherTokens ==
  ASSUME IInv, EInv, Next, ~CloseBlockComment, ~AbandonBlockComment
  PROVE  \/ tokens' = tokens
         \/ \E t : tokens' = Append(tokens, t) /\ t.kind # "block_comment"
         \/ \E t, u : /\ tokens' = tokens \o <<t, u>>
                      /\ t.kind # "block_comment" /\ u.kind # "block_comment"
<1>1. ASSUME NEW kind, NEW offset, NEW n, kind # "block_comment", Put(kind, offset, n)
      PROVE  \E t : tokens' = Append(tokens, t) /\ t.kind # "block_comment"
  <2>1. Token(kind, offset, n).kind = kind
    BY DEF Token
  <2> QED
    BY <1>1, <2>1 DEF Put
<1>2. CASE RunStep
  BY <1>1, <1>2 DEF RunStep, RefuseSource, StartSource
<1>3. CASE DispatchStep
  <2>1. CASE on_operator
    <3>1. PICK i \in DOMAIN Alternatives :
            Matched(i) /\ Act(Alternatives[i].chars, Alternatives[i].kind)
      BY <2>1 DEF on_operator
    <3>2. PICK chars, kind : chars = Alternatives[i].chars /\ kind = Alternatives[i].kind /\ Act(chars, kind)
      BY <3>1
    <3>3. CASE chars = <<">", ">">>
      <4>1. kind = "r_angle" /\ kind # "block_comment"
        <5>1. pc = "source" /\ text \in Seq(Byte)
          BY <2>1 DEF on_operator, IInv, TypeOK
        <5> QED
          BY <3>1, <3>2, <3>3, <5>1, AtSource, ShiftFits
      <4>2. tokens' = tokens \o <<Token(kind, it, 0), Token(kind, it + 1, 0)>>
        BY <3>2, <3>3, <4>1 DEF Act, CommentKind
      <4>3. PICK t, u : t = Token(kind, it, 0) /\ u = Token(kind, it + 1, 0)
        OBVIOUS
      <4>4. t.kind = kind /\ u.kind = kind
        BY <4>3 DEF Token
      <4>5. tokens' = tokens \o <<t, u>>
        BY <4>2, <4>3
      <4> QED
        BY <4>1, <4>4, <4>5
    <3>4. CASE chars # <<">", ">">> /\ kind \in CommentKind
      BY <3>2, <3>4 DEF Act
    <3>5. CASE chars # <<">", ">">> /\ kind \notin CommentKind
      <4>1. Put(kind, it, 0) /\ kind # "block_comment"
        BY <3>2, <3>5 DEF Act, CommentKind
      <4> QED
        BY <1>1, <4>1
    <3> QED
      BY <3>3, <3>4, <3>5
  <2>2. CASE EndSource
    BY <1>1, <2>2 DEF EndSource
  <2> QED
    BY <1>3, <2>1, <2>2 DEF DispatchStep, SkipWhitespace, on_alphabetic, on_zero, on_nonzero,
       on_dot, on_quote, StartWordUtf8, RejectChar
<1>4. CASE WordStep
  <2>1. \A offset, may, end : PutWord(offset, may, end) =>
          \E t : tokens' = Append(tokens, t) /\ t.kind # "block_comment"
    <3>1. \A kw \in keywords : kw.kind # "block_comment"
      BY KeywordsAssumption DEF KeywordKind
    <3>2. \A offset, may, end : PutWord(offset, may, end) =>
            \/ \E kw \in keywords : Put(kw.kind, offset, 0)
            \/ Put("identifier", offset, end - offset)
      BY DEF PutWord, KeywordsSpelled, KeywordsFor
    <3> QED
      BY <1>1, <3>1, <3>2
  <2> QED
    BY <1>4, <2>1 DEF WordStep, ConsumeIdentifierChar, EndWord, ContinueWordUtf8, BreakWordUtf8
<1>5. CASE DigitStep
  <2>1. ASSUME NEW length, FinishDigits(length)
        PROVE  \/ tokens' = tokens
               \/ \E t : tokens' = Append(tokens, t) /\ t.kind # "block_comment"
               \/ \E t, u : /\ tokens' = tokens \o <<t, u>>
                            /\ t.kind # "block_comment" /\ u.kind # "block_comment"
    <3>1. \A o, n : Token("dec_int_literal", o, n).kind = "dec_int_literal"
      BY DEF Token
    <3>2. \A o, n : Token("dot", o, n).kind = "dot"
      BY DEF Token
    <3>3. CASE tokens' = tokens \o <<Token("dec_int_literal", local.offset, local.int_length),
                                     Token("dot", local.from, 0)>>
      <4>1. PICK t, u : /\ t = Token("dec_int_literal", local.offset, local.int_length)
                        /\ u = Token("dot", local.from, 0)
        OBVIOUS
      <4>2. tokens' = tokens \o <<t, u>>
        BY <3>3, <4>1
      <4> QED
        BY <3>1, <3>2, <4>1, <4>2
    <3> QED
      BY <1>1, <2>1, <3>3 DEF FinishDigits
  <2> QED
    BY <1>5, <2>1 DEF DigitStep, ConsumeDigit, OpenDigitGap, EndDigits, SkipDigitGap, CloseDigitGap,
       EndDigitGap
<1>6. CASE CommentStep
  <2>1. CASE EndLineComment
    <3>1. local.kind # "block_comment" /\ PutComment(it)
      BY <2>1 DEF EndLineComment, EInv, CommentKind
    <3> QED
      BY <1>1, <3>1 DEF PutComment
  <2> QED
    BY <1>6, <2>1 DEF CommentStep, ConsumeLineCommentChar, NestBlockComment, ConsumeBlockCommentChar
<1>7. CASE QuoteStep
  <2>1. local.kind # "block_comment"
    <3>1. QuoteInv
      BY <1>7 DEF QuoteStep, ConsumeQuotedChar, CloseQuote, AbandonQuote, EInv
    <3>2. local.kind \in QuotedKind
      BY <3>1, Quotes DEF QuoteInv
    <3> QED
      BY <3>2 DEF QuotedKind
  <2> QED
    BY <1>1, <1>7, <2>1 DEF QuoteStep, ConsumeQuotedChar, CloseQuote, AbandonQuote
<1>8. CASE Returned
  BY <1>8 DEF Returned, vars
<1> QED
  BY <1>2, <1>3, <1>4, <1>5, <1>6, <1>7, <1>8 DEF Next

(* The text does not change, and with it the depth. *)
LEMMA NestedStays ==
  ASSUME text' = text, NEW o, NEW i, NEW c, Nested(o, i, c)
  PROVE  Nested(o, i, c)'
<1>1. Nesting(o)' = Nesting(o)
  BY NestingStays
<1>2. ASSUME NEW q PROVE AfterMark(q)' = AfterMark(q)
  BY NestingStays
<1> QED
  BY <1>1, <1>2 DEF Nested, Charted

(* The marks of a comment. *)
LEMMA MarksApart ==
  ASSUME text \in Seq(Byte), NEW i \in Nat
  PROVE  /\ Follows(i, <<"/", "*">>) => AfterMark(i) = i + 2 /\ Deepens(i) = 1 /\ i + 2 <= Len(text)
         /\ Follows(i, <<"*", "/">>) => AfterMark(i) = i + 2 /\ Deepens(i) = -1 /\ i + 2 <= Len(text)
         /\ ~Follows(i, <<"/", "*">>) /\ ~Follows(i, <<"*", "/">>) =>
              AfterMark(i) = i + 1 /\ Deepens(i) = 0
<1>1. Follows(i, <<"*", "/">>) => ~Follows(i, <<"/", "*">>)
  <2>1. Follows(i, <<"*", "/">>) => ByteAt(i) = "*"
    BY FollowsBytes
  <2>2. Follows(i, <<"/", "*">>) => ByteAt(i) = "/"
    BY FollowsBytes
  <2> QED
    BY <2>1, <2>2
<1>2. \A chars : Follows(i, chars) => i + Len(chars) <= Len(text)
  BY DEF Follows
<1>3. Len(<<"/", "*">>) = 2 /\ Len(<<"*", "/">>) = 2
  OBVIOUS
<1>4. Follows(i, <<"/", "*">>) \/ Follows(i, <<"*", "/">>) => i + 2 <= Len(text)
  BY <1>2, <1>3
<1> QED
  BY <1>1, <1>4 DEF AfterMark, Deepens

(* From one mark to the next. *)
LEMMA NestedStep ==
  ASSUME text \in Seq(Byte), NEW o \in Nat, NEW i \in Nat, NEW c \in Nat, NEW a, a = AfterMark(i),
         NEW n, n = Deepens(i), o < i, a <= Len(text), c >= 1, Nested(o, i, c)
  PROVE  Nested(o, a, c + n)
<1>1. Len(text) \in Nat /\ Nesting(o)[i] = c /\ Charted(o, i) /\ o <= i
  BY DEF Nested
<1>2. /\ a \in Nat /\ i < a /\ Nesting(o)[a] = c + n
      /\ \A p \in (i + 1)..(a - 1) : Nesting(o)[p] = -1
      /\ Charted(o, a)
  BY <1>1, NestingStep
<1>3. ASSUME NEW p \in (o + 1)..(a - 1) PROVE Nesting(o)[p] # 0
  <2>1. p \in (o + 1)..(i - 1) \/ p = i \/ p \in (i + 1)..(a - 1)
    BY <1>2
  <2>2. CASE p \in (o + 1)..(i - 1)
    BY <2>2 DEF Nested
  <2>3. CASE p = i
    BY <1>1, <2>3
  <2>4. CASE p \in (i + 1)..(a - 1)
    BY <1>2, <2>4
  <2> QED
    BY <2>1, <2>2, <2>3, <2>4
<1> QED
  BY <1>2, <1>3 DEF Nested

(* A comment begins. *)
LEMMA NestedFirst ==
  ASSUME text \in Seq(Byte), NEW o \in Nat, Follows(o, <<"/", "*">>)
  PROVE  Nested(o, o + 2, 1)
<1>1. PICK a : a = AfterMark(o)
  OBVIOUS
<1>2. a = o + 2 /\ Deepens(o) = 1 /\ a <= Len(text) /\ Len(text) \in Nat /\ a \in Nat
  BY <1>1, MarksApart
<1>3. Nesting(o)[o] = 0
  <2>1. o <= Len(text) /\ o \in o..Len(text)
    BY <1>2
  <2>2. Nesting(o)[o] = DepthAt(Nesting(o), o, o)
    BY <1>2, <2>1, NestingIsDepth
  <2> QED
    BY <2>2 DEF DepthAt
<1>4. Charted(o, o)
  BY DEF Charted
<1>5. /\ Nesting(o)[a] = 0 + Deepens(o)
      /\ \A p \in (o + 1)..(a - 1) : Nesting(o)[p] = -1
      /\ Charted(o, a)
  <2>1. PICK c \in Nat : c = 0
    OBVIOUS
  <2>2. Len(text) \in Nat /\ o <= o /\ a <= Len(text) /\ Nesting(o)[o] = c
    BY <1>2, <1>3, <2>1
  <2>3. /\ Nesting(o)[a] = c + Deepens(o)
        /\ \A p \in (o + 1)..(a - 1) : Nesting(o)[p] = -1
        /\ Charted(o, a)
    BY <1>1, <1>4, <2>2, NestingStep
  <2> QED
    BY <2>1, <2>3
<1>6. Nesting(o)[a] = 1 /\ \A p \in (o + 1)..(a - 1) : Nesting(o)[p] # 0
  BY <1>2, <1>5
<1>7. Nested(o, a, 1)
  BY <1>5, <1>6 DEF Nested
<1> QED
  BY <1>2, <1>7, Zenon

(* The loop of the block comment is entered or goes on. *)
LEMMA CommentGoesOn ==
  ASSUME IInv, Next, pc = "block_comment" => CommentInv, pc' = "block_comment"
  PROVE  CommentInv'
<1>1. text' = text /\ text \in Seq(Byte) /\ it \in Nat /\ it <= Len(text) /\ Len(text) \in Nat
      /\ local \in LocalsType
  BY ReportsGrow, TextLength DEF IInv, TypeOK
<1>2. ASSUME pc = "block_comment", it' = AfterMark(it), it' <= Len(text), local'.offset = local.offset,
             local'.unclosed_count = local.unclosed_count + Deepens(it),
             local'.unclosed_count \in Nat
      PROVE  CommentInv'
  <2>1. PICK o \in Nat, i \in Nat, c \in Nat :
          o = local.offset /\ i = it /\ c = local.unclosed_count /\ Nested(o, i, c)
    BY <1>2 DEF CommentInv
  <2>2. PICK a, n, d : a = it' /\ a = AfterMark(i) /\ n = Deepens(i) /\ d = c + n
                       /\ d = local'.unclosed_count
    BY <1>2, <2>1
  <2>3. o < i /\ c >= 1 /\ a <= Len(text) /\ a \in Nat /\ d \in Nat
    BY <1>1, <1>2, <2>1, <2>2 DEF IInv, LoopInv, Loop, AfterMark
  <2>4. Nested(o, a, c + n)
    BY <1>1, <2>1, <2>2, <2>3, NestedStep
  <2>5. Nested(o, a, d)
    BY <2>2, <2>4, Zenon
  <2>6. Nested(o, a, d)'
    BY <1>1, <2>5, NestedStays
  <2>7. o = local'.offset
    BY <1>2, <2>1
  <2> QED
    BY <2>2, <2>3, <2>6, <2>7 DEF CommentInv
<1>3. /\ Follows(it, <<"/", "*">>) => AfterMark(it) = it + 2 /\ Deepens(it) = 1 /\ it + 2 <= Len(text)
      /\ Follows(it, <<"*", "/">>) => AfterMark(it) = it + 2 /\ Deepens(it) = -1 /\ it + 2 <= Len(text)
      /\ ~Follows(it, <<"/", "*">>) /\ ~Follows(it, <<"*", "/">>) =>
           AfterMark(it) = it + 1 /\ Deepens(it) = 0
  BY <1>1, MarksApart
<1>4. local.unclosed_count \in Nat /\ (pc = "block_comment" => local.unclosed_count >= 1)
  BY <1>1 DEF LocalsType, IInv, LoopInv
<1>5. CASE NestBlockComment
  <2>1. /\ pc = "block_comment" /\ Follows(it, <<"/", "*">>) /\ it' = it + 2
        /\ local'.offset = local.offset /\ local'.unclosed_count = local.unclosed_count + 1
    BY <1>1, <1>5 DEF NestBlockComment, Advance, LocalsType
  <2> QED
    BY <1>2, <1>3, <1>4, <2>1
<1>6. CASE CloseBlockComment
  <2>1. local.unclosed_count # 1
    BY <1>6 DEF CloseBlockComment, Return
  <2>2. /\ pc = "block_comment" /\ Follows(it, <<"*", "/">>) /\ it' = it + 2
        /\ local'.offset = local.offset /\ local'.unclosed_count = local.unclosed_count - 1
    BY <1>1, <1>6, <2>1 DEF CloseBlockComment, Advance, LocalsType
  <2> QED
    BY <1>2, <1>3, <1>4, <2>2
<1>7. CASE ConsumeBlockCommentChar
  <2>1. /\ pc = "block_comment" /\ it < Len(text) /\ it' = it + 1 /\ local' = local
        /\ ~Follows(it, <<"/", "*">>) /\ ~Follows(it, <<"*", "/">>)
    BY <1>7 DEF ConsumeBlockCommentChar, Advance, valid
  <2> QED
    BY <1>1, <1>2, <1>3, <1>4, <2>1
<1>8. CASE on_operator
  <2>1. PICK j \in DOMAIN Alternatives :
          /\ Matched(j) /\ it' = it + Len(Alternatives[j].chars)
          /\ Act(Alternatives[j].chars, Alternatives[j].kind)
    BY <1>8 DEF on_operator, Advance
  <2>2. PICK chars, kind, o : /\ chars = Alternatives[j].chars /\ kind = Alternatives[j].kind
                              /\ Act(chars, kind) /\ it' = o + Len(chars) /\ o = it
    BY <2>1
  <2>3. pc = "source"
    BY <1>8 DEF on_operator
  <2>4. kind = "block_comment" /\ local' = [NoLocals EXCEPT !.offset = it, !.kind = kind, !.unclosed_count = 1]
    BY <2>2, <2>3 DEF Act, Enter
  <2>5. chars = <<"/", "*">>
    <3>1. j \in 1..49
      BY AllInPlace
    <3>2. ASSUME NEW k \in PunctuationKind PROVE k # "block_comment"
      BY DEF PunctuationKind, Lexeme
    <3>3. \A n \in (1..49) \ {15, 32, 33} : Alternatives[n].kind \in PunctuationKind
      BY SpellingTable, Zenon DEF Spells
    <3>4. Alternatives[15].kind = "r_angle" /\ Alternatives[32].kind = "line_comment"
      BY SpellingTable, Zenon
    <3>5. j = 33
      BY <2>2, <2>4, <3>1, <3>2, <3>3, <3>4
    <3> QED
      BY <2>2, <3>5, SpellingTable
  <2>6. Follows(o, <<"/", "*">>)
    BY <2>1, <2>2, <2>5 DEF Matched
  <2>7. Nested(o, o + 2, 1)
    BY <1>1, <2>2, <2>6, NestedFirst
  <2>8. Len(<<"/", "*">>) = 2
    OBVIOUS
  <2>9. PICK i : i = o + 2 /\ i = it' /\ i \in Nat /\ o \in Nat
    BY <1>1, <2>2, <2>5, <2>8
  <2>10. Nested(o, i, 1)
    BY <2>7, <2>9, Zenon
  <2>11. Nested(o, i, 1)'
    BY <1>1, <2>10, NestedStays
  <2>12. local'.offset = o /\ local'.unclosed_count = 1
    BY <2>2, <2>4 DEF NoLocals
  <2> QED
    BY <2>9, <2>11, <2>12 DEF CommentInv
<1>9. CASE ~(NestBlockComment \/ CloseBlockComment \/ ConsumeBlockCommentChar \/ on_operator)
  <2>1. CASE RunStep
    BY <2>1 DEF RunStep, RefuseSource, StartSource, Goto
  <2>2. CASE DispatchStep
    BY <1>9, <2>2 DEF DispatchStep, EndSource, SkipWhitespace, on_alphabetic, on_zero, on_nonzero, on_dot,
       on_quote, StartWordUtf8, RejectChar, Enter, EnterDigits, Goto
  <2>3. CASE WordStep
    BY <2>3 DEF WordStep, ConsumeIdentifierChar, EndWord, ContinueWordUtf8, BreakWordUtf8, Return
  <2>4. CASE DigitStep
    <3>1. \A n : FinishDigits(n) => pc' # "block_comment"
      BY DEF FinishDigits, Return, EnterDigits, Enter
    <3> QED
      BY <2>4, <3>1 DEF DigitStep, ConsumeDigit, OpenDigitGap, EndDigits, SkipDigitGap, CloseDigitGap,
         EndDigitGap, Enter, Goto
  <2>5. CASE CommentStep
    BY <1>9, <2>5 DEF CommentStep, ConsumeLineCommentChar, EndLineComment, AbandonBlockComment, Return
  <2>6. CASE QuoteStep
    BY <2>6 DEF QuoteStep, ConsumeQuotedChar, CloseQuote, AbandonQuote, Return
  <2>7. CASE Returned
    BY <2>7 DEF Returned, vars
  <2> QED
    BY <1>9, <2>1, <2>2, <2>3, <2>4, <2>5, <2>6, <2>7 DEF Next
<1> QED
  BY <1>5, <1>6, <1>7, <1>8, <1>9

(* The comment that is put when the loop ends. *)
LEMMA PutBalanced ==
  ASSUME IInv, pc = "block_comment", NEW e \in Nat, e > local.offset,
         NEW t, t = Token("block_comment", local.offset, e - local.offset)
  PROVE  t.offset = local.offset /\ End(t) = e
<1>1. PICK o, n : o = local.offset /\ n = e - o
  OBVIOUS
<1>2. o \in Nat /\ o \in 0..source_size_max
  BY <1>1, AtFrontier DEF Loop
<1>3. n \in Nat /\ o + n = e
  BY <1>1, <1>2
<1>4. "block_comment" \in VariableLengthKind
  BY DEF VariableLengthKind, CommentKind
<1>5. t = Token("block_comment", o, n)
  BY <1>1
<1>6. t.offset = o /\ End(t) = o + n
  BY ONLY <1>2, <1>3, <1>4, <1>5, VariableToken
<1> QED
  BY <1>1, <1>3, <1>6

(* The loop of the block comment ends. *)
LEMMA CommentEnds ==
  ASSUME IInv, EInv, CInv, CloseBlockComment \/ AbandonBlockComment
  PROVE  tokens' = tokens \/ \E t : tokens' = Append(tokens, t) /\ CommentBalanced(t)'
<1>1. /\ pc = "block_comment" /\ pc \in Loop /\ text' = text /\ text \in Seq(Byte) /\ local.kind = "block_comment"
      /\ local.unclosed_count >= 1
  BY DEF CloseBlockComment, AbandonBlockComment, Loop, EInv, CommentKind, IInv, TypeOK, LoopInv
<1>2. PICK o \in Nat, i \in Nat, c \in Nat :
        o = local.offset /\ i = it /\ c = local.unclosed_count /\ Nested(o, i, c)
  BY <1>1 DEF CInv, CommentInv
<1>3. o < i /\ i <= Len(text) /\ Len(text) \in Nat /\ c >= 1
  BY <1>1, <1>2, AtFrontier
<1>4. ASSUME NEW e \in Nat, e > o, NEW d, Nested(o, e, d), PutComment(e),
             \/ d = 0 /\ ~Reported("unterminated_block_comment", o)'
             \/ d # 0 /\ e = Len(text) /\ Reported("unterminated_block_comment", o)'
      PROVE  tokens' = tokens \/ \E t : tokens' = Append(tokens, t) /\ CommentBalanced(t)'
  <2>1. CASE ~emit_comments
    BY <1>4, <2>1 DEF PutComment
  <2>2. CASE emit_comments
    <3>1. PICK t : t = Token("block_comment", local.offset, e - local.offset) /\ tokens' = Append(tokens, t)
      BY <1>1, <1>2, <1>4, <2>2 DEF PutComment, Put
    <3>2. t.offset = o /\ End(t) = e
      BY <1>1, <1>2, <1>4, <3>1, PutBalanced
    <3>3. End(t)' = e
      BY <3>2 DEF End, Width, KeywordLexeme
    <3>4. Nested(o, e, d)'
      BY <1>1, <1>4, NestedStays
    <3>5. Len(text') = Len(text)
      BY <1>1
    <3>6. CommentBalanced(t)'
      BY <1>4, <3>2, <3>3, <3>4, <3>5 DEF CommentBalanced, Nested
    <3> QED
      BY <3>1, <3>6
  <2> QED
    BY <2>1, <2>2
<1>5. CASE CloseBlockComment
  <2>1. CASE local.unclosed_count = 1
    <3>1. Follows(i, <<"*", "/">>) /\ reports' = reports
      BY <1>2, <1>5 DEF CloseBlockComment
    <3>2. PICK a, n : a = AfterMark(i) /\ n = Deepens(i) /\ a = i + 2 /\ n = -1 /\ a <= Len(text)
      BY <1>1, <3>1, MarksApart
    <3>3. Nested(o, a, c + n)
      BY <1>1, <1>2, <1>3, <3>2, NestedStep
    <3>4. PICK d : d = c + n /\ d = 0
      BY <1>2, <2>1, <3>2
    <3>5. Nested(o, a, d) /\ a \in Nat /\ a > o
      <4>1. Nested(o, a, d)
        BY <3>3, <3>4, Zenon
      <4> QED
        BY <1>3, <3>2, <4>1
    <3>6. PutComment(a)
      <4>1. PutComment(it + 2) /\ it + 2 = a
        BY <1>2, <1>5, <2>1, <3>2 DEF CloseBlockComment
      <4> QED
        BY <4>1, Zenon
    <3>7. ~Reported("unterminated_block_comment", o)'
      <4>1. \A j \in 1..Len(reports) : reports[j].offset < o
        BY <1>1, <1>2 DEF IInv, ReportInv
      <4> QED
        BY <3>1, <4>1 DEF Reported
    <3> QED
      BY <1>4, <3>4, <3>5, <3>6, <3>7
  <2>2. CASE local.unclosed_count # 1
    BY <1>5, <2>2 DEF CloseBlockComment
  <2> QED
    BY <2>1, <2>2
<1>6. CASE AbandonBlockComment
  <2>1. i = Len(text) /\ PutComment(i)
    BY <1>2, <1>3, <1>6 DEF AbandonBlockComment, valid
  <2>2. Report("unterminated_block_comment", o)
    BY <1>2, <1>6 DEF AbandonBlockComment
  <2>3. Reported("unterminated_block_comment", o)'
    <3>1. "unterminated_block_comment" \in Message /\ o \in 0..Len(text)
      BY <1>3 DEF Message
    <3> QED
      BY <2>2, <3>1, ReportIsMade
  <2>4. i > o /\ c # 0
    BY <1>3
  <2> QED
    BY <1>2, <1>4, <2>1, <2>3, <2>4
<1> QED
  BY <1>5, <1>6

(* Comments are balanced after every step. *)
LEMMA CommentsStay ==
  ASSUME IInv, EInv, CInv, Next
  PROVE  CommentsBalanced'
<1>1. tokens \in Seq(TokenType)
  BY DEF IInv, TypeOK
<1>2. ASSUME NEW i \in 1..Len(tokens), NEW t, t = tokens[i], t.kind = "block_comment"
      PROVE  CommentBalanced(t)'
  <2>1. CommentBalanced(t)
    BY <1>2 DEF CInv, CommentsBalanced, TokensOf
  <2> QED
    BY <1>2, <2>1, BalancedStays
<1>3. ASSUME NEW j \in 1..Len(tokens'), NEW t, t = tokens'[j], t.kind = "block_comment"
      PROVE  CommentBalanced(t)'
  <2>1. CASE tokens' = tokens
    BY <1>2, <1>3, <2>1
  <2>2. ASSUME NEW u, tokens' = Append(tokens, u), u.kind # "block_comment" \/ CommentBalanced(u)'
        PROVE  CommentBalanced(t)'
    <3>1. (j \in 1..Len(tokens) /\ t = tokens[j]) \/ t = u
      BY <1>1, <1>3, <2>2
    <3> QED
      BY <1>2, <1>3, <2>2, <3>1
  <2>3. ASSUME NEW u, NEW v, tokens' = tokens \o <<u, v>>,
               u.kind # "block_comment", v.kind # "block_comment"
        PROVE  CommentBalanced(t)'
    <3>1. (j \in 1..Len(tokens) /\ t = tokens[j]) \/ t = u \/ t = v
      <4>1. <<u, v>> \in Seq({u, v}) /\ Len(<<u, v>>) = 2 /\ <<u, v>>[1] = u /\ <<u, v>>[2] = v
        OBVIOUS
      <4>2. Len(tokens) \in Nat /\ Len(tokens') = Len(tokens) + 2
        BY <1>1, <2>3, <4>1
      <4>3. j \in 1..Len(tokens) \/ j = Len(tokens) + 1 \/ j = Len(tokens) + 2
        BY <4>2
      <4> QED
        BY <1>1, <1>3, <2>3, <4>1, <4>2, <4>3
    <3> QED
      BY <1>2, <1>3, <2>3, <3>1
  <2>4. CASE CloseBlockComment \/ AbandonBlockComment
    BY <2>1, <2>2, <2>4, CommentEnds
  <2>5. CASE ~CloseBlockComment /\ ~AbandonBlockComment
    BY <2>1, <2>2, <2>3, <2>5, OtherTokens
  <2> QED
    BY <2>4, <2>5
<1>4. ASSUME NEW j \in 1..Len(tokens'), tokens'[j].kind = "block_comment"
      PROVE  CommentBalanced(tokens[j])'
  <2>1. PICK t : t = tokens'[j]
    OBVIOUS
  <2>2. CommentBalanced(t)'
    BY <1>3, <1>4, <2>1
  <2> QED
    BY <2>1, <2>2
<1> QED
  BY <1>4 DEF CommentsBalanced, TokensOf

(* The invariant of the nesting of comments. *)
THEOREM NestingInvariance == Spec => []CInv
<1>1. Init => CInv
  BY DEF Init, CInv, CommentsBalanced, TokensOf
<1>2. IInv /\ EInv /\ CInv /\ [Next]_vars => CInv'
  <2> SUFFICES ASSUME IInv, EInv, CInv, [Next]_vars PROVE CInv'
    OBVIOUS
  <2>1. CASE Next
    BY <2>1, CommentsStay, CommentGoesOn DEF CInv
  <2>2. CASE UNCHANGED vars
    <3>1. /\ text' = text /\ tokens' = tokens /\ reports' = reports
          /\ it' = it /\ pc' = pc /\ local' = local
      BY <2>2 DEF vars
    <3>2. ASSUME NEW i \in 1..Len(tokens'), tokens'[i].kind = "block_comment"
          PROVE  CommentBalanced(tokens[i])'
      <4>1. PICK t : t = tokens'[i] /\ t = tokens[i]
        BY <3>1
      <4>2. CommentBalanced(t)
        BY <3>1, <3>2, <4>1 DEF CInv, CommentsBalanced, TokensOf
      <4>3. Nesting(t.offset)' = Nesting(t.offset)
        BY <3>1, NestingStays
      <4>4. End(t)' = End(t)
        BY DEF End, Width, KeywordLexeme
      <4>5. Reported("unterminated_block_comment", t.offset)' <=>
              Reported("unterminated_block_comment", t.offset)
        BY <3>1 DEF Reported
      <4>6. CommentBalanced(t)'
        BY <3>1, <4>2, <4>3, <4>4, <4>5 DEF CommentBalanced
      <4> QED
        BY <4>1, <4>6
    <3>3. (pc = "block_comment" => CommentInv)'
      BY <3>1, NestedStays DEF CInv, CommentInv
    <3> QED
      BY <3>2, <3>3 DEF CInv, CommentsBalanced, TokensOf
  <2> QED
    BY <2>1, <2>2
<1> QED
  BY <1>1, <1>2, Invariance, ExtentInvariance, PTL DEF Spec

(***************************************************************************)
(* Lexer::lex_block_comment: for every text, a block comment that is       *)
(* emitted ends exactly where its nested comments are all closed, and one  *)
(* that the end of the text cuts off is reported, and only such a one.     *)
(***************************************************************************)
THEOREM CommentsStayBalanced == Spec => []CommentsBalanced
<1>1. CInv => CommentsBalanced
  BY DEF CInv
<1> QED
  BY <1>1, NestingInvariance, PTL

-----------------------------------------------------------------------------
(* Literals that are open at the end *)

(***************************************************************************)
(* on_quote puts a literal that meets a NUL without a report.  Nothing     *)
(* comes after it but the end of the list: the loop of run stops there.    *)
(***************************************************************************)
OpenInv ==
  \A i \in TokensOf(QuotedKind) : ByteAt(End(tokens[i])) = NUL =>
    \/ pc = "source" /\ it = End(tokens[i]) /\ i = Len(tokens)
    \/ pc = "done" /\ i = Len(tokens) - 1

(* A step puts no literal. *)
Unquoted ==
  \/ tokens' = tokens
  \/ \E t : tokens' = Append(tokens, t) /\ t.kind \notin QuotedKind
  \/ \E t, u : /\ tokens' = tokens \o <<t, u>>
               /\ t.kind \notin QuotedKind /\ u.kind \notin QuotedKind

(* Only on_quote puts literals. *)
LEMMA OthersUnquoted ==
  ASSUME IInv, EInv, Next, pc # "quote"
  PROVE  Unquoted
<1>1. /\ KeywordKind \cap QuotedKind = {} /\ OtherKind \cap QuotedKind = {}
      /\ "identifier" \notin QuotedKind /\ "end_of_file" \notin QuotedKind /\ "dot" \notin QuotedKind
      /\ NumericKind \cap QuotedKind = {} /\ CommentKind \cap QuotedKind = {}
  BY DEF QuotedKind, KeywordKind, OtherKind, NumericKind, CommentKind
<1>2. ASSUME NEW kind, kind \notin QuotedKind, NEW offset, NEW length, Put(kind, offset, length)
      PROVE  Unquoted
  <2>1. Token(kind, offset, length).kind \notin QuotedKind
    BY <1>2 DEF Token
  <2> QED
    BY <1>2, <2>1 DEF Put, Unquoted
<1>3. ASSUME NEW kind, kind \notin QuotedKind, NEW other, other \notin QuotedKind,
             NEW o, NEW l, NEW p, NEW m, tokens' = tokens \o <<Token(kind, o, l), Token(other, p, m)>>
      PROVE  Unquoted
  <2>1. Token(kind, o, l).kind \notin QuotedKind /\ Token(other, p, m).kind \notin QuotedKind
    BY <1>3 DEF Token
  <2> QED
    BY <1>3, <2>1 DEF Unquoted
<1>4. ASSUME tokens' = tokens PROVE Unquoted
  BY <1>4 DEF Unquoted
<1>5. CASE RunStep
  BY <1>1, <1>2, <1>4, <1>5 DEF RunStep, RefuseSource, StartSource
<1>6. CASE DispatchStep
  <2>1. CASE on_operator
    <3>1. PICK i \in DOMAIN Alternatives : Act(Alternatives[i].chars, Alternatives[i].kind)
      BY <2>1 DEF on_operator
    <3>2. Alternatives[i].kind \notin QuotedKind
      BY <1>1, AlternativesTyped, OtherKinds
    <3> QED
      BY <1>2, <1>3, <1>4, <3>1, <3>2 DEF Act
  <2>2. CASE EndSource
    BY <1>1, <1>2, <2>2 DEF EndSource
  <2>3. CASE ~on_operator /\ ~EndSource
    BY <1>4, <1>6, <2>3 DEF DispatchStep, SkipWhitespace, on_alphabetic, on_zero, on_nonzero, on_dot,
       on_quote, StartWordUtf8, RejectChar
  <2> QED
    BY <2>1, <2>2, <2>3
<1>7. CASE WordStep
  <2>1. \A o, m, e : PutWord(o, m, e) => Unquoted
    <3> SUFFICES ASSUME NEW o, NEW m, NEW e, PutWord(o, m, e) PROVE Unquoted
      OBVIOUS
    <3>1. CASE Put("identifier", o, e - o)
      BY <1>1, <1>2, <3>1
    <3>2. ASSUME NEW kw \in keywords, Put(kw.kind, o, 0) PROVE Unquoted
      <4>1. kw.kind \in KeywordKind
        BY KeywordsAssumption
      <4> QED
        BY <1>1, <1>2, <3>2, <4>1
    <3> QED
      BY <3>1, <3>2 DEF PutWord, KeywordsSpelled, KeywordsFor
  <2> QED
    BY <1>4, <1>7, <2>1 DEF WordStep, ConsumeIdentifierChar, EndWord, ContinueWordUtf8, BreakWordUtf8
<1>8. CASE DigitStep
  <2>1. \A n : FinishDigits(n) => Unquoted
    <3> SUFFICES ASSUME NEW n, FinishDigits(n) PROVE Unquoted
      OBVIOUS
    <3>1. \/ \E kind \in NumericKind \cup {"dot"} : \E length : Put(kind, local.offset, length)
          \/ tokens' = tokens
          \/ tokens' = tokens \o <<Token("dec_int_literal", local.offset, local.int_length),
                                   Token("dot", local.from, 0)>>
      BY DEF FinishDigits, NumericKind
    <3>2. "dec_int_literal" \notin QuotedKind
      BY DEF QuotedKind
    <3> QED
      BY <1>1, <1>2, <1>3, <1>4, <3>1, <3>2
  <2> QED
    BY <1>4, <1>8, <2>1 DEF DigitStep, ConsumeDigit, OpenDigitGap, EndDigits, SkipDigitGap,
       CloseDigitGap, EndDigitGap
<1>9. CASE CommentStep
  <2>1. local.kind \in CommentKind
    BY <1>9 DEF EInv, CommentStep, ConsumeLineCommentChar, EndLineComment, NestBlockComment,
       CloseBlockComment, ConsumeBlockCommentChar, AbandonBlockComment, CommentKind
  <2>2. \A e : PutComment(e) => Unquoted
    BY <1>1, <1>2, <1>4, <2>1 DEF PutComment
  <2> QED
    BY <1>4, <1>9, <2>2 DEF CommentStep, ConsumeLineCommentChar, EndLineComment, NestBlockComment,
       CloseBlockComment, ConsumeBlockCommentChar, AbandonBlockComment
<1>10. CASE Returned
  BY <1>4, <1>10 DEF Returned, vars
<1> QED
  BY <1>5, <1>6, <1>7, <1>8, <1>9, <1>10 DEF Next, QuoteStep, ConsumeQuotedChar, CloseQuote, AbandonQuote

(* The literals after such a step are those before it. *)
LEMMA SameLiterals ==
  ASSUME IInv, Unquoted
  PROVE  \A i \in (TokensOf(QuotedKind))' : i \in TokensOf(QuotedKind) /\ tokens'[i] = tokens[i]
<1>1. tokens \in Seq(TokenType)
  BY DEF IInv, TypeOK
<1>2. CASE tokens' = tokens
  BY <1>2 DEF TokensOf
<1>3. ASSUME NEW t, tokens' = Append(tokens, t), t.kind \notin QuotedKind,
             NEW i \in 1..Len(tokens'), tokens'[i].kind \in QuotedKind
      PROVE  i \in 1..Len(tokens) /\ tokens'[i] = tokens[i]
  BY <1>1, <1>3
<1>4. ASSUME NEW t, NEW u, tokens' = tokens \o <<t, u>>, t.kind \notin QuotedKind, u.kind \notin QuotedKind,
             NEW i \in 1..Len(tokens'), tokens'[i].kind \in QuotedKind
      PROVE  i \in 1..Len(tokens) /\ tokens'[i] = tokens[i]
  <2>1. /\ Len(tokens') = Len(tokens) + 2 /\ Len(tokens) \in Nat
        /\ tokens'[Len(tokens) + 1] = t /\ tokens'[Len(tokens) + 2] = u
        /\ \A j \in 1..Len(tokens) : tokens'[j] = tokens[j]
    BY <1>1, <1>4
  <2>2. i \in 1..Len(tokens) \/ i = Len(tokens) + 1 \/ i = Len(tokens) + 2
    BY <2>1
  <2> QED
    BY <1>4, <2>1, <2>2
<1> QED
  BY <1>2, <1>3, <1>4 DEF Unquoted, TokensOf

(* As long as the lexer is not at a NUL in its loop, it has left no literal open. *)
LEMMA NoneOpen ==
  ASSUME IInv, OpenInv, pc # "done", ~(pc = "source" /\ peek = NUL)
  PROVE  \A i \in TokensOf(QuotedKind) : ByteAt(End(tokens[i])) # NUL
BY DEF OpenInv, peek

(* Every step keeps it so. *)
LEMMA NextOpen ==
  ASSUME IInv, EInv, OpenInv, Next
  PROVE  OpenInv'
<1>1. text' = text /\ tokens \in Seq(TokenType)
  BY ReportsGrow DEF IInv, TypeOK
<1>2. ASSUME pc # "quote", pc # "done", ~(pc = "source" /\ peek = NUL) PROVE OpenInv'
  <2>1. \A i \in (TokensOf(QuotedKind))' : i \in TokensOf(QuotedKind) /\ tokens'[i] = tokens[i]
    BY <1>2, OthersUnquoted, SameLiterals
  <2>2. \A i \in (TokensOf(QuotedKind))' : ByteAt(End(tokens[i])) # NUL
    BY <1>2, <2>1, NoneOpen
  <2>3. \A i \in (TokensOf(QuotedKind))' : (ByteAt(End(tokens[i])))' # NUL
    BY <1>1, <2>1, <2>2 DEF ByteAt
  <2> QED
    BY <2>3 DEF OpenInv
<1>3. CASE EndSource
  <2>1. /\ tokens' = Append(tokens, Token("end_of_file", it, 0)) /\ pc' = "done" /\ pc = "source"
        /\ peek = NUL
    BY <1>3 DEF EndSource, Put, Goto
  <2>2. Len(tokens') = Len(tokens) + 1 /\ Len(tokens) \in Nat
    BY <1>1, <2>1
  <2>3. \A i \in (TokensOf(QuotedKind))' : i \in TokensOf(QuotedKind) /\ tokens'[i] = tokens[i]
    <3>1. pc # "quote"
      BY <2>1
    <3> QED
      BY <3>1, OthersUnquoted, SameLiterals
  <2>4. ASSUME NEW i \in (TokensOf(QuotedKind))', (ByteAt(End(tokens[i])))' = NUL
        PROVE  i = Len(tokens') - 1
    <3>1. ByteAt(End(tokens[i])) = NUL
      BY <1>1, <2>3, <2>4 DEF ByteAt
    <3>2. i = Len(tokens)
      BY <2>1, <2>3, <3>1 DEF OpenInv
    <3> QED
      BY <2>2, <3>2
  <2> QED
    BY <2>1, <2>4 DEF OpenInv
<1>4. CASE pc = "quote"
  <2>1. \A i \in TokensOf(QuotedKind) : ByteAt(End(tokens[i])) # NUL
    BY <1>4, NoneOpen
  <2>2. QuoteStep
    BY <1>4 DEF Next, RunStep, RefuseSource, StartSource, DispatchStep, EndSource, SkipWhitespace,
       on_alphabetic, on_zero, on_nonzero, on_dot, on_operator, on_quote, StartWordUtf8, RejectChar,
       WordStep, ConsumeIdentifierChar, EndWord, ContinueWordUtf8, BreakWordUtf8, DigitStep,
       ConsumeDigit, OpenDigitGap, EndDigits, SkipDigitGap, CloseDigitGap, EndDigitGap, CommentStep,
       ConsumeLineCommentChar, EndLineComment, NestBlockComment, CloseBlockComment,
       ConsumeBlockCommentChar, AbandonBlockComment, Returned
  <2>3. CASE ConsumeQuotedChar
    <3>1. tokens' = tokens
      BY <2>3 DEF ConsumeQuotedChar
    <3> QED
      BY <1>1, <2>1, <3>1 DEF OpenInv, TokensOf, ByteAt
  <2>4. CASE CloseQuote \/ AbandonQuote
    <3>1. PICK e : e = it'
      OBVIOUS
    <3>2. /\ local.offset \in Nat /\ local.offset <= source_size_max /\ source_size_max \in Nat
          /\ it \in Nat
      <4>1. pc \in Loop
        BY <1>4 DEF Loop
      <4> QED
        BY <4>1, AtFrontier
    <3>3. /\ tokens' = Append(tokens, Token(local.kind, local.offset, e - local.offset))
          /\ pc' = "source" /\ e \in Nat
      <4>1. CASE CloseQuote
        <5>1. e = it + 1
          BY <3>1, <4>1 DEF CloseQuote, Advance
        <5> QED
          BY <3>2, <4>1, <5>1, SMTT(30) DEF CloseQuote, Put, Return
      <4>2. CASE AbandonQuote
        <5>1. e = it
          BY <3>1, <4>2 DEF AbandonQuote
        <5> QED
          BY <3>2, <4>2, <5>1 DEF AbandonQuote, Put, Return
      <4> QED
        BY <2>4, <4>1, <4>2
    <3>4. PICK t : t = Token(local.kind, local.offset, e - local.offset)
      OBVIOUS
    <3>5. End(t) = e
      <4>1. t.offset = local.offset /\ t.variable_length = e - local.offset
        BY <3>2, <3>4, Unmasked DEF Token
      <4>2. t.kind \in VariableLengthKind
        <5>1. t.kind = local.kind /\ local.kind \in QuotedKind
          <6>1. QuoteInv
            BY <1>4 DEF EInv
          <6>2. local.kind \in QuotedKind
            BY <6>1, Quotes DEF QuoteInv
          <6> QED
            BY <3>4, <6>2 DEF Token
        <5> QED
          BY <5>1 DEF VariableLengthKind
      <4>3. Width(t) = t.variable_length
        BY <4>2, Widths
      <4> QED
        BY <3>2, <3>3, <4>1, <4>3 DEF End
    <3>6. /\ Len(tokens') = Len(tokens) + 1 /\ Len(tokens) \in Nat /\ tokens'[Len(tokens) + 1] = t
          /\ \A i \in 1..Len(tokens) : tokens'[i] = tokens[i]
      BY <1>1, <3>3, <3>4
    <3>7. ASSUME NEW i \in 1..Len(tokens'), tokens'[i].kind \in QuotedKind,
                 (ByteAt(End(tokens[i])))' = NUL
          PROVE  it' = End(tokens'[i]) /\ i = Len(tokens')
      <4>1. i \in 1..Len(tokens) \/ i = Len(tokens')
        BY <3>6
      <4>2. CASE i \in 1..Len(tokens)
        <5>1. tokens'[i] = tokens[i] /\ i \in TokensOf(QuotedKind)
          BY <3>6, <3>7, <4>2 DEF TokensOf
        <5> QED
          BY <1>1, <2>1, <3>7, <5>1 DEF ByteAt
      <4>3. CASE i = Len(tokens')
        BY <3>1, <3>5, <3>6, <4>3
      <4> QED
        BY <4>1, <4>2, <4>3
    <3> QED
      BY <3>3, <3>7 DEF OpenInv, TokensOf, End, Width, KeywordLexeme
  <2> QED
    BY <2>2, <2>3, <2>4 DEF QuoteStep
<1>5. CASE pc = "source" /\ peek = NUL /\ ~EndSource
  <2>1. /\ NUL \notin AsciiWhitespace /\ NUL \notin StrayAscii /\ NUL \notin NonAscii
        /\ NUL \notin AsciiIdentifierChar
    BY CharClasses
  <2>4. LowerLetter \cup UpperLetter \cup {"_"} \cup DecimalDigit \subseteq AsciiIdentifierChar
    BY DEF AsciiIdentifierChar
  <2>5. NUL # "." /\ NUL \notin DOMAIN QuoteKind /\ "0" \in DecimalDigit
    BY DEF NUL, QuoteKind, DecimalDigit
  <2>2. ~on_operator
    <3> SUFFICES ASSUME on_operator PROVE FALSE
      OBVIOUS
    <3>1. PICK i \in DOMAIN Alternatives : Matched(i)
      BY DEF on_operator
    <3>2. Alternatives[i].chars \in Seq(Punctuation) /\ Len(Alternatives[i].chars) \in Nat \ {0}
      BY AlternativesTyped
    <3>3. text[it + 1] = Alternatives[i].chars[1] /\ Alternatives[i].chars[1] \in Punctuation
          /\ it + 1 <= Len(text)
      BY <3>1, <3>2, AtSource, <1>5, SMTT(30) DEF Matched, Follows
    <3>4. peek \in Punctuation
      BY <1>5, <3>3, AtSource DEF peek, ByteAt
    <3> QED
      BY <1>5, <3>4, CharClasses
  <2>3. ~Next
    BY <1>5, <2>1, <2>2, <2>4, <2>5 DEF Next, RunStep, RefuseSource, StartSource, DispatchStep, SkipWhitespace,
       on_alphabetic, on_zero, on_nonzero, on_dot, on_quote, StartWordUtf8, RejectChar,
       WordStep, ConsumeIdentifierChar, EndWord, ContinueWordUtf8, BreakWordUtf8, DigitStep,
       ConsumeDigit, OpenDigitGap, EndDigits, SkipDigitGap, CloseDigitGap, EndDigitGap, CommentStep,
       ConsumeLineCommentChar, EndLineComment, NestBlockComment, CloseBlockComment,
       ConsumeBlockCommentChar, AbandonBlockComment, QuoteStep, ConsumeQuotedChar, CloseQuote,
       AbandonQuote, Returned
  <2> QED
    BY <2>3
<1>6. CASE pc = "done"
  <2>1. Returned
    BY <1>6 DEF Next, RunStep, RefuseSource, StartSource, DispatchStep, EndSource, SkipWhitespace,
       on_alphabetic, on_zero, on_nonzero, on_dot, on_operator, on_quote, StartWordUtf8, RejectChar,
       WordStep, ConsumeIdentifierChar, EndWord, ContinueWordUtf8, BreakWordUtf8, DigitStep,
       ConsumeDigit, OpenDigitGap, EndDigits, SkipDigitGap, CloseDigitGap, EndDigitGap, CommentStep,
       ConsumeLineCommentChar, EndLineComment, NestBlockComment, CloseBlockComment,
       ConsumeBlockCommentChar, AbandonBlockComment, QuoteStep, ConsumeQuotedChar, CloseQuote,
       AbandonQuote
  <2> QED
    BY <2>1 DEF Returned, vars, OpenInv, TokensOf, ByteAt
<1> QED
  BY <1>2, <1>3, <1>4, <1>5, <1>6

(* What the three invariants say when at most unterminated comments were reported. *)
LEMMA SilentList ==
  ASSUME IInv, EInv, OpenInv, StopInv, pc = "done",
         \A i \in 1..Len(reports) : reports[i].message = "unterminated_block_comment"
  PROVE  /\ it = Len(text)
         /\ \A i \in TokensOf(QuotedKind) : i # Len(tokens) - 1 =>
              /\ tokens[i].variable_length >= 2
              /\ text[tokens[i].offset + tokens[i].variable_length] = text[tokens[i].offset + 1]
<1>1. /\ \A offset : ~Reported("missing_closing_quote", offset) /\ ~Reported("invalid_character", offset)
      /\ ~Refused
  BY DEF Reported, Refused
<1>2. it = Len(text)
  BY <1>1 DEF StopInv
<1>3. ASSUME NEW i \in TokensOf(QuotedKind), i # Len(tokens) - 1
      PROVE  /\ tokens[i].variable_length >= 2
             /\ text[tokens[i].offset + tokens[i].variable_length] = text[tokens[i].offset + 1]
  <2>1. i \in 1..Len(tokens) /\ tokens[i].kind \in QuotedKind /\ QuoteClosed(tokens[i])
    BY TokenIsSound DEF TokensOf, TokenOK
  <2>2. PICK t, e : t = tokens[i] /\ e = t.offset + t.variable_length
    OBVIOUS
  <2>3. Width(t) = t.variable_length /\ End(t) = e
    <3>1. t.kind \in VariableLengthKind
      BY <2>1, <2>2 DEF VariableLengthKind
    <3> QED
      BY <2>2, <3>1, Widths DEF End
  <2>4. ByteAt(e) # NUL
    BY <1>3, <2>2, <2>3 DEF OpenInv
  <2>5. t.variable_length >= 2 /\ EndsQuote(t.offset, e - 1)
    BY <1>1, <2>1, <2>2, <2>3, <2>4 DEF QuoteClosed
  <2>6. t.offset \in Nat /\ t.variable_length \in Nat /\ Len(text) \in Nat /\ e \in Nat
    <3>1. tokens \in Seq(TokenType)
      BY DEF IInv, TypeOK
    <3>2. t \in TokenType
      BY <2>1, <2>2, <3>1
    <3>3. t.offset \in Nat /\ t.variable_length \in Nat
      BY <3>2, SourceSizeAssumption DEF TokenType
    <3> QED
      BY <2>2, <3>3, TextLength
  <2>7. e - 1 \in t.offset..(e - 1) /\ t.offset \in t.offset..(e - 1) /\ e - 1 \in Nat
    BY <2>2, <2>5, <2>6
  <2>8. ByteAt(e - 1) # NUL /\ ByteAt(t.offset) # NUL
    BY <2>1, <2>2, <2>3, <2>7 DEF QuoteClosed
  <2>9. ByteAt(e - 1) = text[e] /\ ByteAt(t.offset) = text[t.offset + 1]
    <3>1. e - 1 < Len(text) /\ t.offset < Len(text)
      BY <2>8 DEF ByteAt
    <3>2. e - 1 + 1 = e
      BY <2>6
    <3> QED
      BY <3>1, <3>2 DEF ByteAt
  <2> QED
    BY <2>2, <2>5, <2>9 DEF EndsQuote
<1> QED
  BY <1>2, <1>3

(* What is known of the text before anything has been read, whatever it is. *)
LEMMA FreshExtent ==
  ASSUME tokens = <<>>, pc = "run"
  PROVE  EInv /\ OpenInv /\ StopInv
BY DEF EInv, OpenInv, StopInv, TokensOf, CommentKind

(* Nothing happens. *)
LEMMA StutterSilent ==
  ASSUME EInv, OpenInv, StopInv, UNCHANGED vars
  PROVE  EInv' /\ OpenInv' /\ StopInv'
<1>1. EInv'
  BY StutterExtent
<1>2. OpenInv'
  BY DEF OpenInv, TokensOf, ByteAt, vars
<1>3. StopInv'
  BY DEF StopInv, Refused, Reported, ByteAt, vars
<1> QED
  BY <1>1, <1>2, <1>3

(* Every step keeps the three. *)
LEMMA NextSilent ==
  ASSUME IInv, EInv, OpenInv, StopInv, Next
  PROVE  EInv' /\ OpenInv' /\ StopInv'
BY NextExtent, NextOpen, StopsAtEnd
=============================================================================
