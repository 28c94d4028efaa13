------------------------------- MODULE Build -------------------------------
(***************************************************************************)
(* build_source (cero/compile/build.cc): a source is locked and goes       *)
(* through the lexer and the parser to the semantic analyzer; what they    *)
(* report goes to one reporter.  The lexer and the parser take the steps   *)
(* of their own modules, and the token list is what connects them.         *)
(*                                                                         *)
(* The view that lock returns, and how opening a file fails, are those of  *)
(* module FileView: here only its result matters.                          *)
(***************************************************************************)
EXTENDS Unicode, Token, Source, Reporter

CONSTANTS
  Inputs,      \* the sources to build
  keywords,    \* see Lexer
  TailWidth,   \* see Lexer
  tab_size     \* columns of a tabulator

ASSUME BuildAssumption ==
  /\ Inputs \subseteq [origin : {"file", "string"}, content : Seq(Byte)]
  /\ tab_size \in Nat \ {0}
  /\ TailWidth \in Nat
  /\ keywords \subseteq [lexeme : Seq(LowerLetter), kind : KeywordKind]
  /\ \A kw \in keywords : Len(kw.lexeme) \in 1..(TailWidth + 1)
  /\ \A kw \in keywords, other \in keywords : kw.kind = other.kind => kw = other

VARIABLES
  source, phase, error,                    \* the input, the stage that runs and why lock failed
  text,                                    \* what the lexer reads
  tokens,                                  \* what it hands to the parser
  emit_comments, lexIt, lexReports, lexPc, lexLocal,   \* the variables of the lexer
  parIt, stack, mode, value, nodes, definitions, parReports   \* and of the parser

lexer == <<emit_comments, lexIt, lexReports, lexPc, lexLocal>>
parser == <<parIt, stack, mode, value, nodes, definitions, parReports>>
vars == <<source, phase, error, text, tokens, lexer, parser>>

(* The stages come with their invariants, which BuildProofs uses. *)
L == INSTANCE LexerExtentProofs WITH
  Sources <- {input.content : input \in Inputs},
  it <- lexIt, reports <- lexReports, pc <- lexPc, local <- lexLocal

(* What the parser takes for granted: the list ends with its only end_of_file token. *)
TokenLists ==
  {list \in Seq(TokenType) :
     /\ Len(list) > 0
     /\ \A i \in 1..Len(list) : list[i].kind = "end_of_file" <=> i = Len(list)}

(* The parser gets the list that the lexer made. *)
P == INSTANCE ParserTreeProofs WITH Inputs <- TokenLists, it <- parIt, reports <- parReports

-----------------------------------------------------------------------------
(* Locking a string never fails. *)
Lock ==
  /\ phase = "lock"
  /\ \/ /\ text' = get_text(source)
        /\ phase' = "lex"
        /\ UNCHANGED error
     \/ /\ source.origin = "file"
        /\ error' \in {"ENOENT", "EACCES"}
        /\ phase' = "done"
        /\ UNCHANGED text
  /\ UNCHANGED <<source, tokens, lexer, parser>>

run_lexer ==
  /\ phase = "lex"
  /\ lexPc # "done"
  /\ L!Next
  /\ UNCHANGED <<source, phase, error, parser>>

StartParser ==
  /\ phase = "lex"
  /\ lexPc = "done"
  /\ phase' = "parse"
  /\ UNCHANGED <<source, error, text, tokens, lexer, parser>>

run_parser ==
  /\ phase = "parse"
  /\ mode # "done"
  /\ P!Next
  /\ UNCHANGED <<source, phase, error, text, lexer>>

(* The semantic analyzer does nothing yet; the view is unlocked when build_source returns. *)
run_semantic_analyzer ==
  /\ phase = "parse"
  /\ mode = "done"
  /\ phase' = "done"
  /\ UNCHANGED <<source, error, text, tokens, lexer, parser>>

(* build_source has returned. *)
Returned == phase = "done" /\ UNCHANGED vars

(* build_source passes LexerFlags::none: no comments. *)
Init ==
  /\ source \in Inputs
  /\ phase = "lock"
  /\ error = "none"
  /\ text = <<>>
  /\ tokens = <<>>
  /\ emit_comments = FALSE
  /\ lexIt = 0 /\ lexReports = <<>> /\ lexPc = "run" /\ lexLocal = L!NoLocals
  /\ parIt = 1 /\ stack = <<P!Frame("run", 0, P!statement)>> /\ mode = "go" /\ value = 0
  /\ nodes = <<>> /\ definitions = <<>> /\ parReports = <<>>

Next == Lock \/ run_lexer \/ StartParser \/ run_parser \/ run_semantic_analyzer \/ Returned

(* Each stage is a sequential call and keeps executing until it returns. *)
Spec == Init /\ [][Next]_vars /\ WF_vars(Next)

-----------------------------------------------------------------------------
(* What the reporter has received, stage by stage. *)

(* A source that cannot be locked, or is refused for its size, is reported without a position. *)
NoPosition == [line |-> 0, column |-> 0]

LockReports ==
  CASE error = "none" -> <<>>
    [] error = "ENOENT" -> <<[message |-> "file_not_found", location |-> NoPosition]>>
    [] OTHER -> <<[message |-> "could_not_open_file", location |-> NoPosition]>>

ReportAt(message, offset) ==
  [message |-> message,
   location |-> IF message = "source_file_too_large" THEN NoPosition
                ELSE locate(text, offset, tab_size)]

received ==
  LockReports
    \o [i \in 1..Len(lexReports) |-> ReportAt(lexReports[i].message, lexReports[i].offset)]
    \o [i \in 1..Len(parReports) |-> ReportAt(parReports[i].message, tokens[parReports[i].at].offset)]

Errors == {i \in 1..Len(received) : get_default_message_level(received[i].message) = "error"}

-----------------------------------------------------------------------------
(***************************************************************************)
(* The parser gets what it takes for granted: a list that ends with its    *)
(* only end_of_file token, where TokenCursor stops, and whose offsets      *)
(* grow, by which it tells a shift from two comparisons.  It holds for     *)
(* every path through Lexer::run, also for a source that is refused.       *)
(***************************************************************************)
ParserInputReady ==
  phase = "parse" =>
    /\ Len(tokens) > 0
    /\ \A i \in 1..Len(tokens) : tokens[i].kind = "end_of_file" <=> i = Len(tokens)
    /\ L!TokensInOrder

(* A literal that ends with the quote it begins with. *)
Closed(token) ==
  /\ token.variable_length >= 2
  /\ text[token.offset + token.variable_length] = text[token.offset + 1]

(* build_source has returned and no error has been reported. *)
Accepted == phase = "done" /\ Errors = {}

(***************************************************************************)
(* A source without an error has been read to its end and every literal in *)
(* it is closed.  on_quote itself is silent about one that is open at the  *)
(* end of the text or at a NUL; that no such source is accepted is due to  *)
(* the parser, which misses what a definition must end with.  Neither the  *)
(* lexer nor the parser could promise this alone.                          *)
(***************************************************************************)
AcceptedIsRead ==
  Accepted =>
    /\ lexIt = Len(text)
    /\ \A i \in 1..Len(tokens) : tokens[i].kind \in QuotedKind => Closed(tokens[i])

(***************************************************************************)
(* And the tree holds every token of it: what is reported while the list   *)
(* is made does not hide what is lost when it is parsed.                   *)
(***************************************************************************)
AcceptedIsWhole == Accepted => P!RoundTrip

(* Line and column of every offset, walking through the text byte by byte. *)
Walk ==
  LET place[p \in 0..Len(text)] ==
        IF p = 0 THEN <<1, 1>>
        ELSE CASE text[p] = "\n" -> <<place[p - 1][1] + 1, 1>>
               [] text[p] = "\t" -> <<place[p - 1][1], place[p - 1][2] + tab_size>>
               [] OTHER -> <<place[p - 1][1], place[p - 1][2] + 1>>
  IN  place

(***************************************************************************)
(* The position a report has leads back to the byte it is about, for       *)
(* tabulators, empty lines and the end of the text too: it is the place    *)
(* reached by walking there, and no other byte has it (SourceView::locate).*)
(***************************************************************************)
LocationsExact ==
  error = "none" =>
    \A i \in {j \in 1..Len(received) : received[j].message # "source_file_too_large"} :
      LET place == <<received[i].location.line, received[i].location.column>>
          offset == IF i <= Len(lexReports) THEN lexReports[i].offset
                    ELSE tokens[parReports[i - Len(lexReports)].at].offset
      IN  {p \in 0..Len(text) : Walk[p] = place} = {offset}

(***************************************************************************)
(* The assertion of Reporter::report never fails: with every message that  *)
(* is reported come as many arguments as its format asks for, although the *)
(* placeholders are counted by hand around escaped braces.                 *)
(***************************************************************************)
ReportsFormatted == \A i \in 1..Len(received) : valid_for_message(received[i].message)

(* build_source returns, whatever it is given. *)
BuildEnds == <>(phase = "done")
=============================================================================
