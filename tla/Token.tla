------------------------------- MODULE Token -------------------------------
(***************************************************************************)
(* Tokens (cero/syntax/token.hh): a kind, the offset of the first byte in  *)
(* the source and, for kinds of variable length, the length.               *)
(***************************************************************************)
EXTENDS Naturals, Sequences

CONSTANT source_size_max   \* largest offset a token can store (source.hh)

ASSUME SourceSizeAssumption == source_size_max \in Nat

NumericKind == {"dec_int_literal", "hex_int_literal", "bin_int_literal",
                "oct_int_literal", "float_literal"}

QuotedKind == {"char_literal", "string_literal"}

CommentKind == {"line_comment", "block_comment"}

VariableLengthKind == {"identifier"} \cup CommentKind \cup NumericKind \cup QuotedKind

KeywordKind ==
  {"kw_break", "kw_catch", "kw_const", "kw_continue", "kw_do", "kw_else", "kw_enum",
   "kw_for", "kw_if", "kw_in", "kw_interface", "kw_let", "kw_mut", "kw_private",
   "kw_public", "kw_raise", "kw_return", "kw_static", "kw_struct", "kw_switch",
   "kw_try", "kw_unchecked", "kw_while"}

(* The text Token::get_text answers for punctuation, kind by kind. *)
Lexeme == [
  dot |-> <<".">>, comma |-> <<",">>, colon |-> <<":">>, semicolon |-> <<";">>,
  l_brace |-> <<"{">>, r_brace |-> <<"}">>, l_paren |-> <<"(">>, r_paren |-> <<")">>,
  l_bracket |-> <<"[">>, r_bracket |-> <<"]">>, l_angle |-> <<"<">>, r_angle |-> <<">">>,
  eq |-> <<"=">>, plus |-> <<"+">>, minus |-> <<"-">>, star |-> <<"*">>,
  slash |-> <<"/">>, percent |-> <<"%">>, ampersand |-> <<"&">>, pipe |-> <<"|">>,
  tilde |-> <<"~">>, caret |-> <<"^">>, bang |-> <<"!">>,
  thin_arrow |-> <<"-", ">">>, thick_arrow |-> <<"=", ">">>, colon_colon |-> <<":", ":">>,
  plus_plus |-> <<"+", "+">>, minus_minus |-> <<"-", "-">>, l_angle_angle |-> <<"<", "<">>,
  and_and |-> <<"&", "&">>, pipe_pipe |-> <<"|", "|">>, eq_eq |-> <<"=", "=">>,
  bang_eq |-> <<"!", "=">>, l_angle_eq |-> <<"<", "=">>, r_angle_eq |-> <<">", "=">>,
  plus_eq |-> <<"+", "=">>, minus_eq |-> <<"-", "=">>, star_eq |-> <<"*", "=">>,
  slash_eq |-> <<"/", "=">>, percent_eq |-> <<"%", "=">>, ampersand_eq |-> <<"&", "=">>,
  pipe_eq |-> <<"|", "=">>, tilde_eq |-> <<"~", "=">>,
  l_angle_angle_eq |-> <<"<", "<", "=">>, r_angle_angle_eq |-> <<">", ">", "=">>,
  and_and_eq |-> <<"&", "&", "=">>, pipe_pipe_eq |-> <<"|", "|", "=">> ]

PunctuationKind == DOMAIN Lexeme

TokenKind == VariableLengthKind \cup KeywordKind \cup PunctuationKind \cup {"end_of_file"}

TokenType == [kind : TokenKind, offset : 0..source_size_max, variable_length : Nat]

(* The constructor keeps the low 24 bits of the offset: offset & 0xffffff. *)
Token(kind, offset, length) ==
  [kind |-> kind, offset |-> offset % (source_size_max + 1), variable_length |-> length]
=============================================================================
