------------------------------ MODULE Unicode ------------------------------
(***************************************************************************)
(* The bytes of a Cero source and the character classes the lexer asks     *)
(* about (cero/syntax/unicode.hh).                                         *)
(*                                                                         *)
(* A byte is abstracted to the name of the character it encodes.  ASCII    *)
(* bytes are spelled out; bytes above 0x7f are the constant NonAscii, with *)
(* the number of leading one bits of each.  A multi-byte character is the  *)
(* sequence of its bytes, and the two XID tables of unicode.cc are         *)
(* constant sets of such sequences.                                        *)
(***************************************************************************)
EXTENDS Naturals, Sequences

CONSTANTS
  NonAscii,     \* names of the bytes 0x80 .. 0xff
  countl_one,   \* std::countl_one of each of them
  XidStart,     \* characters for which is_utf8_xid_start_char holds
  XidContinue   \* characters for which is_utf8_xid_continue_char holds

NUL == "NUL"

LowerLetter == {"a", "b", "c", "d", "e", "f", "g", "h", "i", "j", "k", "l", "m",
                "n", "o", "p", "q", "r", "s", "t", "u", "v", "w", "x", "y", "z"}

UpperLetter == {"A", "B", "C", "D", "E", "F", "G", "H", "I", "J", "K", "L", "M",
                "N", "O", "P", "Q", "R", "S", "T", "U", "V", "W", "X", "Y", "Z"}

DecimalDigit == {"0", "1", "2", "3", "4", "5", "6", "7", "8", "9"}

HexadecimalDigit ==
  DecimalDigit \cup {"a", "b", "c", "d", "e", "f", "A", "B", "C", "D", "E", "F"}

AsciiIdentifierChar == LowerLetter \cup UpperLetter \cup DecimalDigit \cup {"_"}

(* ' ' and the control characters '\t' .. '\r'; VT is '\v'. *)
AsciiWhitespace == {" ", "\t", "\n", "VT", "\f", "\r"}

(* ASCII characters that no case of Lexer::handle_next_character names. *)
StrayAscii == {"#", "$", "@", "?", "GRAVE", "\\", "BEL"}

Punctuation == {"(", ")", "[", "]", "{", "}", ",", ";", "^", "<", ">", ".", ":", "=",
                "+", "-", "*", "/", "%", "&", "|", "~", "!", "\"", "'"}

Ascii == {NUL} \cup AsciiIdentifierChar \cup AsciiWhitespace \cup StrayAscii \cup Punctuation

Byte == Ascii \cup NonAscii

ASSUME NonAsciiAssumption ==
  /\ NonAscii \cap Ascii = {}
  /\ countl_one \in [NonAscii -> 1..8]

leading_ones(b) == IF b \in NonAscii THEN countl_one[b] ELSE 0

(***************************************************************************)
(* How many bytes consume_multibyte_utf8_char takes for a character that   *)
(* begins with byte b: the leading byte announces two to four bytes, any   *)
(* other byte stands alone.                                                *)
(***************************************************************************)
announced_width(b) == IF leading_ones(b) \in 2..4 THEN leading_ones(b) ELSE 1
=============================================================================
