--------------------------- MODULE UnicodeScalar ---------------------------
(***************************************************************************)
(* From the bytes of a UTF-8 character to its place in the XID tables      *)
(* (cero/syntax/unicode.cc).  Bytes are numbers here.  A character is the  *)
(* uint32_t that the lexer fills with the bytes it has consumed: the four  *)
(* bytes of it in memory, 0 for the ones that were not announced.          *)
(***************************************************************************)
EXTENDS Naturals, Sequences

Packed(bytes) == [i \in 1..4 |-> IF i <= Len(bytes) THEN bytes[i] ELSE 0]

(* lengths, masks and shifts of utf8_char_to_unicode_scalar; a mask is the number of values it leaves. *)
Length(leading) ==
  CASE leading < 128 -> 1 [] leading \in 192..223 -> 2 [] leading \in 224..239 -> 3
    [] leading \in 240..247 -> 4 [] OTHER -> 0

Values == <<1, 128, 32, 16, 8>>

(* Mistake: the table has no entry for the length 0. *)
Shift_FromOne == <<2^18, 2^12, 2^6, 1, 1>>

Shift == <<1, 2^18, 2^12, 2^6, 1>>

(* The payload bits of four bytes, of which the ones behind the character are shifted out again. *)
utf8_char_to_unicode_scalar(char) ==
  LET length == Length(char[1])
      code_point == (char[1] % Values[length + 1]) * 2^18 + (char[2] % 64) * 2^12
                      + (char[3] % 64) * 2^6 + (char[4] % 64)
  IN  code_point \div Shift[length + 1]

(* std::binary_search with the order of the code: a range equals the scalars it contains. *)
search_table(table, char) ==
  \E i \in 1..Len(table) : utf8_char_to_unicode_scalar(char) \in table[i][1]..table[i][2]

-----------------------------------------------------------------------------
(* UTF-8 as the Unicode standard defines it. *)
Utf8(scalar) ==
  LET continuation(shift) == 128 + ((scalar \div shift) % 64)
  IN  CASE scalar < 2^7  -> <<scalar>>
        [] scalar < 2^11 -> <<192 + scalar \div 2^6, continuation(1)>>
        [] scalar < 2^16 -> <<224 + scalar \div 2^12, continuation(2^6), continuation(1)>>
        [] OTHER -> <<240 + scalar \div 2^18, continuation(2^12), continuation(2^6), continuation(1)>>
=============================================================================
