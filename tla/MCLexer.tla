------------------------------ MODULE MCLexer ------------------------------
(***************************************************************************)
(* Instances of the lexer for TLC: every text up to a length over small    *)
(* alphabets, each chosen for one group of handlers.                       *)
(***************************************************************************)
EXTENDS LexerProperties, UnicodeScalar, SequencesExt

CONSTANT Shapes   \* which of the shapes below the sources have

(***************************************************************************)
(* Three characters are the longest operator; five of "angles" hold two    *)
(* pairs of > and what follows them; seven hold a comment in a comment and *)
(* delimiters that overlap; "mixed" has a character for each of the        *)
(* handlers; "long" goes two bytes above a limit of four.                  *)
(***************************************************************************)
SourcesOf(shape) ==
  CASE shape = "words"     -> SeqOf({"i", "n", "7", " ", "xc3", "xa9", "x97"}, 5)
    [] shape = "numbers"   -> SeqOf({"0", "7", "x", "b", ".", " ", "e"}, 5)
    [] shape = "operators" -> SeqOf(Punctuation, 3)
    [] shape = "angles"    -> SeqOf({">", "=", "-", " "}, 5)
    [] shape = "comments"  -> SeqOf({"/", "*", "\n", "i"}, 7)
    [] shape = "quotes"    -> SeqOf({"\"", "'", "\\", "\n", NUL, "i"}, 5)
    [] shape = "utf8"      -> SeqOf({"xc3", "xa9", "x97", "xe2", "xf0", "xff", "i", " ", "@", NUL}, 4)
    [] shape = "mixed"     -> SeqOf({"i", "7", ".", "\"", "/", "*", "\n", "xc3"}, 4)
    [] shape = "long"      -> SeqOf({"i", " "}, 6)

Cases == UNION {[shape : {shape}, source : SourcesOf(shape)] : shape \in Shapes}

MCSources == {chosen.source : chosen \in Cases}

(***************************************************************************)
(* The two-letter keywords, with tails of one byte, so that words longer   *)
(* than every keyword are short enough to enumerate.                       *)
(***************************************************************************)
MCkeywords == {[lexeme |-> <<"i", "n">>, kind |-> "kw_in"],
               [lexeme |-> <<"i", "f">>, kind |-> "kw_if"],
               [lexeme |-> <<"d", "o">>, kind |-> "kw_do"]}

(* Leading bytes of two to four byte characters, continuation bytes and a byte UTF-8 never uses. *)
MCNonAscii == {"xc3", "xe2", "xf0", "xa9", "x97", "xff"}

MCcountl_one == [b \in MCNonAscii |->
  CASE b = "xc3" -> 2 [] b = "xe2" -> 3 [] b = "xf0" -> 4 [] b = "xff" -> 8 [] OTHER -> 1]

(***************************************************************************)
(* Which characters the tables accept is computed by the decoder from the  *)
(* values of the bytes and the ranges of the real tables that the bytes    *)
(* used here can reach.  The decoder drops the two high bits of the bytes  *)
(* after the first, whatever they are: xc3 followed by a blank, or cut off *)
(* by the end of the text, is accepted as U+00E0 or U+00C0.                *)
(***************************************************************************)
MCByteValue ==
  [b \in MCNonAscii |-> CASE b = "xc3" -> 195 [] b = "xe2" -> 226 [] b = "xf0" -> 240
                          [] b = "xa9" -> 169 [] b = "x97" -> 151 [] b = "xff" -> 255]
    @@ [b \in {NUL, "i", "n", "7", ".", "@", " ", "\"", "/", "*", "\n"} |->
          CASE b = NUL -> 0 [] b = "\n" -> 10 [] b = " " -> 32 [] b = "\"" -> 34 [] b = "*" -> 42
            [] b = "." -> 46 [] b = "/" -> 47 [] b = "7" -> 55 [] b = "@" -> 64 [] b = "i" -> 105
            [] b = "n" -> 110]

xid_start_table ==
  <<<<192, 214>>, <<216, 246>>, <<248, 705>>, <<2048, 2069>>, <<2160, 2183>>, <<2208, 2249>>,
    <<3090, 3112>>, <<3114, 3129>>, <<11264, 11492>>, <<12321, 12329>>, <<12449, 12538>>,
    <<12540, 12543>>, <<13312, 19903>>, <<131072, 173791>>, <<196608, 201546>>>>

xid_continue_table ==
  <<<<48, 57>>, <<192, 214>>, <<216, 246>>, <<248, 705>>, <<2048, 2093>>, <<2160, 2183>>,
    <<2199, 2273>>, <<2622, 2626>>, <<2662, 2677>>, <<3072, 3084>>, <<3090, 3112>>,
    <<3114, 3129>>, <<3132, 3140>>, <<8255, 8256>>, <<8421, 8432>>, <<11264, 11492>>,
    <<12321, 12335>>, <<12449, 12543>>, <<13312, 19903>>, <<131072, 173791>>, <<196608, 201546>>>>

AcceptedChars(table) ==
  {char \in Seq(DOMAIN MCByteValue) :
     search_table(table, Packed([i \in 1..Len(char) |-> MCByteValue[char[i]]]))}

MCXidStart == AcceptedChars(xid_start_table)

MCXidContinue == AcceptedChars(xid_continue_table)

(***************************************************************************)
(* A character of two, three or four bytes that stands first in a text is  *)
(* taken into an identifier exactly when the scalar that UTF-8 gives these *)
(* bytes lies in the table of XID_Start.  The lexer gets there by counting *)
(* leading ones, copying bytes that may run out into an integer, masking,  *)
(* shifting and searching (on_other_char, utf8_char_to_unicode_scalar).    *)
(* The characters: U+00E9 and U+29A69 are letters, U+00D7 and U+2A69 not.  *)
(***************************************************************************)
FirstCharDecoded ==
  \A scalar \in {215, 233, 10857, 170601} :
    LET bytes == Utf8(scalar)
        starts == /\ Len(text) \in Len(bytes)..source_size_max
                  /\ \A i \in 1..Len(bytes) : MCByteValue[text[i]] = bytes[i]
        identifier == tokens # <<>> /\ tokens[1].kind = "identifier" /\ tokens[1].offset = 0
        letter == \E i \in 1..Len(xid_start_table) :
                    scalar \in xid_start_table[i][1]..xid_start_table[i][2]
    IN  pc = "done" /\ starts => (identifier <=> letter)
=============================================================================
