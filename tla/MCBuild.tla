------------------------------ MODULE MCBuild ------------------------------
(***************************************************************************)
(* Instances of the whole build for TLC: texts over small alphabets, read  *)
(* from a file or given as a string.                                       *)
(***************************************************************************)
EXTENDS Build, SequencesExt

CONSTANT Shapes   \* which of the shapes below the sources have

FunctionOpening == <<"f", "(", ")", "{">>

(***************************************************************************)
(* "literals" are bodies with quotes that may stay open; "positions" have  *)
(* several reports on several lines; "nuls" are cut short when they are    *)
(* strings; "long" are above the size limit.                               *)
(***************************************************************************)
ContentsOf(shape) ==
  CASE shape = "literals"  -> {FunctionOpening \o middle : middle \in SeqOf({"\"", "\\", "\n", ";", "}"}, 4)}
    [] shape = "positions" -> SeqOf({"\n", "\t", "xff", "(", ")", "f"}, 4)
    [] shape = "nuls"      -> {FunctionOpening \o middle : middle \in SeqOf({NUL, "'", "}", "/", "*"}, 4)}
    [] shape = "long"      -> {[i \in 1..n |-> "f"] : n \in 9..11}

OriginsOf(shape) == IF shape = "literals" THEN {"file"} ELSE {"file", "string"}

MCInputs ==
  UNION {[origin : OriginsOf(shape), content : ContentsOf(shape)] : shape \in Shapes}

(* No text spells a keyword: words are the business of the lexer's own runs. *)
MCkeywords == {[lexeme |-> <<"i", "n">>, kind |-> "kw_in"]}

MCNonAscii == {"xff"}

MCcountl_one == [b \in MCNonAscii |-> 8]
=============================================================================
