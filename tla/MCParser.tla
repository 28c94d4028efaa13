------------------------------ MODULE MCParser ------------------------------
(***************************************************************************)
(* Instances of the parser for TLC: every list up to a length over small   *)
(* alphabets of token kinds, between a fixed beginning and a fixed end.    *)
(***************************************************************************)
EXTENDS ParserProperties, SequencesExt

CONSTANT Shapes   \* which of the shapes below the token lists have

(***************************************************************************)
(* Tokens of kinds, one apart; "adjacent" is a > directly after the token  *)
(* before it.                                                              *)
(***************************************************************************)
TokenAt(kinds, i) ==
  CASE kinds[i] = "adjacent" -> Token("r_angle", 2 * i - 1, 0)
    [] kinds[i] \in VariableLengthKind -> Token(kinds[i], 2 * i, 1)
    [] OTHER -> Token(kinds[i], 2 * i, 0)

TokenListOf(kinds) == [i \in 1..Len(kinds) |-> TokenAt(kinds, i)]

FunctionOpening == <<"identifier", "l_paren", "r_paren", "l_brace">>

StatementClosing == <<"semicolon", "r_brace">>

(* Every kind with a tail rule, and operands. *)
OperatorKinds ==
  {"identifier", "float_literal", "adjacent"} \cup
  (PunctuationKind \ {"dot", "comma", "colon", "semicolon", "l_brace", "r_brace", "r_paren",
                      "l_bracket", "r_bracket", "thin_arrow", "thick_arrow", "colon_colon"})

(* The tokens before and after the ones that vary. *)
Opening(shape) ==
  CASE shape \in {"expressions", "returns", "statements"} -> FunctionOpening
    [] shape = "operators" -> FunctionOpening \o <<"identifier">>
    [] shape = "signatures" -> <<"kw_public", "identifier", "l_paren">>
    [] shape \in {"definitions", "cut_off"} -> <<>>

Closing(shape) ==
  CASE shape \in {"expressions", "returns", "statements"} -> StatementClosing
    [] shape = "operators" -> <<"identifier">> \o StatementClosing
    [] shape = "signatures" -> <<"l_brace", "r_brace">>
    [] shape = "definitions" -> PlainDefinition \o PlainDefinition
    [] shape = "cut_off" -> PlainDefinition

(***************************************************************************)
(* "operators" sets every operator beside every other, with and without an *)
(* operand between them; "cut_off" is a signature cut off by a definition. *)
(***************************************************************************)
Middles(shape) ==
  CASE shape = "expressions" ->
         SeqOf({"identifier", "minus", "star", "eq", "r_angle", "adjacent", "plus_plus",
                "l_paren", "r_paren"}, 5)
    [] shape = "returns" ->
         SeqOf({"identifier", "kw_return", "minus", "eq_eq", "caret", "comma", "l_paren",
                "r_paren"}, 4)
    [] shape = "operators" ->
         SeqOf(OperatorKinds, 2) \cup {<<a, "identifier", b>> : a, b \in OperatorKinds}
    [] shape = "signatures" ->
         SeqOf({"identifier", "comma", "r_paren", "thin_arrow"}, 6)
    [] shape = "statements" ->
         SeqOf({"identifier", "semicolon", "l_brace", "r_brace", "kw_return", "comma",
                "l_paren", "r_paren"}, 5)
    [] shape = "definitions" ->
         SeqOf({"identifier", "l_paren", "r_paren", "l_brace", "comma", "thin_arrow",
                "kw_public"}, 5)
    [] shape = "cut_off" ->
         SeqOf({"identifier", "l_paren"}, 3)

Cases == UNION {[shape : {shape}, middle : Middles(shape)] : shape \in Shapes}

MCInputs ==
  {TokenListOf(Opening(chosen.shape) \o chosen.middle \o Closing(chosen.shape) \o <<"end_of_file">>) :
     chosen \in Cases}
=============================================================================
