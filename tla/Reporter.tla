------------------------------ MODULE Reporter ------------------------------
(***************************************************************************)
(* Messages and their arguments (cero/report).                             *)
(*                                                                         *)
(* Of a format string only the braces matter: "x" stands for the text      *)
(* around them.                                                            *)
(***************************************************************************)
EXTENDS Naturals, Sequences

ExpectMessage ==
  {"expect_function_struct_or_enum", "expect_paren_after_function_name", "expect_parameter_type",
   "expect_parameter_name", "expect_paren_after_parameters", "expect_return_type",
   "expect_brace_before_function_body", "expect_expression", "expect_semicolon",
   "expect_closing_paren_in_call"}

get_message_format_string(message) ==
  CASE message \in {"file_not_found", "missing_closing_quote", "unterminated_block_comment"} -> <<"x">>
    [] message = "invalid_character" -> <<"x", "{", "x", "}", "x">>
    [] message = "expect_brace_before_function_body" -> <<"x", "{", "{", "x", "{", "}">>
    [] message \in {"could_not_open_file", "source_file_too_large"} -> <<"x", "{", "}", "x">>
    [] message \in ExpectMessage \ {"expect_brace_before_function_body"} -> <<"x", "{", "}">>

get_default_message_level(message) ==
  IF message = "unterminated_block_comment" THEN "warning" ELSE "error"

(* How many arguments the calls of report pass with each message. *)
ArgumentsOf(message) ==
  IF message \in {"file_not_found", "missing_closing_quote", "unterminated_block_comment"} THEN 0 ELSE 1

(* Mistake: each open brace is counted. *)
placeholder_count_EveryBrace(format) == Len(SelectSeq(format, LAMBDA c : c = "{"))

(* The loop of valid_for_message, at character c: a second open brace escapes the first. *)
Seen(seen, c) ==
  CASE c = "{" -> [open |-> ~seen.open, count |-> seen.count]
    [] c = "}" /\ seen.open -> [open |-> FALSE, count |-> seen.count + 1]
    [] OTHER -> seen

(* It counts the closing braces after an open one that is not escaped. *)
placeholder_count(format) ==
  LET seen[i \in 0..Len(format)] ==
        IF i = 0 THEN [open |-> FALSE, count |-> 0] ELSE Seen(seen[i - 1], format[i])
  IN  seen[Len(format)].count

valid_for_message(message) ==
  ArgumentsOf(message) = placeholder_count(get_message_format_string(message))
=============================================================================
