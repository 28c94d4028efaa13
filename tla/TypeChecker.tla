---------------------------- MODULE TypeChecker ----------------------------
(***************************************************************************)
(* The type checker (cero/sema/type_checker.cc) with its symbol table, as  *)
(* far as it is written: it walks the definitions of the AST and looks up  *)
(* the names used as statements.  build_source does not call it yet.       *)
(*                                                                         *)
(* Of a function the names of its parameters and outputs are kept, and its *)
(* statements: a name, or "other" for an expression whose visit does       *)
(* nothing.                                                                *)
(***************************************************************************)
EXTENDS Naturals, Sequences

CONSTANT Programs   \* the ASTs to check: sequences of functions

VARIABLES
  program,       \* the definitions of the AST
  scope_stack,   \* sym_table_.scope_stack_: symbols by name, the innermost scope last
  visiting,      \* the definition, the list of it that is walked, and the position there
  symbols,       \* tir_.root_->symbols: the functions, by their definition
  lookups,       \* what find returned for each name looked up so far
  aborted        \* an assertion of the symbol table has failed

vars == <<program, scope_stack, visiting, symbols, lookups, aborted>>

Lists == <<"parameters", "outputs", "statements">>

fn_def == program[visiting.definition]

Walked == fn_def[Lists[visiting.list]]

(* The loop that is running is not at the end of its list. *)
AtElement(list) ==
  /\ visiting.list > 0
  /\ Lists[visiting.list] = list
  /\ visiting.position <= Len(Walked)

Step == visiting' = [visiting EXCEPT !.position = @ + 1]

-----------------------------------------------------------------------------
(* SymbolTable *)

push_scope == scope_stack' = Append(scope_stack, [name \in {} |-> "none"])

pop_scope ==
  IF scope_stack = <<>> THEN aborted' = TRUE /\ UNCHANGED scope_stack
  ELSE scope_stack' = SubSeq(scope_stack, 1, Len(scope_stack) - 1) /\ UNCHANGED aborted

(* put asserts that there is a scope, and stores nothing. *)
put(name, kind) == aborted' = (scope_stack = <<>>) /\ UNCHANGED scope_stack

(* find looks through the scopes from the innermost one; null when none has the name. *)
find(name) ==
  LET scopes == {i \in 1..Len(scope_stack) : name \in DOMAIN scope_stack[i]}
  IN  IF scopes = {} THEN "null"
      ELSE scope_stack[CHOOSE i \in scopes : \A j \in scopes : j <= i][name]

-----------------------------------------------------------------------------
(* TypeChecker *)

(* visit_function_definition enters a scope for the function. *)
EnterFunction ==
  /\ visiting.definition <= Len(program)
  /\ visiting.list = 0
  /\ push_scope
  /\ visiting' = [visiting EXCEPT !.list = 1, !.position = 1]
  /\ UNCHANGED <<program, symbols, lookups, aborted>>

visit_function_parameter ==
  /\ AtElement("parameters")
  /\ put(Walked[visiting.position], "parameter")
  /\ Step
  /\ UNCHANGED <<program, symbols, lookups>>

visit_function_output ==
  /\ AtElement("outputs")
  /\ put(Walked[visiting.position], "output")
  /\ Step
  /\ UNCHANGED <<program, symbols, lookups>>

visit_ident_expr ==
  /\ AtElement("statements")
  /\ Walked[visiting.position] # "other"
  /\ lookups' = Append(lookups, [definition |-> visiting.definition,
                                 name |-> Walked[visiting.position],
                                 symbol |-> find(Walked[visiting.position])])
  /\ Step
  /\ UNCHANGED <<program, scope_stack, symbols, aborted>>

(* The other visit functions are empty. *)
VisitOther ==
  /\ AtElement("statements")
  /\ Walked[visiting.position] = "other"
  /\ Step
  /\ UNCHANGED <<program, scope_stack, symbols, lookups, aborted>>

NextList ==
  /\ visiting.list \in 1..(Len(Lists) - 1)
  /\ visiting.position > Len(Walked)
  /\ visiting' = [visiting EXCEPT !.list = @ + 1, !.position = 1]
  /\ UNCHANGED <<program, scope_stack, symbols, lookups, aborted>>

(* The function becomes a symbol of the TIR and its scope ends. *)
LeaveFunction ==
  /\ visiting.list = Len(Lists)
  /\ visiting.position > Len(Walked)
  /\ symbols' = Append(symbols, visiting.definition)
  /\ pop_scope
  /\ visiting' = [definition |-> visiting.definition + 1, list |-> 0, position |-> 1]
  /\ UNCHANGED <<program, lookups>>

(* run_type_checker has returned, or an assertion has ended it. *)
Returned == (visiting.definition > Len(program) \/ aborted) /\ UNCHANGED vars

Init ==
  /\ program \in Programs
  /\ scope_stack = <<>>
  /\ visiting = [definition |-> 1, list |-> 0, position |-> 1]
  /\ symbols = <<>>
  /\ lookups = <<>>
  /\ aborted = FALSE

VisitStep ==
  \/ EnterFunction \/ visit_function_parameter \/ visit_function_output \/ visit_ident_expr
  \/ VisitOther \/ NextList \/ LeaveFunction

Next ==
  \/ ~aborted /\ VisitStep
  \/ Returned

Spec == Init /\ [][Next]_vars

-----------------------------------------------------------------------------
Names(list) == {list[i] : i \in 1..Len(list)}

(***************************************************************************)
(* The symbol table "keeps track of how identifiers map to symbols across  *)
(* multiple lexical scopes" (symbol_table.hh): in a function a name is     *)
(* found exactly when it is one of its parameters or outputs.              *)
(***************************************************************************)
NamesAreFound ==
  \A i \in 1..Len(lookups) :
    LET fn == program[lookups[i].definition] IN
    lookups[i].symbol # "null" <=> lookups[i].name \in Names(fn.parameters) \cup Names(fn.outputs)
=============================================================================
