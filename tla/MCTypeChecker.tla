--------------------------- MODULE MCTypeChecker ---------------------------
(***************************************************************************)
(* Instances of the type checker for TLC: programs of up to two functions. *)
(***************************************************************************)
EXTENDS TypeChecker, SequencesExt

MCFunctions ==
  [parameters : SeqOf({"a", "b"}, 1), outputs : SeqOf({"b"}, 1),
   statements : SeqOf({"a", "b", "other"}, 2)]

MCPrograms == SeqOf(MCFunctions, 2)
=============================================================================
