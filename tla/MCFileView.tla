----------------------------- MODULE MCFileView -----------------------------
(***************************************************************************)
(* Instances of file views for TLC: enough handles for two complete views  *)
(* and a third that runs out of them half way.                             *)
(***************************************************************************)
EXTENDS FileView
=============================================================================
