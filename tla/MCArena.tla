------------------------------ MODULE MCArena ------------------------------
(***************************************************************************)
(* Instances of the arena and its arrays for TLC.  The unit of memory is   *)
(* four bytes: a header and a pointer take two units, nodes two to four,   *)
(* and operator new aligns to four units (16 bytes).                       *)
(***************************************************************************)
EXTENDS ArenaArray
=============================================================================
