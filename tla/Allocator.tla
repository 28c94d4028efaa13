----------------------------- MODULE Allocator -----------------------------
(***************************************************************************)
(* What cero/util/memory_arena.hh promises of an arena, without saying how *)
(* memory is found: the storage it gives out is aligned and does not       *)
(* overlap other storage that is still given out, and it stays given out   *)
(* until the arena gives back everything at once.  A move takes the        *)
(* storage along.                                                          *)
(***************************************************************************)
EXTENDS Naturals

CONSTANT Arenas   \* the arena objects

VARIABLE given   \* the storage each arena has given out

StorageType == [ptr : Nat \ {0}, size : Nat, alignment : Nat \ {0}]

Overlap(x, y) == x.ptr < y.ptr + y.size /\ y.ptr < x.ptr + x.size

Init == given = [a \in Arenas |-> {}]

(* Of the new storage it is said what it is, not how it is found. *)
Allocate(a) ==
  \E storage \in given'[a] :
    /\ storage \in StorageType
    /\ storage.ptr % storage.alignment = 0
    /\ \A b \in Arenas : \A other \in given[b] : ~Overlap(storage, other)
    /\ given' = [given EXCEPT ![a] = @ \cup {storage}]

Deallocate(a) == given' = [given EXCEPT ![a] = {}]

Move(to, from) ==
  /\ to # from
  /\ given' = [given EXCEPT ![to] = given[from], ![from] = {}]

Next ==
  \/ \E a \in Arenas : Allocate(a) \/ Deallocate(a)
  \/ \E to, from \in Arenas : Move(to, from)

Spec == Init /\ [][Next]_given
=============================================================================
