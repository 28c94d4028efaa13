----------------------------- MODULE ArenaArray -----------------------------
(***************************************************************************)
(* Arrays that grow inside an arena (ArenaArray in memory_arena.hh): the   *)
(* lists of children of AST nodes, filled while other nodes and lists are  *)
(* created in the same arena, which is moved out of the parser with them.  *)
(*                                                                         *)
(* memory is what is stored at each address.  An object that the arena     *)
(* creates fills its storage; element i of array l is the value <<l, i>>,  *)
(* so that an element that is overwritten, left behind or copied to the    *)
(* wrong place can be told from every other.                               *)
(***************************************************************************)
EXTENDS MemoryArena

CONSTANTS
  Arrays,             \* the arrays
  initial_capacity,   \* capacity of an array that gets its first element
  sizeof_T,           \* size of an element: a pointer to a node
  alignof_T           \* its alignment

ASSUME ArrayAssumption ==
  /\ "none" \notin Arenas
  /\ initial_capacity \in Nat \ {0, 1}
  /\ sizeof_T \in Nat \ {0}
  /\ alignof_T \in Nat \ {0}

VARIABLES
  array,    \* data_, count_ and capacity_ of each array
  home,     \* the arena an array has its elements in; "none" when it has none
  memory    \* what is stored at each address

arrayVars == <<array, home, memory>>

(* What a cell can hold besides an element. *)
Free == <<"free", 0>>
Header == <<"header", 0>>
Object == <<"object", 0>>

NoElements == [data |-> 0, count |-> 0, capacity |-> 0]

Span(ptr, size) == ptr..(ptr + size - 1)

(* The cells of element i (counted from 1) of an array whose elements begin at data. *)
Cells(data, i) == Span(data + (i - 1) * sizeof_T, sizeof_T)

(* What create_block writes: the header of the block it has taken, if it took one. *)
HeaderCells(a) ==
  IF Len(arena'[a].blocks) > Len(arena[a].blocks)
  THEN Span(arena'[a].blocks[1], sizeof_Block) ELSE {}

-----------------------------------------------------------------------------
(* MemoryArena::create: storage from allocate, and an object constructed in it. *)
create(a, size, alignment) ==
  /\ allocate(a, size, alignment)
  /\ memory' = [m \in Address |->
                  IF m \in HeaderCells(a) THEN Header
                  ELSE IF m \in Span(Result(a, size), size) THEN Object
                  ELSE memory[m]]
  /\ UNCHANGED <<array, home>>

(* The capacity to which a full array grows. *)
NewCapacity(l) == Larger(array[l].capacity + array[l].capacity \div 2, initial_capacity)

(* put into an array that has room. *)
PutInPlace(l) ==
  /\ home[l] \in alive
  /\ array[l].count < array[l].capacity
  /\ array' = [array EXCEPT ![l].count = @ + 1]
  /\ memory' = [m \in Address |->
                  IF m \in Cells(array[l].data, array[l].count + 1) THEN <<l, array[l].count + 1>>
                  ELSE memory[m]]
  /\ UNCHANGED <<vars, home>>

(* Mistake: memcpy is given a number of elements in place of a number of bytes. *)
PutAndGrow_CopiesCount(l, a) ==
  LET old == array[l]
      new_cap == NewCapacity(l)
  IN  /\ home[l] \in {a, "none"}
      /\ old.count = old.capacity
      /\ allocate(a, new_cap * sizeof_T, alignof_T)
      /\ LET storage == Result(a, new_cap * sizeof_T) IN
         /\ array' = [array EXCEPT ![l] = [data |-> storage, count |-> old.count + 1,
                                           capacity |-> new_cap]]
         /\ memory' = [m \in Address |->
              IF m \in HeaderCells(a) THEN Header
              ELSE IF m \in Cells(storage, old.count + 1) THEN <<l, old.count + 1>>
              ELSE IF m \in Span(storage, old.count) THEN memory[old.data + (m - storage)]
              ELSE memory[m]]
      /\ home' = [home EXCEPT ![l] = a]

(***************************************************************************)
(* put into a full array: storage for the new capacity is allocated, the   *)
(* elements are copied there and the new one is added.  The old storage is *)
(* left behind.                                                            *)
(***************************************************************************)
PutAndGrow(l, a) ==
  LET old == array[l]
      new_cap == NewCapacity(l)
  IN  /\ home[l] \in {a, "none"}
      /\ old.count = old.capacity
      /\ allocate(a, new_cap * sizeof_T, alignof_T)
      /\ LET storage == Result(a, new_cap * sizeof_T) IN
         /\ array' = [array EXCEPT ![l] = [data |-> storage, count |-> old.count + 1,
                                           capacity |-> new_cap]]
         /\ memory' = [m \in Address |->
              IF m \in HeaderCells(a) THEN Header
              ELSE IF m \in Cells(storage, old.count + 1) THEN <<l, old.count + 1>>
              ELSE IF m \in Span(storage, old.count * sizeof_T) THEN memory[old.data + (m - storage)]
              ELSE memory[m]]
      /\ home' = [home EXCEPT ![l] = a]

-----------------------------------------------------------------------------
(* Clients give up the arrays of an arena with its blocks, and follow the arena when it moves. *)

GiveUp(arenas) ==
  /\ array' = [l \in Arrays |-> IF home[l] \in arenas THEN NoElements ELSE array[l]]
  /\ home' = [l \in Arrays |-> IF home[l] \in arenas THEN "none" ELSE home[l]]

Follow(to, from) ==
  /\ array' = [l \in Arrays |-> IF home[l] = to THEN NoElements ELSE array[l]]
  /\ home' = [l \in Arrays |-> IF home[l] = to THEN "none"
                               ELSE IF home[l] = from THEN to ELSE home[l]]

(* What operator delete takes back can no longer be read. *)
DeletedCells == UNION {Span(b, heap[b]) : b \in DOMAIN heap \ DOMAIN heap'}

ArrayLifetimeStep ==
  /\ \/ \E a \in Arenas, size \in FirstBlockSizes : Construct(a, size) /\ UNCHANGED <<array, home>>
     \/ \E a \in Arenas : (release(a) \/ Destroy(a)) /\ GiveUp({a})
     \/ \E to, from \in Arenas :
          (MoveConstruct(to, from) \/ MoveAssign(to, from)) /\ Follow(to, from)
  /\ memory' = [m \in Address |-> IF m \in DeletedCells THEN Free ELSE memory[m]]

ArrayInit ==
  /\ Init
  /\ array = [l \in Arrays |-> NoElements]
  /\ home = [l \in Arrays |-> "none"]
  /\ memory = [m \in Address |-> Free]

ArrayNext ==
  \/ \E a \in Arenas, size \in Sizes, alignment \in Alignments : create(a, size, alignment)
  \/ \E l \in Arrays : PutInPlace(l) \/ \E a \in Arenas : PutAndGrow(l, a)
  \/ ArrayLifetimeStep

ArraySpec == ArrayInit /\ [][ArrayNext]_<<vars, arrayVars>>

-----------------------------------------------------------------------------
(***************************************************************************)
(* An array holds what was put into it, in order, however often it grew    *)
(* and whatever was created beside it or moved since (put, begin and end   *)
(* of ArenaArray over allocate of the arena).                              *)
(***************************************************************************)
ArraysIntact ==
  \A l \in Arrays : \A i \in 1..array[l].count :
    \A m \in Cells(array[l].data, i) : m \in Address /\ memory[m] = <<l, i>>
=============================================================================
