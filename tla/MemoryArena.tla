---------------------------- MODULE MemoryArena ----------------------------
(***************************************************************************)
(* The memory arena (cero/util/memory_arena.cc), which owns the nodes of   *)
(* the AST: it allocates linearly within a block, takes a larger block     *)
(* from operator new when the current one is full, and frees all of them   *)
(* together.                                                               *)
(*                                                                         *)
(* Addresses are numbers in some unit of memory and 0 is the null pointer. *)
(* The linked list of blocks that begins at head_block_ is the sequence of *)
(* their addresses, the newest first.                                      *)
(*                                                                         *)
(* Definitions with an underscore suffix (Name_Mistake) are mistakes the   *)
(* code does not make; no specification uses them.                         *)
(***************************************************************************)
EXTENDS Naturals, Sequences, FiniteSets

CONSTANTS
  Arenas,               \* the arena objects
  HeapSize,             \* the last address of the heap
  Sizes,                \* the sizes clients ask for
  Alignments,           \* the alignments they ask for: powers of two
  InitialSizes,         \* the arguments of the constructor
  initial_block_size,   \* the size of the first block of other arenas
  sizeof_Block,         \* the size of the header of a block
  new_alignment         \* the alignment of what operator new returns

ASSUME ArenaAssumption ==
  /\ HeapSize \in Nat
  /\ Sizes \subseteq Nat
  /\ Alignments \subseteq Nat \ {0}
  /\ InitialSizes \subseteq Nat
  /\ initial_block_size \in Nat
  /\ sizeof_Block \in Nat \ {0}
  /\ new_alignment \in Nat \ {0}

VARIABLES
  alive,      \* the arena objects that exist
  arena,      \* their fields
  heap,       \* size of each block that operator new gave and nobody deleted yet
  released,   \* arenas whose blocks were freed by an explicit release()
  given       \* storage each arena has given out and not freed

vars == <<alive, arena, heap, released, given>>

Address == 0..HeapSize

Larger(m, n) == IF m > n THEN m ELSE n

Storage(ptr, size, alignment) == [ptr |-> ptr, size |-> size, alignment |-> alignment]

(* An arena without blocks, as the constructor and the move operations leave one. *)
Empty(first_block_size) ==
  [next_ptr |-> 0, remaining_size |-> 0, next_block_size |-> first_block_size,
   blocks |-> <<>>, total_size |-> 0]

-----------------------------------------------------------------------------
(* std::align and operator new. *)

(* How far ptr is from the next multiple of alignment. *)
Padding(ptr, alignment) == (alignment - (ptr % alignment)) % alignment

(* std::align finds room for size bytes in space bytes at ptr; from a null pointer it gets null. *)
Fits(ptr, space, size, alignment) ==
  /\ ptr # 0
  /\ size <= space
  /\ Padding(ptr, alignment) <= space - size

(* Where a block of this size may be: aligned, on the heap, apart from the blocks in use. *)
FreeBases(size) ==
  {base \in Address \ {0} :
     /\ base % new_alignment = 0
     /\ base + size <= HeapSize + 1
     /\ \A other \in DOMAIN heap : base + size <= other \/ other + heap[other] <= base}

-----------------------------------------------------------------------------
(* Allocation *)

Give(a, ptr, size, alignment) ==
  given' = [given EXCEPT ![a] = @ \cup {Storage(ptr, size, alignment)}]

(* Mistake: the storage begins where the last one ended, without padding. *)
AllocateInBlock_Unpadded(a, size, alignment) ==
  /\ Fits(arena[a].next_ptr, arena[a].remaining_size, size, alignment)
  /\ arena' = [arena EXCEPT ![a].next_ptr = @ + size, ![a].remaining_size = @ - size]
  /\ Give(a, arena[a].next_ptr, size, alignment)
  /\ UNCHANGED <<alive, heap, released>>

(* allocate only moves the pointer when the current block has room. *)
AllocateInBlock(a, size, alignment) ==
  LET old == arena[a]
      padding == Padding(old.next_ptr, alignment)
      ptr == old.next_ptr + padding
  IN  /\ Fits(old.next_ptr, old.remaining_size, size, alignment)
      /\ arena' = [arena EXCEPT ![a].next_ptr = ptr + size,
                                ![a].remaining_size = @ - padding - size]
      /\ Give(a, ptr, size, alignment)
      /\ UNCHANGED <<alive, heap, released>>

(* Mistake: the header is not counted when the object needs a block of its own. *)
BlockSize_NoHeader(a, size) == Larger(arena[a].next_block_size, size)

(* How large create_block makes a block for an object of this size. *)
BlockSize(a, size) == Larger(arena[a].next_block_size, size + sizeof_Block)

(* Mistake: the header of the block is given out with it. *)
create_block_OverHeader(a, base, size, alignment) ==
  LET block_size == BlockSize(a, size)
      ptr == base + Padding(base, alignment)
  IN  [next_ptr |-> ptr,
       remaining_size |-> block_size - Padding(base, alignment),
       next_block_size |-> arena[a].next_block_size + arena[a].next_block_size \div 2,
       blocks |-> <<base>> \o arena[a].blocks,
       total_size |-> arena[a].total_size + block_size]

(***************************************************************************)
(* create_block: the fields of arena a after it has taken the block at     *)
(* base.  When the object does not fit behind the padding, std::align      *)
(* returns null and leaves the size as it is.                              *)
(***************************************************************************)
create_block(a, base, size, alignment) ==
  LET block_size == BlockSize(a, size)
      block == base + sizeof_Block
      space == block_size - sizeof_Block
      padding == Padding(block, alignment)
      fits == Fits(block, space, size, alignment)
  IN  [next_ptr |-> IF fits THEN block + padding ELSE 0,
       remaining_size |-> IF fits THEN space - padding ELSE space,
       next_block_size |-> arena[a].next_block_size + arena[a].next_block_size \div 2,
       blocks |-> <<base>> \o arena[a].blocks,
       total_size |-> arena[a].total_size + block_size]

(* allocate takes a new block first when the object does not fit. *)
AllocateNewBlock(a, size, alignment) ==
  /\ ~Fits(arena[a].next_ptr, arena[a].remaining_size, size, alignment)
  /\ \E base \in FreeBases(BlockSize(a, size)) :
       LET new == create_block(a, base, size, alignment) IN
       /\ arena' = [arena EXCEPT ![a] = [new EXCEPT !.next_ptr = @ + size,
                                                    !.remaining_size = @ - size]]
       /\ heap' = [b \in DOMAIN heap \cup {base} |->
                     IF b = base THEN BlockSize(a, size) ELSE heap[b]]
       /\ Give(a, new.next_ptr, size, alignment)
  /\ UNCHANGED <<alive, released>>

(***************************************************************************)
(* No client allocates after an explicit release(), which leaves next_ptr_ *)
(* and remaining_size_ pointing into a block it has freed.                 *)
(***************************************************************************)
allocate(a, size, alignment) ==
  /\ a \in alive \ released
  /\ AllocateInBlock(a, size, alignment) \/ AllocateNewBlock(a, size, alignment)

(* What allocate returned: it leaves next_ptr_ right behind the storage. *)
Result(a, size) == arena'[a].next_ptr - size

-----------------------------------------------------------------------------
(* Lifetime *)

BlocksOf(a) == {arena[a].blocks[i] : i \in 1..Len(arena[a].blocks)}

(* The heap after the blocks of arena a have been deleted. *)
HeapWithout(a) == [b \in DOMAIN heap \ BlocksOf(a) |-> heap[b]]

(* What an arena is constructed with: an argument, or nothing. *)
FirstBlockSizes == InitialSizes \cup {initial_block_size}

Construct(a, initial_size) ==
  /\ a \notin alive
  /\ alive' = alive \cup {a}
  /\ arena' = [arena EXCEPT ![a] = Empty(initial_size)]
  /\ UNCHANGED <<heap, released, given>>

(* Mistake: only the newest block is deleted. *)
release_HeadOnly(a) ==
  /\ a \in alive
  /\ arena[a].blocks # <<>>
  /\ heap' = [b \in DOMAIN heap \ {arena[a].blocks[1]} |-> heap[b]]
  /\ arena' = [arena EXCEPT ![a].blocks = <<>>, ![a].total_size = 0]
  /\ released' = released \cup {a}
  /\ given' = [given EXCEPT ![a] = {}]
  /\ UNCHANGED alive

(* release keeps next_ptr_, remaining_size_ and next_block_size_. *)
release(a) ==
  /\ a \in alive
  /\ heap' = HeapWithout(a)
  /\ arena' = [arena EXCEPT ![a].blocks = <<>>, ![a].total_size = 0]
  /\ released' = released \cup {a}
  /\ given' = [given EXCEPT ![a] = {}]
  /\ UNCHANGED alive

Destroy(a) ==
  /\ a \in alive
  /\ alive' = alive \ {a}
  /\ heap' = HeapWithout(a)
  /\ arena' = [arena EXCEPT ![a] = Empty(initial_block_size)]
  /\ released' = released \ {a}
  /\ given' = [given EXCEPT ![a] = {}]

(* What both move operations do with the fields: exchange them for those of an empty arena. *)
TakeOver(to, from) ==
  /\ arena' = [arena EXCEPT ![to] = arena[from], ![from] = Empty(initial_block_size)]
  /\ given' = [given EXCEPT ![to] = given[from], ![from] = {}]
  /\ released' = (released \ {to, from}) \cup (IF from \in released THEN {to} ELSE {})

MoveConstruct(to, from) ==
  /\ to \notin alive
  /\ from \in alive
  /\ alive' = alive \cup {to}
  /\ TakeOver(to, from)
  /\ UNCHANGED heap

(* operator=: what the target owned is freed first; assigning an arena to itself does nothing. *)
MoveAssign(to, from) ==
  /\ to \in alive
  /\ from \in alive
  /\ to # from
  /\ heap' = HeapWithout(to)
  /\ TakeOver(to, from)
  /\ UNCHANGED alive

-----------------------------------------------------------------------------
Init ==
  /\ alive = {}
  /\ arena = [a \in Arenas |-> Empty(initial_block_size)]
  /\ heap = [b \in {} |-> 0]
  /\ released = {}
  /\ given = [a \in Arenas |-> {}]

LifetimeStep ==
  \/ \E a \in Arenas, size \in FirstBlockSizes : Construct(a, size)
  \/ \E a \in Arenas : release(a) \/ Destroy(a)
  \/ \E to, from \in Arenas : MoveConstruct(to, from) \/ MoveAssign(to, from)

Next ==
  \/ \E a \in Arenas, size \in Sizes, alignment \in Alignments : allocate(a, size, alignment)
  \/ LifetimeStep

Spec == Init /\ [][Next]_vars

-----------------------------------------------------------------------------
(* What is expected of the arena. *)

(* The types of the variables. *)
TypeOK ==
  /\ alive \subseteq Arenas
  /\ released \subseteq alive
  /\ arena \in [Arenas -> [next_ptr : Nat, remaining_size : Nat, next_block_size : Nat,
                           blocks : Seq(Address \ {0}), total_size : Nat]]
  /\ DOMAIN heap \subseteq Address \ {0}
  /\ \A b \in DOMAIN heap : heap[b] \in Nat
  /\ \A a \in Arenas : given[a] \subseteq [ptr : Nat, size : Nat, alignment : Nat \ {0}]

(***************************************************************************)
(* Storage that is given out lies in a block its arena still owns, behind  *)
(* the header, whatever was moved, assigned, released or destroyed since   *)
(* (allocate, create_block, release and the move operations).              *)
(***************************************************************************)
StorageIsLive ==
  \A a \in Arenas : \A storage \in given[a] :
    \E b \in BlocksOf(a) :
      /\ b \in DOMAIN heap
      /\ b + sizeof_Block <= storage.ptr
      /\ storage.ptr + storage.size <= b + heap[b]

(***************************************************************************)
(* Every block has one owner: what operator new gave is in the list of one *)
(* arena, once, so that release deletes it once and nothing leaks.         *)
(***************************************************************************)
BlocksOwnedOnce ==
  /\ DOMAIN heap = UNION {BlocksOf(a) : a \in Arenas}
  /\ \A a \in Arenas : Len(arena[a].blocks) = Cardinality(BlocksOf(a))
  /\ \A a, b \in Arenas : a # b => BlocksOf(a) \cap BlocksOf(b) = {}

(***************************************************************************)
(* The arena implements the allocator: every allocation is aligned, not    *)
(* null and apart from all storage in use, and a move takes it along.      *)
(***************************************************************************)
Contract == INSTANCE Allocator

ImplementsAllocator == Contract!Spec
=============================================================================
