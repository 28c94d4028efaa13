---------------------------- MODULE ArenaProofs ----------------------------
(***************************************************************************)
(* Proofs about the memory arena, for every heap, every number of arenas   *)
(* and all sizes: each operation preserves that blocks have one owner and  *)
(* that storage lies in live blocks, and allocate gives fresh storage.     *)
(* ArenaArrayProofs draws the theorems from them.                          *)
(*                                                                         *)
(* What makes this inductive is the free end of the newest block: next_ptr *)
(* and remaining_size describe a stretch of that block behind its header   *)
(* into which no storage reaches.  It is known only for arenas that were   *)
(* not released.                                                           *)
(***************************************************************************)
EXTENDS ArenaArray, FiniteSetTheorems, TLAPS

(***************************************************************************)
(* No object needs more alignment than a block has behind its header: what *)
(* operator new returns and the size of the header are multiples of every  *)
(* alignment.  The nodes of the AST and the pointers in lists are aligned  *)
(* to 8 bytes, blocks to 16, and a header has 8 bytes.                     *)
(***************************************************************************)
HeaderKeeps(alignment) ==
  /\ alignment \in Nat \ {0}
  /\ new_alignment % alignment = 0
  /\ sizeof_Block % alignment = 0

HeaderKeepsAlignment == \A alignment \in Alignments \cup {alignof_T} : HeaderKeeps(alignment)

Fields ==
  [next_ptr : Nat, remaining_size : Nat, next_block_size : Nat,
   blocks : Seq(Address \ {0}), total_size : Nat]

StorageType == [ptr : Nat, size : Nat, alignment : Nat \ {0}]

(* Blocks on the heap have a header, end on the heap and do not overlap. *)
HeapInv ==
  /\ \A b \in DOMAIN heap : heap[b] >= sizeof_Block /\ b + heap[b] <= HeapSize + 1
  /\ \A b, c \in DOMAIN heap : b # c => b + heap[b] <= c \/ c + heap[c] <= b

(* Every block on the heap is in the list of one arena, once. *)
OwnerInv ==
  /\ \A a \in Arenas : \A b \in BlocksOf(a) : b \in DOMAIN heap
  /\ \A b \in DOMAIN heap : \E a \in Arenas : b \in BlocksOf(a)
  /\ \A a \in Arenas : \A i, j \in 1..Len(arena[a].blocks) :
       arena[a].blocks[i] = arena[a].blocks[j] => i = j
  /\ \A a, c \in Arenas : a # c => BlocksOf(a) \cap BlocksOf(c) = {}

(* Only arenas that exist own blocks. *)
AliveInv == \A a \in Arenas \ alive : arena[a].blocks = <<>>

(* The end of the newest block that is described by the fields is free. *)
FreeInv ==
  \A a \in Arenas \ released :
    LET r == arena[a] IN
    r.next_ptr # 0 =>
      /\ r.blocks # <<>>
      /\ r.blocks[1] + sizeof_Block <= r.next_ptr
      /\ r.next_ptr + r.remaining_size <= r.blocks[1] + heap[r.blocks[1]]
      /\ \A s \in given[a] : s.ptr + s.size <= r.next_ptr \/ r.next_ptr + r.remaining_size <= s.ptr

IInv ==
  /\ TypeOK
  /\ DOMAIN given = Arenas
  /\ HeapInv
  /\ OwnerInv
  /\ AliveInv
  /\ FreeInv
  /\ StorageIsLive

-----------------------------------------------------------------------------
(* Alignment *)

(* Division with remainder. *)
LEMMA DivMod ==
  ASSUME NEW p \in Nat, NEW n \in Nat \ {0}
  PROVE  p % n \in 0..(n - 1) /\ p \div n \in Nat /\ p = n * (p \div n) + (p % n)
OBVIOUS

(* The only multiple of n below n is zero. *)
LEMMA SmallMultiple ==
  ASSUME NEW n \in Nat \ {0}, NEW k \in Int, n * k \in 0..(n - 1)
  PROVE  k = 0
OBVIOUS

(* A multiple of n has no remainder. *)
LEMMA MultipleMod ==
  ASSUME NEW n \in Nat \ {0}, NEW k \in Nat
  PROVE  (n * k) % n = 0
<1> DEFINE r == (n * k) % n
           d == (n * k) \div n
<1>1. n * k \in Nat
  OBVIOUS
<1>2. r \in 0..(n - 1) /\ d \in Nat /\ n * k = n * d + r
  BY <1>1, DivMod
<1>3. n * (k - d) = r
  BY <1>2
<1>4. k - d = 0
  BY <1>2, <1>3, SmallMultiple
<1> QED
  BY <1>2, <1>4

(* A number below n is its own remainder. *)
LEMMA SmallMod ==
  ASSUME NEW n \in Nat \ {0}, NEW q \in 0..(n - 1)
  PROVE  q % n = q
<1> q \in Nat
  OBVIOUS
<1>1. q % n \in 0..(n - 1) /\ q \div n \in Nat /\ q = n * (q \div n) + (q % n)
  BY DivMod
<1>2. n * (q \div n) \in 0..(n - 1)
  BY <1>1
<1>3. q \div n = 0
  BY <1>1, <1>2, SmallMultiple
<1> QED
  BY <1>1, <1>3

(* Without a remainder a number is a multiple. *)
LEMMA NoRemainder ==
  ASSUME NEW p \in Nat, NEW n \in Nat \ {0}, p % n = 0
  PROVE  \E k \in Nat : p = n * k
<1>1. p \div n \in Nat /\ p = n * (p \div n) + 0
  BY DivMod
<1>2. n * (p \div n) + 0 = n * (p \div n)
  BY <1>1
<1> QED
  BY <1>1, <1>2

(* What std::align adds to a pointer is less than the alignment and makes it a multiple of it. *)
LEMMA PaddingAligns ==
  ASSUME NEW p \in Nat, NEW n \in Nat \ {0}
  PROVE  Padding(p, n) \in Nat /\ (p + Padding(p, n)) % n = 0
<1> DEFINE r == p % n
           d == p \div n
<1>1. r \in 0..(n - 1) /\ d \in Nat /\ p = n * d + r
  BY DivMod
<1>2. CASE r = 0
  <2>1. Padding(p, n) = n % n
    BY <1>2 DEF Padding
  <2>2. n % n = 0
    BY MultipleMod, n * 1 = n
  <2> QED
    BY <1>2, <2>1, <2>2
<1>3. CASE r # 0
  <2>1. n - r \in 1..(n - 1)
    BY <1>1, <1>3
  <2>2. (n - r) % n = n - r
    BY <2>1, SmallMod
  <2>3. Padding(p, n) = n - r
    BY <2>2 DEF Padding
  <2>4. p + (n - r) = n * (d + 1)
    BY <1>1
  <2>5. (n * (d + 1)) % n = 0
    BY <1>1, MultipleMod
  <2> QED
    BY <2>1, <2>3, <2>4, <2>5
<1> QED
  BY <1>2, <1>3

(* A block that is aligned as operator new aligns it needs no padding behind its header. *)
LEMMA NoPaddingBehindHeader ==
  ASSUME NEW base \in Nat, base % new_alignment = 0, NEW alignment, HeaderKeeps(alignment)
  PROVE  Padding(base + sizeof_Block, alignment) = 0
<1>1. alignment \in Nat \ {0} /\ new_alignment \in Nat \ {0} /\ sizeof_Block \in Nat \ {0}
  BY ArenaAssumption DEF HeaderKeeps
<1>2. PICK i \in Nat : base = new_alignment * i
  BY <1>1, NoRemainder
<1>3. PICK j \in Nat : new_alignment = alignment * j
  BY <1>1, NoRemainder DEF HeaderKeeps
<1>4. PICK k \in Nat : sizeof_Block = alignment * k
  BY <1>1, NoRemainder DEF HeaderKeeps
<1>5. base + sizeof_Block = alignment * (j * i + k)
  <2>1. base = (alignment * j) * i
    BY <1>2, <1>3
  <2>2. (alignment * j) * i = alignment * (j * i)
    BY <1>1
  <2> QED
    BY <1>1, <1>4, <2>1, <2>2
<1>6. j * i + k \in Nat
  OBVIOUS
<1>7. (base + sizeof_Block) % alignment = 0
  BY <1>1, <1>5, <1>6, MultipleMod
<1>8. alignment % alignment = 0
  BY <1>1, MultipleMod, alignment * 1 = alignment
<1>9. alignment - 0 = alignment
  BY <1>1
<1> QED
  BY <1>7, <1>8, <1>9 DEF Padding

-----------------------------------------------------------------------------
(* The steps of an arena *)

(* The newest block is one of the arena's. *)
LEMMA FirstBlock ==
  ASSUME IInv, NEW a \in Arenas, arena[a].blocks # <<>>
  PROVE  arena[a].blocks[1] \in BlocksOf(a)
<1>1. arena[a] \in Fields
  BY DEF IInv, TypeOK, Fields
<1>2. arena[a].blocks \in Seq(Address \ {0})
  BY <1>1 DEF Fields
<1>3. 1 \in 1..Len(arena[a].blocks)
  BY <1>2
<1> QED
  BY <1>3 DEF BlocksOf

(* What the storage in use and the free end of the newest block say about one arena. *)
LEMMA FreeEnd ==
  ASSUME IInv, NEW a \in alive \ released, arena[a].next_ptr # 0
  PROVE  /\ a \in Arenas
         /\ arena[a].blocks[1] \in BlocksOf(a)
         /\ arena[a].blocks[1] \in DOMAIN heap
         /\ arena[a].blocks[1] + sizeof_Block <= arena[a].next_ptr
         /\ arena[a].next_ptr + arena[a].remaining_size
              <= arena[a].blocks[1] + heap[arena[a].blocks[1]]
         /\ \A s \in given[a] : \/ s.ptr + s.size <= arena[a].next_ptr
                                \/ arena[a].next_ptr + arena[a].remaining_size <= s.ptr
<1>1. a \in Arenas
  BY DEF IInv, TypeOK
<1>2. arena[a].blocks # <<>>
  BY <1>1 DEF IInv, FreeInv
<1>4. arena[a].blocks[1] \in BlocksOf(a)
  BY <1>1, <1>2, FirstBlock
<1>5. arena[a].blocks[1] \in DOMAIN heap
  BY <1>1, <1>4 DEF IInv, OwnerInv
<1> QED
  BY <1>1, <1>4, <1>5 DEF IInv, FreeInv

(* allocate within the current block preserves the invariant. *)
LEMMA InBlockStep ==
  ASSUME IInv, NEW a \in alive \ released, NEW size \in Nat, NEW alignment \in Nat \ {0},
         AllocateInBlock(a, size, alignment)
  PROVE  IInv'
<1> DEFINE p == arena[a].next_ptr
           rem == arena[a].remaining_size
           pad == Padding(p, alignment)
           new == Storage(p + pad, size, alignment)
<1>1. a \in Arenas /\ arena \in [Arenas -> Fields] /\ arena[a] \in Fields
  BY DEF IInv, TypeOK, Fields
<1>2. p \in Nat /\ rem \in Nat
  BY <1>1 DEF Fields
<1>3. pad \in Nat
  BY <1>2, PaddingAligns
<1>4. p # 0 /\ size <= rem /\ pad <= rem - size
  BY DEF AllocateInBlock, Fits
<1>5. /\ arena' = [arena EXCEPT ![a].next_ptr = p + pad + size,
                                ![a].remaining_size = rem - pad - size]
      /\ given' = [given EXCEPT ![a] = @ \cup {new}]
      /\ UNCHANGED <<alive, heap, released>>
  BY DEF AllocateInBlock, Give
<1>6. p + pad + size \in Nat /\ rem - pad - size \in Nat
  BY <1>2, <1>3, <1>4
<1> HIDE DEF pad
<1>7. /\ arena' \in [Arenas -> Fields]
      /\ arena'[a].next_ptr = p + pad + size
      /\ arena'[a].remaining_size = rem - pad - size
      /\ \A c \in Arenas : arena'[c].blocks = arena[c].blocks
      /\ \A c \in Arenas \ {a} : arena'[c] = arena[c]
  BY <1>1, <1>5, <1>6 DEF Fields
<1>8. /\ DOMAIN given' = Arenas
      /\ given'[a] = given[a] \cup {new}
      /\ \A c \in Arenas \ {a} : given'[c] = given[c]
  BY <1>1, <1>5 DEF IInv
<1>9. \A c \in Arenas : BlocksOf(c)' = BlocksOf(c)
  BY <1>7 DEF BlocksOf
<1>10. /\ arena[a].blocks[1] \in BlocksOf(a)
       /\ arena[a].blocks[1] \in DOMAIN heap
       /\ arena[a].blocks[1] + sizeof_Block <= p
       /\ p + rem <= arena[a].blocks[1] + heap[arena[a].blocks[1]]
       /\ \A s \in given[a] : s.ptr + s.size <= p \/ p + rem <= s.ptr
  BY <1>4, FreeEnd
<1>11. /\ sizeof_Block \in Nat
       /\ arena[a].blocks[1] \in Nat
       /\ heap[arena[a].blocks[1]] \in Nat
  BY <1>10, ArenaAssumption DEF IInv, TypeOK, Address
<1>12. /\ new \in StorageType /\ new.ptr = p + pad /\ new.size = size
  BY <1>2, <1>3 DEF Storage, StorageType
<1>13. TypeOK'
  <2>1. \A c \in Arenas : given'[c] \subseteq StorageType
    BY <1>8, <1>12 DEF IInv, TypeOK, StorageType
  <2> QED
    BY <1>5, <1>7, <2>1 DEF IInv, TypeOK, Fields, StorageType
<1>14. HeapInv'
  BY <1>5 DEF IInv, HeapInv
<1>15. OwnerInv'
  BY <1>5, <1>7, <1>9 DEF IInv, OwnerInv
<1>16. AliveInv'
  BY <1>5, <1>7 DEF IInv, AliveInv
<1>17. StorageIsLive'
  <2> SUFFICES ASSUME NEW c \in Arenas, NEW s \in given'[c]
               PROVE  \E b \in BlocksOf(c) : /\ b \in DOMAIN heap
                                             /\ b + sizeof_Block <= s.ptr
                                             /\ s.ptr + s.size <= b + heap[b]
    BY <1>5, <1>9 DEF StorageIsLive
  <2>1. CASE s \in given[c]
    BY <2>1 DEF IInv, StorageIsLive
  <2>2. CASE s \notin given[c]
    <3>1. c = a /\ s = new
      BY <2>2, <1>8
    <3>2. /\ arena[a].blocks[1] + sizeof_Block <= s.ptr
          /\ s.ptr + s.size <= arena[a].blocks[1] + heap[arena[a].blocks[1]]
      BY <3>1, <1>2, <1>3, <1>4, <1>10, <1>11, <1>12
    <3> QED
      BY <3>1, <3>2, <1>10
  <2> QED
    BY <2>1, <2>2
<1>18. FreeInv'
  <2> SUFFICES ASSUME NEW c \in Arenas \ released, arena'[c].next_ptr # 0
               PROVE  LET r == arena'[c] IN
                      /\ r.blocks # <<>>
                      /\ r.blocks[1] + sizeof_Block <= r.next_ptr
                      /\ r.next_ptr + r.remaining_size <= r.blocks[1] + heap[r.blocks[1]]
                      /\ \A s \in given'[c] : \/ s.ptr + s.size <= r.next_ptr
                                              \/ r.next_ptr + r.remaining_size <= s.ptr
    BY <1>5 DEF FreeInv
  <2>1. CASE c # a
    BY <2>1, <1>7, <1>8 DEF IInv, FreeInv
  <2>2. CASE c = a
    <3>1. arena[a].blocks # <<>>
      BY <1>4, <2>2 DEF IInv, FreeInv
    <3>2. \A s \in given'[a] : \/ s.ptr + s.size <= p + pad + size
                               \/ (p + pad + size) + (rem - pad - size) <= s.ptr
      <4> SUFFICES ASSUME NEW s \in given'[a]
                   PROVE  \/ s.ptr + s.size <= p + pad + size
                          \/ (p + pad + size) + (rem - pad - size) <= s.ptr
        OBVIOUS
      <4>1. s \in StorageType
        BY <1>13, <1>1 DEF TypeOK, StorageType
      <4>2. s.ptr \in Nat /\ s.size \in Nat
        BY <4>1 DEF StorageType
      <4>3. CASE s \in given[a]
        BY <4>2, <4>3, <1>2, <1>3, <1>4, <1>10
      <4>4. CASE s = new
        BY <4>4, <1>12, <1>2, <1>3
      <4> QED
        BY <4>3, <4>4, <1>8
    <3>3. /\ arena[a].blocks[1] + sizeof_Block <= p + pad + size
          /\ (p + pad + size) + (rem - pad - size) <= arena[a].blocks[1] + heap[arena[a].blocks[1]]
      BY <1>2, <1>3, <1>4, <1>10, <1>11
    <3> QED
      BY <2>2, <3>1, <3>2, <3>3, <1>1, <1>7
  <2> QED
    BY <2>1, <2>2
<1> QED
  BY <1>8, <1>13, <1>14, <1>15, <1>16, <1>17, <1>18 DEF IInv

(* A block put in front of a list: the list with it, element by element. *)
LEMMA Prepend ==
  ASSUME NEW S, NEW s \in Seq(S), NEW x \in S
  PROVE  /\ <<x>> \o s \in Seq(S)
         /\ Len(<<x>> \o s) = Len(s) + 1
         /\ (<<x>> \o s)[1] = x
         /\ \A i \in 1..Len(s) : (<<x>> \o s)[i + 1] = s[i]
         /\ \A i \in 2..(Len(s) + 1) : (<<x>> \o s)[i] = s[i - 1] /\ i - 1 \in 1..Len(s)
OBVIOUS

(***************************************************************************)
(* What create_block makes of a free stretch of the heap: with alignments  *)
(* the header keeps, the object fits right behind the header.              *)
(***************************************************************************)
LEMMA CreateBlock ==
  ASSUME IInv, NEW a \in Arenas, NEW size \in Nat, NEW alignment, HeaderKeeps(alignment),
         NEW base \in FreeBases(BlockSize(a, size))
  PROVE  /\ BlockSize(a, size) \in Nat
         /\ size + sizeof_Block <= BlockSize(a, size)
         /\ base \in Address \ {0}
         /\ base \notin DOMAIN heap
         /\ base + BlockSize(a, size) <= HeapSize + 1
         /\ (base + sizeof_Block) % alignment = 0
         /\ \A b \in DOMAIN heap : base + BlockSize(a, size) <= b \/ b + heap[b] <= base
         /\ create_block(a, base, size, alignment) =
              [next_ptr |-> base + sizeof_Block,
               remaining_size |-> BlockSize(a, size) - sizeof_Block,
               next_block_size |-> arena[a].next_block_size + arena[a].next_block_size \div 2,
               blocks |-> <<base>> \o arena[a].blocks,
               total_size |-> arena[a].total_size + BlockSize(a, size)]
<1> DEFINE bs == BlockSize(a, size)
<1>1. arena[a] \in Fields
  BY DEF IInv, TypeOK, Fields
<1>2. arena[a].next_block_size \in Nat /\ sizeof_Block \in Nat \ {0} /\ HeapSize \in Nat
  BY <1>1, ArenaAssumption DEF Fields
<1>3. bs \in Nat /\ size + sizeof_Block <= bs
  BY <1>2 DEF BlockSize, Larger
<1>4. /\ base \in Address \ {0}
      /\ base % new_alignment = 0
      /\ base + bs <= HeapSize + 1
      /\ \A b \in DOMAIN heap : base + bs <= b \/ b + heap[b] <= base
  BY DEF FreeBases
<1>5. base \in Nat \ {0}
  BY <1>2, <1>4 DEF Address
<1> HIDE DEF bs
<1>6. base \notin DOMAIN heap
  <2> SUFFICES ASSUME base \in DOMAIN heap PROVE FALSE
    OBVIOUS
  <2>1. heap[base] \in Nat /\ heap[base] >= sizeof_Block
    BY DEF IInv, TypeOK, HeapInv
  <2>2. base + bs <= base \/ base + heap[base] <= base
    BY <1>4
  <2> QED
    BY <2>1, <2>2, <1>2, <1>3, <1>5
<1>7. Padding(base + sizeof_Block, alignment) = 0
  BY <1>4, <1>5, NoPaddingBehindHeader
<1>8. (base + sizeof_Block) % alignment = 0
  <2>1. base + sizeof_Block \in Nat /\ alignment \in Nat \ {0}
    BY <1>2, <1>5 DEF HeaderKeeps
  <2>2. (base + sizeof_Block + Padding(base + sizeof_Block, alignment)) % alignment = 0
    BY <2>1, PaddingAligns
  <2>3. base + sizeof_Block + 0 = base + sizeof_Block
    BY <2>1
  <2> QED
    BY <2>2, <2>3, <1>7
<1>9. Fits(base + sizeof_Block, bs - sizeof_Block, size, alignment)
  BY <1>2, <1>3, <1>5, <1>7 DEF Fits
<1>10. base + sizeof_Block + 0 = base + sizeof_Block /\ bs - sizeof_Block - 0 = bs - sizeof_Block
  BY <1>2, <1>3, <1>5
<1>11. create_block(a, base, size, alignment) =
              [next_ptr |-> base + sizeof_Block,
               remaining_size |-> bs - sizeof_Block,
               next_block_size |-> arena[a].next_block_size + arena[a].next_block_size \div 2,
               blocks |-> <<base>> \o arena[a].blocks,
               total_size |-> arena[a].total_size + bs]
  BY <1>7, <1>9, <1>10 DEF create_block, bs
<1> QED
  BY <1>3, <1>4, <1>6, <1>8, <1>11 DEF bs

(* What allocate changes when it takes a block of bs bytes at base. *)
TakesBlock(a, size, alignment, base, bs) ==
  /\ size + sizeof_Block <= bs
  /\ base \notin DOMAIN heap
  /\ base + bs <= HeapSize + 1
  /\ (base + sizeof_Block) % alignment = 0
  /\ \A b \in DOMAIN heap : base + bs <= b \/ b + heap[b] <= base
  /\ arena' \in [Arenas -> Fields]
  /\ arena'[a].next_ptr = base + sizeof_Block + size
  /\ arena'[a].remaining_size = bs - sizeof_Block - size
  /\ arena'[a].blocks = <<base>> \o arena[a].blocks
  /\ \A c \in Arenas \ {a} : arena'[c] = arena[c]
  /\ DOMAIN heap' = DOMAIN heap \cup {base}
  /\ heap'[base] = bs
  /\ \A b \in DOMAIN heap : heap'[b] = heap[b]
  /\ given' = [given EXCEPT ![a] = @ \cup {Storage(base + sizeof_Block, size, alignment)}]
  /\ UNCHANGED <<alive, released>>

(* This is what create_block and the rest of allocate do with it. *)
LEMMA NewBlockShape ==
  ASSUME IInv, NEW a \in Arenas, NEW size \in Nat, NEW alignment, HeaderKeeps(alignment),
         AllocateNewBlock(a, size, alignment)
  PROVE  \E base \in Address \ {0}, bs \in Nat : TakesBlock(a, size, alignment, base, bs)
<1>1. PICK base \in FreeBases(BlockSize(a, size)) :
        LET new == create_block(a, base, size, alignment) IN
        /\ arena' = [arena EXCEPT ![a] = [new EXCEPT !.next_ptr = @ + size,
                                                     !.remaining_size = @ - size]]
        /\ heap' = [b \in DOMAIN heap \cup {base} |->
                      IF b = base THEN BlockSize(a, size) ELSE heap[b]]
        /\ Give(a, new.next_ptr, size, alignment)
  BY DEF AllocateNewBlock
<1> DEFINE bs == BlockSize(a, size)
           new == create_block(a, base, size, alignment)
           r == [new EXCEPT !.next_ptr = @ + size, !.remaining_size = @ - size]
<1>2. /\ bs \in Nat
      /\ size + sizeof_Block <= bs
      /\ base \in Address \ {0}
      /\ base \notin DOMAIN heap
      /\ base + bs <= HeapSize + 1
      /\ (base + sizeof_Block) % alignment = 0
      /\ \A b \in DOMAIN heap : base + bs <= b \/ b + heap[b] <= base
      /\ new = [next_ptr |-> base + sizeof_Block,
                remaining_size |-> bs - sizeof_Block,
                next_block_size |-> arena[a].next_block_size + arena[a].next_block_size \div 2,
                blocks |-> <<base>> \o arena[a].blocks,
                total_size |-> arena[a].total_size + bs]
  BY CreateBlock
<1> HIDE DEF bs, new
<1>3. /\ arena \in [Arenas -> Fields] /\ arena[a] \in Fields
      /\ sizeof_Block \in Nat /\ base \in Nat
  <2>1. arena \in [Arenas -> Fields]
    BY DEF IInv, TypeOK, Fields
  <2>2. sizeof_Block \in Nat /\ base \in Nat
    BY <1>2, ArenaAssumption DEF Address
  <2> QED
    BY <2>1, <2>2
<1>4. /\ arena[a].next_block_size \in Nat /\ arena[a].total_size \in Nat
      /\ arena[a].blocks \in Seq(Address \ {0})
  BY <1>3 DEF Fields
<1>5. <<base>> \o arena[a].blocks \in Seq(Address \ {0})
  BY <1>2, <1>4, Prepend
<1>6. arena[a].next_block_size + arena[a].next_block_size \div 2 \in Nat
  BY <1>4
<1>7. /\ r.next_ptr = base + sizeof_Block + size
      /\ r.remaining_size = bs - sizeof_Block - size
      /\ r.blocks = <<base>> \o arena[a].blocks
      /\ r \in Fields
  <2>1. /\ base + sizeof_Block \in Nat /\ bs - sizeof_Block \in Nat
        /\ base + sizeof_Block + size \in Nat /\ bs - sizeof_Block - size \in Nat
        /\ arena[a].total_size + bs \in Nat
    BY <1>2, <1>3, <1>4
  <2>2. new \in Fields
    BY <2>1, <1>2, <1>5, <1>6 DEF Fields
  <2>3. /\ new.next_ptr = base + sizeof_Block
        /\ new.remaining_size = bs - sizeof_Block
        /\ new.blocks = <<base>> \o arena[a].blocks
    BY <1>2
  <2> QED
    BY <2>1, <2>2, <2>3 DEF Fields
<1>8. arena' = [arena EXCEPT ![a] = r]
  BY <1>1 DEF new
<1>9. new.next_ptr = base + sizeof_Block
  BY <1>2
<1>10. given' = [given EXCEPT ![a] = @ \cup {Storage(base + sizeof_Block, size, alignment)}]
  BY <1>1, <1>9 DEF Give, new
<1> HIDE DEF r
<1>11. /\ arena' \in [Arenas -> Fields]
       /\ arena'[a] = r
       /\ \A c \in Arenas \ {a} : arena'[c] = arena[c]
  BY <1>3, <1>7, <1>8
<1>12. /\ DOMAIN heap' = DOMAIN heap \cup {base}
       /\ heap'[base] = bs
       /\ \A b \in DOMAIN heap : heap'[b] = heap[b]
  <2>1. heap' = [b \in DOMAIN heap \cup {base} |-> IF b = base THEN bs ELSE heap[b]]
    BY <1>1 DEF bs
  <2> QED
    BY <2>1, <1>2
<1>13. UNCHANGED <<alive, released>>
  BY DEF AllocateNewBlock
<1> QED
  BY <1>2, <1>7, <1>10, <1>11, <1>12, <1>13 DEF TakesBlock

(* allocate with a new block preserves the invariant. *)
LEMMA NewBlockStep ==
  ASSUME IInv, NEW a \in alive \ released, NEW size \in Nat, NEW alignment, HeaderKeeps(alignment),
         AllocateNewBlock(a, size, alignment)
  PROVE  IInv'
<1>1. a \in Arenas /\ alignment \in Nat \ {0} /\ sizeof_Block \in Nat \ {0}
  BY ArenaAssumption DEF IInv, TypeOK, HeaderKeeps
<1>2. PICK base \in Address \ {0}, bs \in Nat : TakesBlock(a, size, alignment, base, bs)
  BY <1>1, NewBlockShape
<1> USE DEF TakesBlock
<1> DEFINE new == Storage(base + sizeof_Block, size, alignment)
           old == arena[a].blocks
<1>3. base \in Nat
  BY ArenaAssumption DEF Address
<1>4. /\ DOMAIN given' = Arenas
      /\ given'[a] = given[a] \cup {new}
      /\ \A c \in Arenas \ {a} : given'[c] = given[c]
  BY <1>1, <1>2 DEF IInv
<1>5. new \in StorageType /\ new.ptr = base + sizeof_Block /\ new.size = size
  BY <1>1, <1>3 DEF Storage, StorageType
<1> HIDE DEF new
<1>6. old \in Seq(Address \ {0})
  <2>1. arena[a] \in Fields
    BY <1>1 DEF IInv, TypeOK, Fields
  <2> QED
    BY <2>1 DEF Fields
<1>7. /\ Len(arena'[a].blocks) = Len(old) + 1
      /\ arena'[a].blocks[1] = base
      /\ \A i \in 1..Len(old) : arena'[a].blocks[i + 1] = old[i]
      /\ \A i \in 2..(Len(old) + 1) : arena'[a].blocks[i] = old[i - 1] /\ i - 1 \in 1..Len(old)
  BY <1>2, <1>6, Prepend
<1>8. Len(old) \in Nat
  BY <1>6
<1>9. BlocksOf(a)' = {base} \cup BlocksOf(a)
  <2>1. ASSUME NEW b \in BlocksOf(a)' PROVE b \in {base} \cup BlocksOf(a)
    <3>1. PICK i \in 1..(Len(old) + 1) : b = arena'[a].blocks[i]
      BY <2>1, <1>7 DEF BlocksOf
    <3>2. CASE i = 1
      BY <3>1, <3>2, <1>7
    <3>3. CASE i # 1
      <4>1. i \in 2..(Len(old) + 1)
        BY <3>3, <1>8
      <4>2. b = old[i - 1] /\ i - 1 \in 1..Len(old)
        BY <4>1, <3>1, <1>7
      <4> QED
        BY <4>2 DEF BlocksOf
    <3> QED
      BY <3>2, <3>3
  <2>2. ASSUME NEW b \in BlocksOf(a) PROVE b \in BlocksOf(a)'
    <3>1. PICK i \in 1..Len(old) : b = old[i]
      BY <2>2 DEF BlocksOf
    <3>2. i + 1 \in 1..(Len(old) + 1) /\ b = arena'[a].blocks[i + 1]
      BY <3>1, <1>7, <1>8
    <3> QED
      BY <3>2, <1>7 DEF BlocksOf
  <2>3. base \in BlocksOf(a)'
    <3>1. 1 \in 1..(Len(old) + 1)
      BY <1>8
    <3> QED
      BY <3>1, <1>7 DEF BlocksOf
  <2> QED
    BY <2>1, <2>2, <2>3
<1>10. \A c \in Arenas \ {a} : BlocksOf(c)' = BlocksOf(c)
  BY <1>2 DEF BlocksOf
<1>11. \A b \in DOMAIN heap : b \in Nat /\ heap[b] \in Nat
  BY ArenaAssumption DEF IInv, TypeOK, Address
<1>12. TypeOK'
  <2>1. \A c \in Arenas : given'[c] \subseteq StorageType
    BY <1>4, <1>5 DEF IInv, TypeOK, StorageType
  <2>2. DOMAIN heap' \subseteq Address \ {0} /\ \A b \in DOMAIN heap' : heap'[b] \in Nat
    BY <1>2, <1>11 DEF IInv, TypeOK
  <2> QED
    BY <1>2, <2>1, <2>2 DEF IInv, TypeOK, Fields, StorageType
<1>13. HeapInv'
  <2>1. \A b \in DOMAIN heap' : heap'[b] >= sizeof_Block /\ b + heap'[b] <= HeapSize + 1
    BY <1>1, <1>2 DEF IInv, HeapInv
  <2>2. \A b, c \in DOMAIN heap' : b # c => b + heap'[b] <= c \/ c + heap'[c] <= b
    BY <1>2 DEF IInv, HeapInv
  <2> QED
    BY <2>1, <2>2 DEF HeapInv
<1>14. OwnerInv'
  <2>1. \A c \in Arenas : \A b \in BlocksOf(c)' : b \in DOMAIN heap'
    BY <1>2, <1>9, <1>10 DEF IInv, OwnerInv
  <2>2. \A b \in DOMAIN heap' : \E c \in Arenas : b \in BlocksOf(c)'
    BY <1>1, <1>2, <1>9, <1>10 DEF IInv, OwnerInv
  <2>3. ASSUME NEW c \in Arenas, NEW i \in 1..Len(arena'[c].blocks),
               NEW j \in 1..Len(arena'[c].blocks), arena'[c].blocks[i] = arena'[c].blocks[j]
        PROVE  i = j
    <3>1. CASE c # a
      BY <2>3, <3>1, <1>2 DEF IInv, OwnerInv
    <3>2. CASE c = a
      <4>1. \A k \in 2..(Len(old) + 1) : arena'[a].blocks[k] \in DOMAIN heap
        <5>1. \A k \in 1..Len(old) : old[k] \in DOMAIN heap
          BY <1>1 DEF IInv, OwnerInv, BlocksOf
        <5> QED
          BY <5>1, <1>7
      <4>2. i \in 1..(Len(old) + 1) /\ j \in 1..(Len(old) + 1)
        BY <3>2, <1>7
      <4>3. CASE i = 1 \/ j = 1
        <5>1. \A k \in 1..(Len(old) + 1) : arena'[a].blocks[k] = base => k = 1
          <6> SUFFICES ASSUME NEW k \in 1..(Len(old) + 1), arena'[a].blocks[k] = base, k # 1
                       PROVE  FALSE
            OBVIOUS
          <6>1. k \in 2..(Len(old) + 1)
            BY <1>8
          <6> QED
            BY <6>1, <4>1, <1>2
        <5> QED
          BY <5>1, <4>2, <4>3, <2>3, <3>2, <1>7
      <4>4. CASE i # 1 /\ j # 1
        <5>1. i \in 2..(Len(old) + 1) /\ j \in 2..(Len(old) + 1)
          BY <4>2, <4>4, <1>8
        <5>2. old[i - 1] = old[j - 1] /\ i - 1 \in 1..Len(old) /\ j - 1 \in 1..Len(old)
          BY <5>1, <2>3, <3>2, <1>7
        <5>3. i - 1 = j - 1
          BY <5>2, <1>1 DEF IInv, OwnerInv
        <5> QED
          BY <5>3, <4>2
      <4> QED
        BY <4>3, <4>4
    <3> QED
      BY <3>1, <3>2
  <2>4. \A c, d \in Arenas : c # d => BlocksOf(c)' \cap BlocksOf(d)' = {}
    <3>1. \A c \in Arenas : base \notin BlocksOf(c)
      BY <1>2 DEF IInv, OwnerInv
    <3>2. \A c, d \in Arenas : c # d => BlocksOf(c) \cap BlocksOf(d) = {}
      BY DEF IInv, OwnerInv
    <3> QED
      BY <3>1, <3>2, <1>9, <1>10
  <2> QED
    BY <2>1, <2>2, <2>3, <2>4 DEF OwnerInv
<1>15. AliveInv'
  BY <1>2 DEF IInv, AliveInv
<1>16. StorageIsLive'
  <2> SUFFICES ASSUME NEW c \in Arenas, NEW s \in given'[c]
               PROVE  \E b \in BlocksOf(c)' : /\ b \in DOMAIN heap'
                                              /\ b + sizeof_Block <= s.ptr
                                              /\ s.ptr + s.size <= b + heap'[b]
    BY DEF StorageIsLive
  <2>1. CASE s \in given[c]
    <3>1. PICK b \in BlocksOf(c) : /\ b \in DOMAIN heap
                                   /\ b + sizeof_Block <= s.ptr
                                   /\ s.ptr + s.size <= b + heap[b]
      BY <2>1 DEF IInv, StorageIsLive
    <3>2. b \in BlocksOf(c)' /\ b \in DOMAIN heap' /\ heap'[b] = heap[b]
      BY <3>1, <1>2, <1>9, <1>10
    <3> QED
      BY <3>1, <3>2
  <2>2. CASE s \notin given[c]
    <3>1. c = a /\ s = new
      BY <2>2, <1>4
    <3>2. base + sizeof_Block <= s.ptr /\ s.ptr + s.size <= base + heap'[base]
      BY <3>1, <1>1, <1>2, <1>3, <1>5
    <3> QED
      BY <3>1, <3>2, <1>2, <1>9
  <2> QED
    BY <2>1, <2>2
<1>17. FreeInv'
  <2> SUFFICES ASSUME NEW c \in Arenas \ released, arena'[c].next_ptr # 0
               PROVE  LET r == arena'[c] IN
                      /\ r.blocks # <<>>
                      /\ r.blocks[1] + sizeof_Block <= r.next_ptr
                      /\ r.next_ptr + r.remaining_size <= r.blocks[1] + heap'[r.blocks[1]]
                      /\ \A s \in given'[c] : \/ s.ptr + s.size <= r.next_ptr
                                              \/ r.next_ptr + r.remaining_size <= s.ptr
    BY <1>2 DEF FreeInv
  <2>1. CASE c # a
    <3>1. arena'[c] = arena[c] /\ given'[c] = given[c]
      BY <2>1, <1>2, <1>4
    <3>2. arena[c].blocks # <<>>
      BY <3>1 DEF IInv, FreeInv
    <3>4. arena[c].blocks[1] \in DOMAIN heap
      BY <3>2, FirstBlock DEF IInv, OwnerInv
    <3> QED
      BY <3>1, <3>2, <3>4, <1>2 DEF IInv, FreeInv
  <2>2. CASE c = a
    <3>1. arena'[a].blocks # <<>>
      BY <1>7, <1>8, <1>2
    <3>2. \A s \in given'[a] : \/ s.ptr + s.size <= base + sizeof_Block + size
                               \/ (base + sizeof_Block + size) + (bs - sizeof_Block - size) <= s.ptr
      <4> SUFFICES ASSUME NEW s \in given'[a]
                   PROVE  \/ s.ptr + s.size <= base + sizeof_Block + size
                          \/ (base + sizeof_Block + size) + (bs - sizeof_Block - size) <= s.ptr
        OBVIOUS
      <4>1. s \in StorageType
        BY <1>12, <1>1 DEF TypeOK, StorageType
      <4>2. s.ptr \in Nat /\ s.size \in Nat
        BY <4>1 DEF StorageType
      <4>3. CASE s \in given[a]
        <5>1. PICK b \in BlocksOf(a) : /\ b \in DOMAIN heap
                                       /\ b + sizeof_Block <= s.ptr
                                       /\ s.ptr + s.size <= b + heap[b]
          BY <4>3, <1>1 DEF IInv, StorageIsLive
        <5>2. b \in Nat /\ heap[b] \in Nat /\ (base + bs <= b \/ b + heap[b] <= base)
          BY <5>1, <1>2, <1>11
        <5> QED
          BY <5>1, <5>2, <4>2, <1>1, <1>2, <1>3
      <4>4. CASE s = new
        BY <4>4, <1>1, <1>3, <1>5
      <4> QED
        BY <4>3, <4>4, <1>4
    <3>3. /\ base + sizeof_Block <= base + sizeof_Block + size
          /\ (base + sizeof_Block + size) + (bs - sizeof_Block - size) <= base + bs
      BY <1>1, <1>3
    <3> QED
      BY <2>2, <3>1, <3>2, <3>3, <1>2, <1>7
  <2> QED
    BY <2>1, <2>2
<1> QED
  BY <1>4, <1>12, <1>13, <1>14, <1>15, <1>16, <1>17 DEF IInv

(* What constructing, releasing and destroying an arena have in common: it owns nothing afterwards. *)
OwnsNothing(a) ==
  /\ arena' \in [Arenas -> Fields]
  /\ arena'[a].blocks = <<>>
  /\ arena'[a].next_ptr = 0 \/ a \in released'
  /\ \A c \in Arenas \ {a} : arena'[c] = arena[c]
  /\ DOMAIN heap' = DOMAIN heap \ BlocksOf(a)
  /\ \A b \in DOMAIN heap' : heap'[b] = heap[b]
  /\ DOMAIN given' = Arenas
  /\ given'[a] = {}
  /\ \A c \in Arenas \ {a} : given'[c] = given[c]
  /\ alive' \subseteq Arenas
  /\ alive \ {a} \subseteq alive'
  /\ released' \subseteq alive'
  /\ released \ {a} \subseteq released'
  /\ released' \subseteq released \cup {a}

(* Such a step preserves the invariant. *)
LEMMA OwnsNothingStep ==
  ASSUME IInv, NEW a \in Arenas, OwnsNothing(a)
  PROVE  IInv'
<1> USE DEF OwnsNothing
<1>1. BlocksOf(a)' = {}
  BY DEF BlocksOf
<1>2. \A c \in Arenas \ {a} : BlocksOf(c)' = BlocksOf(c)
  BY DEF BlocksOf
<1>3. TypeOK'
  <2>1. \A c \in Arenas : given'[c] \subseteq StorageType
    BY DEF IInv, TypeOK, StorageType
  <2> QED
    BY <2>1 DEF IInv, TypeOK, Fields, StorageType
<1>4. HeapInv'
  BY DEF IInv, HeapInv
<1>5. \A c, d \in Arenas : c # d => BlocksOf(c) \cap BlocksOf(d) = {}
  BY DEF IInv, OwnerInv
<1>6. OwnerInv'
  <2>1. \A c \in Arenas : \A b \in BlocksOf(c)' : b \in DOMAIN heap'
    BY <1>1, <1>2, <1>5 DEF IInv, OwnerInv
  <2>2. \A b \in DOMAIN heap' : \E c \in Arenas : b \in BlocksOf(c)'
    BY <1>2 DEF IInv, OwnerInv
  <2>3. ASSUME NEW c \in Arenas, NEW i \in 1..Len(arena'[c].blocks),
               NEW j \in 1..Len(arena'[c].blocks), arena'[c].blocks[i] = arena'[c].blocks[j]
        PROVE  i = j
    <3>1. CASE c # a
      BY <2>3, <3>1 DEF IInv, OwnerInv
    <3>2. CASE c = a
      <4>1. Len(arena'[c].blocks) = 0
        BY <3>2
      <4> QED
        BY <4>1
    <3> QED
      BY <3>1, <3>2
  <2>4. \A c, d \in Arenas : c # d => BlocksOf(c)' \cap BlocksOf(d)' = {}
    BY <1>1, <1>2, <1>5
  <2> QED
    BY <2>1, <2>2, <2>3, <2>4 DEF OwnerInv
<1>7. AliveInv'
  BY DEF IInv, AliveInv
<1>8. StorageIsLive'
  <2> SUFFICES ASSUME NEW c \in Arenas, NEW s \in given'[c]
               PROVE  \E b \in BlocksOf(c)' : /\ b \in DOMAIN heap'
                                              /\ b + sizeof_Block <= s.ptr
                                              /\ s.ptr + s.size <= b + heap'[b]
    BY DEF StorageIsLive
  <2>1. c # a /\ s \in given[c]
    OBVIOUS
  <2>2. PICK b \in BlocksOf(c) : /\ b \in DOMAIN heap
                                 /\ b + sizeof_Block <= s.ptr
                                 /\ s.ptr + s.size <= b + heap[b]
    BY <2>1 DEF IInv, StorageIsLive
  <2>3. b \in BlocksOf(c)' /\ b \in DOMAIN heap' /\ heap'[b] = heap[b]
    BY <2>1, <2>2, <1>2, <1>5
  <2> QED
    BY <2>2, <2>3
<1>9. FreeInv'
  <2> SUFFICES ASSUME NEW c \in Arenas \ released', arena'[c].next_ptr # 0
               PROVE  LET r == arena'[c] IN
                      /\ r.blocks # <<>>
                      /\ r.blocks[1] + sizeof_Block <= r.next_ptr
                      /\ r.next_ptr + r.remaining_size <= r.blocks[1] + heap'[r.blocks[1]]
                      /\ \A s \in given'[c] : \/ s.ptr + s.size <= r.next_ptr
                                              \/ r.next_ptr + r.remaining_size <= s.ptr
    BY DEF FreeInv
  <2>1. c # a /\ c \notin released /\ arena'[c] = arena[c] /\ given'[c] = given[c]
    OBVIOUS
  <2>2. arena[c].blocks # <<>>
    BY <2>1 DEF IInv, FreeInv
  <2>4. arena[c].blocks[1] \in BlocksOf(c)
    BY <2>2, FirstBlock
  <2>5. arena[c].blocks[1] \in DOMAIN heap'
    BY <2>1, <2>4, <1>5 DEF IInv, OwnerInv
  <2> QED
    BY <2>1, <2>2, <2>5 DEF IInv, FreeInv
<1> QED
  BY <1>3, <1>4, <1>6, <1>7, <1>8, <1>9 DEF IInv

(* What both move operations do: an arena that owned blocks has freed them and gets those of another. *)
TakesBlocksOf(to, from) ==
  /\ to # from
  /\ arena' \in [Arenas -> Fields]
  /\ arena'[to] = arena[from]
  /\ arena'[from].blocks = <<>>
  /\ arena'[from].next_ptr = 0
  /\ \A c \in Arenas \ {to, from} : arena'[c] = arena[c]
  /\ DOMAIN heap' = DOMAIN heap \ BlocksOf(to)
  /\ \A b \in DOMAIN heap' : heap'[b] = heap[b]
  /\ DOMAIN given' = Arenas
  /\ given'[to] = given[from]
  /\ given'[from] = {}
  /\ \A c \in Arenas \ {to, from} : given'[c] = given[c]
  /\ alive' = alive \cup {to}
  /\ released' = (released \ {to, from}) \cup (IF from \in released THEN {to} ELSE {})

(* Such a step preserves the invariant. *)
LEMMA TakesBlocksStep ==
  ASSUME IInv, NEW to \in Arenas, NEW from \in Arenas, TakesBlocksOf(to, from)
  PROVE  IInv'
<1> USE DEF TakesBlocksOf
<1>1. BlocksOf(from)' = {} /\ BlocksOf(to)' = BlocksOf(from)
  BY DEF BlocksOf
<1>2. \A c \in Arenas \ {to, from} : BlocksOf(c)' = BlocksOf(c)
  BY DEF BlocksOf
<1>3. TypeOK'
  <2>1. \A c \in Arenas : given'[c] \subseteq StorageType
    BY DEF IInv, TypeOK, StorageType
  <2>2. alive' \subseteq Arenas /\ released' \subseteq alive'
    BY DEF IInv, TypeOK
  <2> QED
    BY <2>1, <2>2 DEF IInv, TypeOK, Fields, StorageType
<1>4. HeapInv'
  BY DEF IInv, HeapInv
<1>5. \A c, d \in Arenas : c # d => BlocksOf(c) \cap BlocksOf(d) = {}
  BY DEF IInv, OwnerInv
<1>6. OwnerInv'
  <2>1. \A c \in Arenas : \A b \in BlocksOf(c)' : b \in DOMAIN heap'
    BY <1>1, <1>2, <1>5 DEF IInv, OwnerInv
  <2>2. \A b \in DOMAIN heap' : \E c \in Arenas : b \in BlocksOf(c)'
    BY <1>1, <1>2 DEF IInv, OwnerInv
  <2>3. ASSUME NEW c \in Arenas, NEW i \in 1..Len(arena'[c].blocks),
               NEW j \in 1..Len(arena'[c].blocks), arena'[c].blocks[i] = arena'[c].blocks[j]
        PROVE  i = j
    <3>1. CASE c \notin {to, from}
      <4>1. arena'[c] = arena[c]
        BY <3>1
      <4> QED
        BY <2>3, <4>1 DEF IInv, OwnerInv
    <3>2. CASE c = to
      <4>1. arena'[c] = arena[from]
        BY <3>2
      <4> QED
        BY <2>3, <4>1 DEF IInv, OwnerInv
    <3>3. CASE c = from
      <4>1. arena'[c].blocks = <<>>
        BY <3>3
      <4> QED
        BY <4>1
    <3> QED
      BY <3>1, <3>2, <3>3
  <2>4. \A c, d \in Arenas : c # d => BlocksOf(c)' \cap BlocksOf(d)' = {}
    BY <1>1, <1>2, <1>5
  <2> QED
    BY <2>1, <2>2, <2>3, <2>4 DEF OwnerInv
<1>7. AliveInv'
  BY DEF IInv, AliveInv
<1>8. \A c \in Arenas : \E d \in Arenas :
        /\ given'[c] = {} \/ (given'[c] = given[d] /\ d # to /\ BlocksOf(c)' = BlocksOf(d))
  BY <1>1, <1>2
<1>9. StorageIsLive'
  <2> SUFFICES ASSUME NEW c \in Arenas, NEW s \in given'[c]
               PROVE  \E b \in BlocksOf(c)' : /\ b \in DOMAIN heap'
                                              /\ b + sizeof_Block <= s.ptr
                                              /\ s.ptr + s.size <= b + heap'[b]
    BY DEF StorageIsLive
  <2>1. PICK d \in Arenas : s \in given[d] /\ d # to /\ BlocksOf(c)' = BlocksOf(d)
    BY <1>8
  <2>2. PICK b \in BlocksOf(d) : /\ b \in DOMAIN heap
                                 /\ b + sizeof_Block <= s.ptr
                                 /\ s.ptr + s.size <= b + heap[b]
    BY <2>1 DEF IInv, StorageIsLive
  <2>3. b \in DOMAIN heap' /\ heap'[b] = heap[b]
    BY <2>1, <2>2, <1>5
  <2> QED
    BY <2>1, <2>2, <2>3
<1>10. FreeInv'
  <2> SUFFICES ASSUME NEW c \in Arenas \ released', arena'[c].next_ptr # 0
               PROVE  LET r == arena'[c] IN
                      /\ r.blocks # <<>>
                      /\ r.blocks[1] + sizeof_Block <= r.next_ptr
                      /\ r.next_ptr + r.remaining_size <= r.blocks[1] + heap'[r.blocks[1]]
                      /\ \A s \in given'[c] : \/ s.ptr + s.size <= r.next_ptr
                                              \/ r.next_ptr + r.remaining_size <= s.ptr
    BY DEF FreeInv
  <2>1. PICK d \in Arenas : /\ d \notin released /\ d # to
                            /\ arena'[c] = arena[d] /\ given'[c] = given[d]
    <3>1. CASE c = to
      BY <3>1
    <3>2. CASE c # to
      BY <3>2
    <3> QED
      BY <3>1, <3>2
  <2>2. arena[d].blocks # <<>>
    BY <2>1 DEF IInv, FreeInv
  <2>4. arena[d].blocks[1] \in BlocksOf(d)
    BY <2>2, FirstBlock
  <2>5. arena[d].blocks[1] \in DOMAIN heap'
    BY <2>1, <2>4, <1>5 DEF IInv, OwnerInv
  <2> QED
    BY <2>1, <2>2, <2>5 DEF IInv, FreeInv
<1> QED
  BY <1>3, <1>4, <1>6, <1>7, <1>9, <1>10 DEF IInv

(* The fields of an arena without blocks. *)
LEMMA EmptyFields ==
  ASSUME NEW n \in Nat
  PROVE  Empty(n) \in Fields /\ Empty(n).blocks = <<>> /\ Empty(n).next_ptr = 0
BY DEF Empty, Fields

(* An arena that does not exist owns no block and has given out no storage. *)
LEMMA DeadOwnsNothing ==
  ASSUME IInv, NEW a \in Arenas \ alive
  PROVE  arena[a].blocks = <<>> /\ BlocksOf(a) = {} /\ given[a] = {}
<1>1. arena[a].blocks = <<>>
  BY DEF IInv, AliveInv
<1>2. BlocksOf(a) = {}
  BY <1>1 DEF BlocksOf
<1> QED
  BY <1>1, <1>2 DEF IInv, StorageIsLive

(* The constructor, release and the destructor leave an arena that owns nothing. *)
LEMMA LifetimeShape ==
  ASSUME IInv, NEW a \in Arenas, NEW n \in FirstBlockSizes,
         Construct(a, n) \/ release(a) \/ Destroy(a)
  PROVE  OwnsNothing(a)
<1>1. arena \in [Arenas -> Fields] /\ alive \subseteq Arenas /\ released \subseteq alive
  BY DEF IInv, TypeOK, Fields
<1>2. n \in Nat /\ initial_block_size \in Nat
  BY ArenaAssumption DEF FirstBlockSizes
<1>3. CASE Construct(a, n)
  <2>1. BlocksOf(a) = {} /\ given[a] = {}
    BY <1>3, DeadOwnsNothing DEF Construct
  <2>2. arena' = [arena EXCEPT ![a] = Empty(n)]
    BY <1>3 DEF Construct
  <2>3. /\ arena' \in [Arenas -> Fields] /\ arena'[a] = Empty(n)
        /\ \A c \in Arenas \ {a} : arena'[c] = arena[c]
    BY <1>1, <1>2, <2>2, EmptyFields
  <2> QED
    BY <1>1, <1>2, <1>3, <2>1, <2>3, EmptyFields DEF Construct, OwnsNothing, IInv
<1>4. CASE release(a)
  <2>1. arena' = [arena EXCEPT ![a].blocks = <<>>, ![a].total_size = 0]
    BY <1>4 DEF release
  <2>2. <<>> \in Seq(Address \ {0}) /\ 0 \in Nat
    OBVIOUS
  <2>3. /\ arena' \in [Arenas -> Fields] /\ arena'[a].blocks = <<>>
        /\ \A c \in Arenas \ {a} : arena'[c] = arena[c]
    BY <1>1, <2>1, <2>2 DEF Fields
  <2> QED
    BY <1>1, <1>4, <2>3 DEF release, HeapWithout, OwnsNothing, IInv
<1>5. CASE Destroy(a)
  <2>1. arena' = [arena EXCEPT ![a] = Empty(initial_block_size)]
    BY <1>5 DEF Destroy
  <2>2. /\ arena' \in [Arenas -> Fields] /\ arena'[a] = Empty(initial_block_size)
        /\ \A c \in Arenas \ {a} : arena'[c] = arena[c]
    BY <1>1, <1>2, <2>1, EmptyFields
  <2> QED
    BY <1>1, <1>2, <1>5, <2>2, EmptyFields DEF Destroy, HeapWithout, OwnsNothing, IInv
<1> QED
  BY <1>3, <1>4, <1>5

(* The move operations hand over the blocks. *)
LEMMA MoveShape ==
  ASSUME IInv, NEW to \in Arenas, NEW from \in Arenas,
         MoveConstruct(to, from) \/ MoveAssign(to, from)
  PROVE  TakesBlocksOf(to, from)
<1>1. arena \in [Arenas -> Fields]
  BY DEF IInv, TypeOK, Fields
<1>2. initial_block_size \in Nat
  BY ArenaAssumption
<1>3. to # from /\ TakeOver(to, from)
  BY DEF MoveConstruct, MoveAssign
<1>4. /\ arena' = [arena EXCEPT ![to] = arena[from], ![from] = Empty(initial_block_size)]
      /\ given' = [given EXCEPT ![to] = given[from], ![from] = {}]
      /\ released' = (released \ {to, from}) \cup (IF from \in released THEN {to} ELSE {})
  BY <1>3 DEF TakeOver
<1>5. /\ arena' \in [Arenas -> Fields]
      /\ arena'[to] = arena[from]
      /\ arena'[from] = Empty(initial_block_size)
      /\ \A c \in Arenas \ {to, from} : arena'[c] = arena[c]
  BY <1>1, <1>2, <1>3, <1>4, EmptyFields
<1>6. /\ DOMAIN given' = Arenas
      /\ given'[to] = given[from]
      /\ given'[from] = {}
      /\ \A c \in Arenas \ {to, from} : given'[c] = given[c]
  BY <1>3, <1>4 DEF IInv
<1>7. /\ DOMAIN heap' = DOMAIN heap \ BlocksOf(to)
      /\ \A b \in DOMAIN heap' : heap'[b] = heap[b]
      /\ alive' = alive \cup {to}
  <2>1. CASE MoveConstruct(to, from)
    <3>1. BlocksOf(to) = {}
      BY <2>1, DeadOwnsNothing DEF MoveConstruct
    <3> QED
      BY <2>1, <3>1 DEF MoveConstruct
  <2>2. CASE MoveAssign(to, from)
    BY <2>2 DEF MoveAssign, HeapWithout
  <2> QED
    BY <2>1, <2>2
<1> QED
  BY <1>2, <1>3, <1>4, <1>5, <1>6, <1>7, EmptyFields DEF TakesBlocksOf

-----------------------------------------------------------------------------
(* The invariant *)

(* The invariant of the arena is about its own variables. *)
LEMMA VarsKeepInv ==
  ASSUME IInv, UNCHANGED vars
  PROVE  IInv'
<1>1. \A a : BlocksOf(a)' = BlocksOf(a)
  BY DEF vars, BlocksOf
<1> QED
  BY <1>1 DEF vars, IInv, TypeOK, HeapInv, OwnerInv, AliveInv, FreeInv, StorageIsLive

(* allocate preserves the invariant. *)
LEMMA AllocateStep ==
  ASSUME IInv, NEW a \in Arenas, NEW size \in Nat, NEW alignment, HeaderKeeps(alignment),
         allocate(a, size, alignment)
  PROVE  IInv'
<1>1. alignment \in Nat \ {0}
  BY DEF HeaderKeeps
<1> QED
  BY <1>1, InBlockStep, NewBlockStep DEF allocate

(***************************************************************************)
(* What a client relies on when allocate returns ptr: it is not null, it   *)
(* is aligned, the storage is on the heap and reaches into no storage in   *)
(* use, and neither does the header of a block that was taken for it.      *)
(***************************************************************************)
GivesFresh(a, size, alignment, ptr) ==
  /\ ptr % alignment = 0
  /\ ptr + size <= HeapSize + 1
  /\ \A c \in Arenas : \A s \in given[c] : s.ptr + s.size <= ptr \/ ptr + size <= s.ptr
  /\ \A c \in Arenas : \A s \in given[c] : Span(s.ptr, s.size) \cap HeaderCells(a) = {}
  /\ Span(ptr, size) \cap HeaderCells(a) = {}
  /\ Result(a, size) = ptr
  /\ given' = [given EXCEPT ![a] = @ \cup {Storage(ptr, size, alignment)}]
  /\ UNCHANGED <<alive, released>>

(* Storage in use lies in a block of its own arena. *)
LEMMA StorageInBlock ==
  ASSUME IInv, NEW c \in Arenas, NEW s \in given[c]
  PROVE  /\ s.ptr \in Nat /\ s.size \in Nat
         /\ \E b \in BlocksOf(c) : /\ b \in DOMAIN heap /\ b \in Nat /\ heap[b] \in Nat
                                   /\ b + sizeof_Block <= s.ptr
                                   /\ s.ptr + s.size <= b + heap[b]
<1>1. s \in StorageType
  BY DEF IInv, TypeOK, StorageType
<1>2. \A b \in DOMAIN heap : b \in Nat /\ heap[b] \in Nat
  BY ArenaAssumption DEF IInv, TypeOK, Address
<1> QED
  BY <1>1, <1>2 DEF StorageType, IInv, StorageIsLive

(* Storage in use is on the heap. *)
LEMMA StorageOnHeap ==
  ASSUME IInv, NEW c \in Arenas, NEW s \in given[c]
  PROVE  s.ptr + s.size <= HeapSize + 1
<1>1. PICK b \in BlocksOf(c) : /\ b \in DOMAIN heap /\ b \in Nat /\ heap[b] \in Nat
                               /\ s.ptr + s.size <= b + heap[b]
  BY StorageInBlock
<1>2. b + heap[b] <= HeapSize + 1
  BY <1>1 DEF IInv, HeapInv
<1> QED
  BY <1>1, <1>2, StorageInBlock, ArenaAssumption

(* allocate gives fresh storage when the current block has room. *)
LEMMA InBlockFresh ==
  ASSUME IInv, NEW a \in alive \ released, NEW size \in Nat, NEW alignment \in Nat \ {0},
         AllocateInBlock(a, size, alignment)
  PROVE  \E ptr \in Nat \ {0} : GivesFresh(a, size, alignment, ptr)
<1> DEFINE p == arena[a].next_ptr
           rem == arena[a].remaining_size
           pad == Padding(p, alignment)
           first == arena[a].blocks[1]
<1>1. a \in Arenas /\ arena \in [Arenas -> Fields] /\ arena[a] \in Fields
  BY DEF IInv, TypeOK, Fields
<1>2. p \in Nat /\ rem \in Nat
  BY <1>1 DEF Fields
<1>3. pad \in Nat /\ (p + pad) % alignment = 0
  BY <1>2, PaddingAligns
<1>4. p # 0 /\ size <= rem /\ pad <= rem - size
  BY DEF AllocateInBlock, Fits
<1>5. /\ arena' = [arena EXCEPT ![a].next_ptr = p + pad + size,
                                ![a].remaining_size = rem - pad - size]
      /\ given' = [given EXCEPT ![a] = @ \cup {Storage(p + pad, size, alignment)}]
      /\ UNCHANGED <<alive, released>>
  BY DEF AllocateInBlock, Give
<1> HIDE DEF pad
<1>6. arena'[a].next_ptr = p + pad + size /\ arena'[a].blocks = arena[a].blocks
  BY <1>1, <1>5 DEF Fields
<1>7. Result(a, size) = p + pad
  BY <1>2, <1>3, <1>6 DEF Result
<1>8. HeaderCells(a) = {}
  <2>1. Len(arena[a].blocks) \in Nat
    BY <1>1 DEF Fields
  <2> QED
    BY <2>1, <1>6 DEF HeaderCells
<1>9. /\ first \in BlocksOf(a)
      /\ first \in DOMAIN heap
      /\ first + sizeof_Block <= p
      /\ p + rem <= first + heap[first]
      /\ \A s \in given[a] : s.ptr + s.size <= p \/ p + rem <= s.ptr
  BY <1>4, FreeEnd
<1>10. /\ sizeof_Block \in Nat /\ HeapSize \in Nat
       /\ first \in Nat
       /\ heap[first] \in Nat
       /\ first + heap[first] <= HeapSize + 1
  BY <1>9, ArenaAssumption DEF IInv, TypeOK, Address, HeapInv
<1> HIDE DEF p, rem, first
<1>11. ASSUME NEW c \in Arenas, NEW s \in given[c]
       PROVE  s.ptr + s.size <= p + pad \/ p + pad + size <= s.ptr
  <2>1. s.ptr \in Nat /\ s.size \in Nat
    BY StorageInBlock
  <2>2. CASE c = a
    BY <2>1, <2>2, <1>2, <1>3, <1>4, <1>9
  <2>3. CASE c # a
    <3>1. PICK b \in BlocksOf(c) : /\ b \in DOMAIN heap /\ b \in Nat /\ heap[b] \in Nat
                                   /\ b + sizeof_Block <= s.ptr
                                   /\ s.ptr + s.size <= b + heap[b]
      BY StorageInBlock
    <3>2. b # first
      BY <2>3, <1>1, <1>9 DEF IInv, OwnerInv
    <3>3. b + heap[b] <= first \/ first + heap[first] <= b
      BY <3>1, <3>2, <1>9 DEF IInv, HeapInv
    <3> QED
      BY <3>1, <3>3, <2>1, <1>2, <1>3, <1>4, <1>9, <1>10
  <2> QED
    BY <2>2, <2>3
<1>12. p + pad \in Nat \ {0} /\ p + pad + size <= HeapSize + 1
  BY <1>2, <1>3, <1>4, <1>9, <1>10
<1>13. given' = [given EXCEPT ![a] = @ \cup {Storage(p + pad, size, alignment)}]
  BY <1>5
<1>14. GivesFresh(a, size, alignment, p + pad)
  BY <1>3, <1>5, <1>7, <1>8, <1>11, <1>12, <1>13 DEF GivesFresh
<1> QED
  BY <1>12, <1>14

(* allocate gives fresh storage when it takes a new block. *)
LEMMA NewBlockFresh ==
  ASSUME IInv, NEW a \in alive \ released, NEW size \in Nat, NEW alignment, HeaderKeeps(alignment),
         AllocateNewBlock(a, size, alignment)
  PROVE  \E ptr \in Nat \ {0} : GivesFresh(a, size, alignment, ptr)
<1>1. a \in Arenas /\ alignment \in Nat \ {0} /\ sizeof_Block \in Nat \ {0} /\ HeapSize \in Nat
  BY ArenaAssumption DEF IInv, TypeOK, HeaderKeeps
<1>2. PICK base \in Address \ {0}, bs \in Nat : TakesBlock(a, size, alignment, base, bs)
  BY <1>1, NewBlockShape
<1>3. base \in Nat \ {0}
  BY ArenaAssumption DEF Address
<1>4. arena[a].blocks \in Seq(Address \ {0})
  <2>1. arena[a] \in Fields
    BY <1>1 DEF IInv, TypeOK, Fields
  <2> QED
    BY <2>1 DEF Fields
<1>5. /\ Len(arena'[a].blocks) = Len(arena[a].blocks) + 1
      /\ arena'[a].blocks[1] = base
  BY <1>2, <1>4, Prepend DEF TakesBlock
<1>6. HeaderCells(a) = Span(base, sizeof_Block)
  <2>1. Len(arena[a].blocks) \in Nat
    BY <1>4
  <2> QED
    BY <2>1, <1>5 DEF HeaderCells
<1>7. Result(a, size) = base + sizeof_Block
  BY <1>1, <1>2, <1>3 DEF Result, TakesBlock
<1>8. ASSUME NEW c \in Arenas, NEW s \in given[c]
      PROVE  /\ s.ptr \in Nat /\ s.size \in Nat
             /\ s.ptr + s.size <= base \/ base + bs <= s.ptr
  <2>1. PICK b \in BlocksOf(c) : /\ b \in DOMAIN heap /\ b \in Nat /\ heap[b] \in Nat
                                 /\ b + sizeof_Block <= s.ptr
                                 /\ s.ptr + s.size <= b + heap[b]
    BY StorageInBlock
  <2>2. base + bs <= b \/ b + heap[b] <= base
    BY <1>2, <2>1 DEF TakesBlock
  <2> QED
    BY <2>1, <2>2, <1>1, <1>3, StorageInBlock
<1>9. size + sizeof_Block <= bs /\ base + bs <= HeapSize + 1
  BY <1>2 DEF TakesBlock
<1>10. \A c \in Arenas : \A s \in given[c] :
         s.ptr + s.size <= base + sizeof_Block \/ base + sizeof_Block + size <= s.ptr
  BY <1>1, <1>3, <1>8, <1>9
<1>11. \A c \in Arenas : \A s \in given[c] : Span(s.ptr, s.size) \cap HeaderCells(a) = {}
  <2> SUFFICES ASSUME NEW c \in Arenas, NEW s \in given[c],
                      NEW m \in Span(s.ptr, s.size), m \in Span(base, sizeof_Block)
               PROVE  FALSE
    BY <1>6
  <2> QED
    BY <1>1, <1>3, <1>8, <1>9 DEF Span
<1>12. Span(base + sizeof_Block, size) \cap HeaderCells(a) = {}
  BY <1>1, <1>3, <1>6 DEF Span
<1>13. base + sizeof_Block \in Nat \ {0} /\ base + sizeof_Block + size <= HeapSize + 1
  BY <1>1, <1>3, <1>9
<1> QED
  BY <1>2, <1>7, <1>10, <1>11, <1>12, <1>13 DEF GivesFresh, TakesBlock

(* allocate gives fresh storage. *)
LEMMA AllocateFresh ==
  ASSUME IInv, NEW a \in Arenas, NEW size \in Nat, NEW alignment, HeaderKeeps(alignment),
         allocate(a, size, alignment)
  PROVE  \E ptr \in Nat \ {0} : GivesFresh(a, size, alignment, ptr)
<1>1. alignment \in Nat \ {0}
  BY DEF HeaderKeeps
<1> QED
  BY <1>1, InBlockFresh, NewBlockFresh DEF allocate
=============================================================================
