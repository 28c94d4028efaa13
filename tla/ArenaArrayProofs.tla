-------------------------- MODULE ArenaArrayProofs --------------------------
(***************************************************************************)
(* Proofs about arrays in an arena, and the theorems about the arena with  *)
(* arrays in it: blocks have one owner, storage stays live and apart from  *)
(* all other storage, the arena implements Allocator, and arrays keep      *)
(* their elements, for every heap and any number of arenas and arrays.     *)
(*                                                                         *)
(* That elements stay what they are is inductive together with where they  *)
(* are: in storage of the arena the array lives in, which is not released, *)
(* apart from the storage of every other array.                            *)
(***************************************************************************)
EXTENDS ArenaProofs

ArrayType == [data : Nat, count : Nat, capacity : Nat]

(* The storage of the elements of an array. *)
ElementStorage(l) == Storage(array[l].data, array[l].capacity * sizeof_T, alignof_T)

(***************************************************************************)
(* An array has no elements or has its storage from the arena it lives in, *)
(* with room for its elements, apart from the storage of other arrays; its *)
(* elements are in there.                                                  *)
(***************************************************************************)
ArrayInv ==
  /\ array \in [Arrays -> ArrayType]
  /\ home \in [Arrays -> Arenas \cup {"none"}]
  /\ \A l \in Arrays : home[l] = "none" => array[l].count = 0 /\ array[l].capacity = 0
  /\ \A l \in Arrays : home[l] # "none" =>
       /\ home[l] \in alive \ released
       /\ ElementStorage(l) \in given[home[l]]
       /\ array[l].count <= array[l].capacity
  /\ \A l, k \in Arrays : l # k /\ home[l] # "none" /\ home[k] # "none" =>
       \/ array[l].data + array[l].capacity * sizeof_T <= array[k].data
       \/ array[k].data + array[k].capacity * sizeof_T <= array[l].data
  /\ ArraysIntact

-----------------------------------------------------------------------------
(* Elements *)

(* Where the elements of an array end grows with their number. *)
LEMMA ElementsGrow ==
  ASSUME NEW i \in Nat, NEW n \in Nat, i <= n
  PROVE  i * sizeof_T \in Nat /\ n * sizeof_T \in Nat /\ i * sizeof_T <= n * sizeof_T
<1>1. sizeof_T \in Nat
  BY ArrayAssumption
<1>2. PICK d \in Nat : n = i + d
  <2>1. n - i \in Nat /\ n = i + (n - i)
    OBVIOUS
  <2> QED
    BY <2>1
<1>3. n * sizeof_T = i * sizeof_T + d * sizeof_T
  BY <1>1, <1>2
<1>4. d * sizeof_T \in Nat /\ i * sizeof_T \in Nat
  BY <1>1
<1> QED
  BY <1>3, <1>4

(* The cells of element i lie between the elements before it and those behind it. *)
LEMMA CellsBetween ==
  ASSUME NEW data \in Nat, NEW i \in Nat \ {0}, NEW m \in Cells(data, i)
  PROVE  /\ m \in Nat
         /\ (i - 1) * sizeof_T \in Nat /\ i * sizeof_T \in Nat
         /\ data + (i - 1) * sizeof_T <= m
         /\ m < data + i * sizeof_T
<1>1. sizeof_T \in Nat /\ i - 1 \in Nat
  BY ArrayAssumption
<1>2. (i - 1) * sizeof_T \in Nat /\ i * sizeof_T = (i - 1) * sizeof_T + sizeof_T
  BY <1>1
<1>3. m \in (data + (i - 1) * sizeof_T)..(data + (i - 1) * sizeof_T + sizeof_T - 1)
  BY DEF Cells, Span
<1> QED
  BY <1>1, <1>2, <1>3

(* The elements of an array lie in its storage. *)
LEMMA CellsInStorage ==
  ASSUME NEW data \in Nat, NEW n \in Nat, NEW i \in 1..n, NEW m \in Cells(data, i)
  PROVE  /\ m \in Nat
         /\ n * sizeof_T \in Nat
         /\ data <= m
         /\ m < data + n * sizeof_T
         /\ m \in Span(data, n * sizeof_T)
<1>1. i \in Nat \ {0} /\ i <= n
  OBVIOUS
<1>2. /\ m \in Nat
      /\ (i - 1) * sizeof_T \in Nat /\ i * sizeof_T \in Nat
      /\ data + (i - 1) * sizeof_T <= m
      /\ m < data + i * sizeof_T
  BY <1>1, CellsBetween
<1>3. n * sizeof_T \in Nat /\ i * sizeof_T <= n * sizeof_T
  BY <1>1, ElementsGrow
<1>4. data <= m /\ m < data + n * sizeof_T
  BY <1>2, <1>3
<1> QED
  BY <1>2, <1>3, <1>4 DEF Span

(* Elements do not overlap. *)
LEMMA CellsApart ==
  ASSUME NEW data \in Nat, NEW n \in Nat, NEW i \in 1..n, NEW m \in Cells(data, i)
  PROVE  m \notin Cells(data, n + 1)
<1>1. m \in Nat /\ n * sizeof_T \in Nat /\ m < data + n * sizeof_T
  BY CellsInStorage
<1>2. ASSUME m \in Cells(data, n + 1) PROVE FALSE
  <2>1. n + 1 \in Nat \ {0} /\ (n + 1) - 1 = n
    OBVIOUS
  <2>2. data + n * sizeof_T <= m
    BY <1>2, <2>1, CellsBetween
  <2> QED
    BY <1>1, <2>2
<1> QED
  BY <1>2

(* Where the elements of an array are and what they are. *)
LEMMA Elements ==
  ASSUME ArrayInv, NEW l \in Arrays, NEW i \in 1..array[l].count, NEW m \in Cells(array[l].data, i)
  PROVE  /\ home[l] \in Arenas /\ home[l] # "none"
         /\ array[l].data \in Nat /\ array[l].capacity * sizeof_T \in Nat
         /\ ElementStorage(l) \in given[home[l]]
         /\ ElementStorage(l).ptr = array[l].data
         /\ ElementStorage(l).size = array[l].capacity * sizeof_T
         /\ m \in Address /\ m \in Nat
         /\ array[l].data <= m /\ m < array[l].data + array[l].capacity * sizeof_T
         /\ m \in Span(array[l].data, array[l].capacity * sizeof_T)
         /\ memory[m] = <<l, i>>
<1>1. array[l] \in ArrayType
  BY DEF ArrayInv
<1>2. array[l].data \in Nat /\ array[l].count \in Nat /\ array[l].capacity \in Nat
  BY <1>1 DEF ArrayType
<1>3. home[l] # "none"
  BY <1>2 DEF ArrayInv
<1>4. /\ home[l] \in Arenas
      /\ ElementStorage(l) \in given[home[l]]
      /\ array[l].count <= array[l].capacity
  BY <1>3 DEF ArrayInv
<1>5. i \in 1..array[l].capacity
  BY <1>2, <1>4
<1>6. /\ m \in Nat
      /\ array[l].capacity * sizeof_T \in Nat
      /\ array[l].data <= m /\ m < array[l].data + array[l].capacity * sizeof_T
      /\ m \in Span(array[l].data, array[l].capacity * sizeof_T)
  BY <1>2, <1>5, CellsInStorage
<1>7. m \in Address /\ memory[m] = <<l, i>>
  BY DEF ArrayInv, ArraysIntact
<1> QED
  BY <1>2, <1>3, <1>4, <1>6, <1>7 DEF ElementStorage, Storage

(* When allocate gives storage, what was given before stays. *)
LEMMA FreshKeeps ==
  ASSUME IInv, NEW a \in Arenas, NEW size, NEW alignment, NEW ptr,
         GivesFresh(a, size, alignment, ptr)
  PROVE  /\ \A c \in Arenas : given[c] \subseteq given'[c]
         /\ Storage(ptr, size, alignment) \in given'[a]
BY DEF GivesFresh, IInv

(* Creating an object leaves the arrays beside it alone. *)
LEMMA CreateKeepsArrays ==
  ASSUME IInv, ArrayInv, NEW a \in Arenas, NEW size \in Nat, NEW alignment,
         HeaderKeeps(alignment), create(a, size, alignment)
  PROVE  ArrayInv'
<1>1. PICK ptr \in Nat \ {0} : GivesFresh(a, size, alignment, ptr)
  BY AllocateFresh DEF create
<1>2. /\ array' = array /\ home' = home
      /\ alive' = alive /\ released' = released
      /\ \A c \in Arenas : given[c] \subseteq given'[c]
  BY <1>1, FreshKeeps DEF create, GivesFresh
<1>3. memory' = [m \in Address |->
                  IF m \in HeaderCells(a) THEN Header
                  ELSE IF m \in Span(ptr, size) THEN Object
                  ELSE memory[m]]
  BY <1>1 DEF create, GivesFresh
<1>4. \A l \in Arrays : ElementStorage(l)' = ElementStorage(l)
  BY <1>2 DEF ElementStorage
<1>5. \A l \in Arrays : home[l] # "none" => ElementStorage(l)' \in given'[home[l]]
  BY <1>2, <1>4 DEF ArrayInv
<1>6. ArraysIntact'
  <2> SUFFICES ASSUME NEW l \in Arrays, NEW i \in 1..array[l].count,
                      NEW m \in Cells(array[l].data, i)
               PROVE  m \in Address /\ memory'[m] = <<l, i>>
    BY <1>2 DEF ArraysIntact, Cells, Span
  <2> DEFINE s == ElementStorage(l)
  <2>1. /\ home[l] \in Arenas
        /\ s \in given[home[l]]
        /\ s.ptr \in Nat /\ s.size \in Nat
        /\ m \in Address /\ m \in Nat /\ s.ptr <= m /\ m < s.ptr + s.size
        /\ m \in Span(s.ptr, s.size)
        /\ memory[m] = <<l, i>>
    BY Elements
  <2> HIDE DEF s
  <2>2. m \notin HeaderCells(a)
    BY <1>1, <2>1 DEF GivesFresh
  <2>3. s.ptr + s.size <= ptr \/ ptr + size <= s.ptr
    BY <1>1, <2>1 DEF GivesFresh
  <2>4. m \notin Span(ptr, size)
    BY <2>1, <2>3 DEF Span
  <2> QED
    BY <1>3, <2>1, <2>2, <2>4
<1> QED
  BY <1>2, <1>5, <1>6 DEF ArrayInv

(* Putting an element into an array that has room touches no other element. *)
LEMMA PutInPlaceStep ==
  ASSUME IInv, ArrayInv, NEW l \in Arrays, PutInPlace(l)
  PROVE  ArrayInv'
<1> DEFINE n == array[l].count
           data == array[l].data
<1>1. array[l] \in ArrayType
  BY DEF ArrayInv
<1>2. data \in Nat /\ n \in Nat /\ array[l].capacity \in Nat
  BY <1>1 DEF ArrayType
<1>3. n < array[l].capacity /\ UNCHANGED <<alive, released, given, home>>
  BY DEF PutInPlace, vars
<1>4. home[l] # "none"
  BY <1>2, <1>3 DEF ArrayInv
<1>5. /\ array' \in [Arrays -> ArrayType]
      /\ array'[l].data = data /\ array'[l].count = n + 1
      /\ array'[l].capacity = array[l].capacity
      /\ \A k \in Arrays \ {l} : array'[k] = array[k]
  BY <1>1, <1>2 DEF PutInPlace, ArrayType, ArrayInv
<1>6. \A k \in Arrays : array'[k].data = array[k].data /\ array'[k].capacity = array[k].capacity
  BY <1>5
<1>7. \A k \in Arrays : ElementStorage(k)' = ElementStorage(k)
  BY <1>6 DEF ElementStorage
<1>8. memory' = [m \in Address |-> IF m \in Cells(data, n + 1) THEN <<l, n + 1>> ELSE memory[m]]
  BY DEF PutInPlace
<1>9. ElementStorage(l) \in given[home[l]] /\ home[l] \in Arenas
  BY <1>4 DEF ArrayInv
<1>10. ASSUME NEW m \in Cells(data, n + 1)
       PROVE  /\ m \in Nat /\ m \in Address
              /\ array[l].capacity * sizeof_T \in Nat
              /\ data <= m
              /\ m < data + array[l].capacity * sizeof_T
  <2>1. n + 1 \in 1..array[l].capacity
    BY <1>2, <1>3
  <2>2. /\ m \in Nat
        /\ array[l].capacity * sizeof_T \in Nat
        /\ data <= m
        /\ m < data + array[l].capacity * sizeof_T
    BY <1>2, <2>1, CellsInStorage
  <2>3. ElementStorage(l).ptr + ElementStorage(l).size <= HeapSize + 1
    BY <1>9, StorageOnHeap
  <2>4. data + array[l].capacity * sizeof_T <= HeapSize + 1
    BY <2>3 DEF ElementStorage, Storage
  <2>5. m \in Address
    BY <2>2, <2>4, <1>2, ArenaAssumption DEF Address
  <2> QED
    BY <2>2, <2>5
<1>11. ArraysIntact'
  <2> SUFFICES ASSUME NEW k \in Arrays, NEW i \in 1..array'[k].count,
                      NEW m \in Cells(array[k].data, i)
               PROVE  m \in Address /\ memory'[m] = <<k, i>>
    BY <1>6 DEF ArraysIntact, Cells, Span
  <2>1. CASE k # l
    <3>1. i \in 1..array[k].count
      BY <2>1, <1>5
    <3>2. /\ home[k] \in Arenas /\ home[k] # "none"
          /\ array[k].data \in Nat /\ array[k].capacity * sizeof_T \in Nat
          /\ m \in Address /\ m \in Nat
          /\ array[k].data <= m /\ m < array[k].data + array[k].capacity * sizeof_T
          /\ memory[m] = <<k, i>>
      BY <3>1, Elements
    <3>3. \/ array[l].data + array[l].capacity * sizeof_T <= array[k].data
          \/ array[k].data + array[k].capacity * sizeof_T <= array[l].data
      BY <2>1, <3>2, <1>4 DEF ArrayInv
    <3>4. m \notin Cells(data, n + 1)
      BY <3>2, <3>3, <1>2, <1>10
    <3> QED
      BY <3>2, <3>4, <1>8
  <2>2. CASE k = l /\ i = n + 1
    BY <2>2, <1>8, <1>10
  <2>3. CASE k = l /\ i # n + 1
    <3>1. i \in 1..array[l].count
      BY <2>3, <1>2, <1>5
    <3>2. m \in Address /\ memory[m] = <<l, i>>
      BY <3>1, <2>3, Elements
    <3>3. m \notin Cells(data, n + 1)
      BY <3>1, <2>3, <1>2, CellsApart
    <3> QED
      BY <2>3, <3>2, <3>3, <1>8
  <2> QED
    BY <2>1, <2>2, <2>3
<1>12. \A k \in Arrays : home[k] = "none" => array'[k].count = 0 /\ array'[k].capacity = 0
  BY <1>4, <1>5 DEF ArrayInv
<1>13. \A k \in Arrays : home[k] # "none" =>
         /\ home[k] \in alive \ released
         /\ ElementStorage(k)' \in given[home[k]]
         /\ array'[k].count <= array'[k].capacity
  BY <1>2, <1>3, <1>5, <1>7 DEF ArrayInv
<1>14. \A j, k \in Arrays : j # k /\ home[j] # "none" /\ home[k] # "none" =>
         \/ array'[j].data + array'[j].capacity * sizeof_T <= array'[k].data
         \/ array'[k].data + array'[k].capacity * sizeof_T <= array'[j].data
  BY <1>6 DEF ArrayInv
<1>15. home' \in [Arrays -> Arenas \cup {"none"}]
  BY <1>3 DEF ArrayInv
<1> QED
  BY <1>3, <1>5, <1>11, <1>12, <1>13, <1>14, <1>15 DEF ArrayInv

(* The capacity to which an array grows has room for one more element. *)
LEMMA GrowsBeyond ==
  ASSUME NEW l \in Arrays, array[l] \in ArrayType, array[l].count = array[l].capacity
  PROVE  NewCapacity(l) \in Nat /\ array[l].count < NewCapacity(l)
<1>1. array[l].capacity \in Nat /\ array[l].count \in Nat /\ initial_capacity \in Nat \ {0, 1}
  BY ArrayAssumption DEF ArrayType
<1> DEFINE c == array[l].capacity
<1>2. c \div 2 \in Nat /\ (c # 0 => c = 1 \/ c \div 2 > 0)
  BY <1>1
<1> HIDE DEF c
<1>3. CASE c = 0
  BY <1>1, <1>2, <1>3 DEF NewCapacity, Larger, c
<1>4. CASE c # 0
  BY <1>1, <1>2, <1>4 DEF NewCapacity, Larger, c
<1> QED
  BY <1>3, <1>4

(* Growing an array takes its elements along and touches no other array. *)
LEMMA PutAndGrowStep ==
  ASSUME IInv, ArrayInv, HeaderKeeps(alignof_T), NEW l \in Arrays, NEW a \in Arenas,
         PutAndGrow(l, a)
  PROVE  ArrayInv'
<1> DEFINE n == array[l].count
           data == array[l].data
           cap == NewCapacity(l)
           size == cap * sizeof_T
<1>1. array[l] \in ArrayType
  BY DEF ArrayInv
<1>2. data \in Nat /\ n \in Nat /\ sizeof_T \in Nat \ {0}
  BY <1>1, ArrayAssumption DEF ArrayType
<1>3. /\ n = array[l].capacity
      /\ home[l] \in {a, "none"}
      /\ allocate(a, size, alignof_T)
  BY DEF PutAndGrow
<1>4. cap \in Nat /\ n < cap
  BY <1>1, <1>3, GrowsBeyond
<1> HIDE DEF cap
<1>5. size \in Nat
  BY <1>2, <1>4
<1> HIDE DEF size
<1>6. PICK ptr \in Nat \ {0} : GivesFresh(a, size, alignof_T, ptr)
  BY <1>3, <1>5, AllocateFresh
<1>7. Result(a, size) = ptr
  BY <1>6 DEF GivesFresh
<1>8. /\ array' = [array EXCEPT ![l] = [data |-> ptr, count |-> n + 1, capacity |-> cap]]
      /\ memory' = [m \in Address |->
           IF m \in HeaderCells(a) THEN Header
           ELSE IF m \in Cells(ptr, n + 1) THEN <<l, n + 1>>
           ELSE IF m \in Span(ptr, n * sizeof_T) THEN memory[data + (m - ptr)]
           ELSE memory[m]]
      /\ home' = [home EXCEPT ![l] = a]
  BY <1>7 DEF PutAndGrow, size, cap
<1>9. /\ \A c \in Arenas : given[c] \subseteq given'[c]
      /\ Storage(ptr, size, alignof_T) \in given'[a]
      /\ alive' = alive /\ released' = released
      /\ a \in alive \ released
  BY <1>3, <1>6, FreshKeeps DEF GivesFresh, allocate
<1>10. /\ array' \in [Arrays -> ArrayType]
       /\ array'[l].data = ptr /\ array'[l].count = n + 1 /\ array'[l].capacity = cap
       /\ \A k \in Arrays \ {l} : array'[k] = array[k]
  <2>1. [data |-> ptr, count |-> n + 1, capacity |-> cap] \in ArrayType
    BY <1>2, <1>4 DEF ArrayType
  <2> QED
    BY <2>1, <1>8 DEF ArrayInv
<1>11. /\ home' \in [Arrays -> Arenas \cup {"none"}]
       /\ home'[l] = a /\ a # "none"
       /\ \A k \in Arrays \ {l} : home'[k] = home[k]
  BY <1>8, ArrayAssumption DEF ArrayInv
<1>12. ASSUME NEW i \in 1..(n + 1), NEW m \in Cells(ptr, i)
       PROVE  /\ m \in Address /\ m \in Nat /\ ptr <= m /\ m < ptr + size
              /\ m \notin HeaderCells(a)
  <2>1. i \in 1..cap
    BY <1>2, <1>4
  <2>2. m \in Nat /\ ptr <= m /\ m < ptr + size /\ m \in Span(ptr, size)
    BY <1>4, <2>1, CellsInStorage DEF size
  <2>3. ptr + size <= HeapSize + 1 /\ Span(ptr, size) \cap HeaderCells(a) = {}
    BY <1>6 DEF GivesFresh
  <2>4. m \in Address
    BY <2>2, <2>3, <1>5, ArenaAssumption DEF Address
  <2> QED
    BY <2>2, <2>3, <2>4
<1>13. ASSUME NEW k \in Arrays \ {l}, home[k] # "none"
       PROVE  /\ ElementStorage(k) \in given[home[k]] /\ home[k] \in Arenas
              /\ \/ array[k].data + array[k].capacity * sizeof_T <= ptr
                 \/ ptr + size <= array[k].data
  <2>1. ElementStorage(k) \in given[home[k]] /\ home[k] \in Arenas
    BY <1>13 DEF ArrayInv
  <2>2. \/ ElementStorage(k).ptr + ElementStorage(k).size <= ptr
        \/ ptr + size <= ElementStorage(k).ptr
    BY <1>6, <2>1 DEF GivesFresh
  <2> QED
    BY <2>1, <2>2 DEF ElementStorage, Storage
<1>14. \A k \in Arrays : home'[k] = "none" => array'[k].count = 0 /\ array'[k].capacity = 0
  BY <1>10, <1>11 DEF ArrayInv
<1>15. \A k \in Arrays : home'[k] # "none" =>
         /\ home'[k] \in alive' \ released'
         /\ ElementStorage(k)' \in given'[home'[k]]
         /\ array'[k].count <= array'[k].capacity
  <2> SUFFICES ASSUME NEW k \in Arrays, home'[k] # "none"
               PROVE  /\ home'[k] \in alive \ released
                      /\ ElementStorage(k)' \in given'[home'[k]]
                      /\ array'[k].count <= array'[k].capacity
    BY <1>9
  <2>1. CASE k = l
    <3>1. ElementStorage(l)' = Storage(ptr, size, alignof_T)
      BY <1>10 DEF ElementStorage, size
    <3> QED
      BY <2>1, <3>1, <1>2, <1>4, <1>9, <1>10, <1>11
  <2>2. CASE k # l
    <3>1. array'[k] = array[k] /\ home'[k] = home[k] /\ home[k] # "none"
      BY <2>2, <1>10, <1>11
    <3>2. ElementStorage(k)' = ElementStorage(k)
      BY <3>1 DEF ElementStorage
    <3> QED
      BY <2>2, <3>1, <3>2, <1>9, <1>13 DEF ArrayInv
  <2> QED
    BY <2>1, <2>2
<1>16. \A j, k \in Arrays : j # k /\ home'[j] # "none" /\ home'[k] # "none" =>
         \/ array'[j].data + array'[j].capacity * sizeof_T <= array'[k].data
         \/ array'[k].data + array'[k].capacity * sizeof_T <= array'[j].data
  <2> SUFFICES ASSUME NEW j \in Arrays, NEW k \in Arrays,
                      j # k, home'[j] # "none", home'[k] # "none"
               PROVE  \/ array'[j].data + array'[j].capacity * sizeof_T <= array'[k].data
                      \/ array'[k].data + array'[k].capacity * sizeof_T <= array'[j].data
    OBVIOUS
  <2>1. CASE j # l /\ k # l
    BY <2>1, <1>10, <1>11 DEF ArrayInv
  <2>2. CASE j = l
    BY <2>2, <1>10, <1>11, <1>13 DEF size
  <2>3. CASE k = l
    BY <2>3, <1>10, <1>11, <1>13 DEF size
  <2> QED
    BY <2>1, <2>2, <2>3
<1>17. ArraysIntact'
  <2> SUFFICES ASSUME NEW k \in Arrays, NEW i \in 1..array'[k].count,
                      NEW m \in Cells(array'[k].data, i)
               PROVE  m \in Address /\ memory'[m] = <<k, i>>
    BY DEF ArraysIntact, Cells, Span
  <2>1. CASE k # l
    <3>1. i \in 1..array[k].count /\ m \in Cells(array[k].data, i)
      BY <2>1, <1>10
    <3>2. /\ home[k] \in Arenas /\ home[k] # "none"
          /\ array[k].data \in Nat /\ array[k].capacity * sizeof_T \in Nat
          /\ m \in Address /\ m \in Nat
          /\ array[k].data <= m /\ m < array[k].data + array[k].capacity * sizeof_T
          /\ m \in Span(ElementStorage(k).ptr, ElementStorage(k).size)
          /\ ElementStorage(k) \in given[home[k]]
          /\ memory[m] = <<k, i>>
      BY <3>1, Elements
    <3>3. m \notin HeaderCells(a)
      BY <3>2, <1>6 DEF GivesFresh
    <3>4. m < ptr \/ ptr + size <= m
      BY <2>1, <3>2, <1>5, <1>13
    <3>5. m \notin Cells(ptr, n + 1)
      <4>1. n + 1 \in 1..(n + 1)
        BY <1>2
      <4> QED
        BY <4>1, <3>2, <3>4, <1>5, <1>12
    <3>6. m \notin Span(ptr, n * sizeof_T)
      <4>1. n * sizeof_T \in Nat /\ n * sizeof_T <= size
        BY <1>2, <1>4, ElementsGrow DEF size
      <4> QED
        BY <4>1, <3>2, <3>4, <1>5 DEF Span
    <3> QED
      BY <3>2, <3>3, <3>5, <3>6, <1>8
  <2>2. CASE k = l
    <3>1. i \in 1..(n + 1) /\ m \in Cells(ptr, i)
      BY <2>2, <1>10
    <3>2. m \in Address /\ m \in Nat /\ m \notin HeaderCells(a)
      BY <3>1, <1>12
    <3>3. CASE i = n + 1
      BY <2>2, <3>1, <3>2, <3>3, <1>8
    <3>4. CASE i # n + 1
      <4>1. i \in 1..n
        BY <3>1, <3>4, <1>2
      <4>2. m \notin Cells(ptr, n + 1)
        BY <4>1, <3>1, <1>2, CellsApart
      <4>3. m \in Span(ptr, n * sizeof_T)
        BY <4>1, <3>1, <1>2, CellsInStorage
      <4>4. data + (m - ptr) \in Cells(data, i)
        <5>1. i - 1 \in Nat /\ (i - 1) * sizeof_T \in Nat
          BY <4>1, <1>2
        <5> QED
          BY <5>1, <3>1, <3>2, <1>2 DEF Cells, Span
      <4>5. memory[data + (m - ptr)] = <<l, i>>
        BY <4>1, <4>4, Elements
      <4>6. memory'[m] = memory[data + (m - ptr)]
        BY <3>2, <4>2, <4>3, <1>8
      <4> QED
        BY <2>2, <3>2, <4>5, <4>6
    <3> QED
      BY <3>3, <3>4
  <2> QED
    BY <2>1, <2>2
<1> QED
  BY <1>10, <1>11, <1>14, <1>15, <1>16, <1>17 DEF ArrayInv

(* The cells of storage in use are not among those that are deleted with blocks of other arenas. *)
LEMMA DeletedApart ==
  ASSUME IInv, NEW c \in Arenas, NEW s \in given[c], NEW m \in Span(s.ptr, s.size),
         (DOMAIN heap \ DOMAIN heap') \cap BlocksOf(c) = {}
  PROVE  m \notin DeletedCells
<1>1. /\ s.ptr \in Nat /\ s.size \in Nat
      /\ \E b \in BlocksOf(c) : /\ b \in DOMAIN heap /\ b \in Nat /\ heap[b] \in Nat
                                /\ b + sizeof_Block <= s.ptr
                                /\ s.ptr + s.size <= b + heap[b]
  BY StorageInBlock
<1>2. PICK b \in BlocksOf(c) : /\ b \in DOMAIN heap /\ b \in Nat /\ heap[b] \in Nat
                               /\ b + sizeof_Block <= s.ptr
                               /\ s.ptr + s.size <= b + heap[b]
  BY <1>1
<1> SUFFICES ASSUME NEW d \in DOMAIN heap \ DOMAIN heap', m \in Span(d, heap[d])
             PROVE  FALSE
  BY DEF DeletedCells
<1>3. d # b
  BY <1>2
<1>4. d + heap[d] <= b \/ b + heap[b] <= d
  BY <1>2, <1>3 DEF IInv, HeapInv
<1>5. d \in Nat /\ heap[d] \in Nat /\ sizeof_Block \in Nat
  BY ArenaAssumption DEF IInv, TypeOK, Address
<1> QED
  BY <1>1, <1>2, <1>4, <1>5 DEF Span

Deleted == memory' = [m \in Address |-> IF m \in DeletedCells THEN Free ELSE memory[m]]

(* Arrays in other arenas survive when an arena gives up its blocks. *)
LEMMA GiveUpStep ==
  ASSUME IInv, ArrayInv, NEW a \in Arenas, OwnsNothing(a), GiveUp({a}), Deleted
  PROVE  ArrayInv'
<1>1. /\ array' \in [Arrays -> ArrayType]
      /\ home' \in [Arrays -> Arenas \cup {"none"}]
  <2>1. NoElements \in ArrayType
    BY DEF NoElements, ArrayType
  <2> QED
    BY <2>1 DEF GiveUp, ArrayInv
<1>2. \A l \in Arrays : \/ home'[l] = "none" /\ array'[l].count = 0 /\ array'[l].capacity = 0
                        \/ home[l] # a /\ home'[l] = home[l] /\ array'[l] = array[l]
  BY DEF GiveUp, NoElements
<1>3. \A l \in Arrays : home'[l] # "none" =>
        home[l] # a /\ home'[l] = home[l] /\ array'[l] = array[l]
  BY <1>2
<1>4. \A l \in Arrays : home'[l] = "none" => array'[l].count = 0 /\ array'[l].capacity = 0
  BY <1>2 DEF ArrayInv
<1>5. \A l \in Arrays : home'[l] # "none" =>
         /\ home'[l] \in alive' \ released'
         /\ ElementStorage(l)' \in given'[home'[l]]
         /\ array'[l].count <= array'[l].capacity
  <2> SUFFICES ASSUME NEW l \in Arrays, home'[l] # "none"
               PROVE  /\ home'[l] \in alive' \ released'
                      /\ ElementStorage(l)' \in given'[home'[l]]
                      /\ array'[l].count <= array'[l].capacity
    OBVIOUS
  <2>1. home[l] # a /\ home'[l] = home[l] /\ array'[l] = array[l] /\ home[l] \in Arenas
    BY <1>3 DEF ArrayInv
  <2>2. ElementStorage(l)' = ElementStorage(l)
    BY <2>1 DEF ElementStorage
  <2> QED
    BY <2>1, <2>2 DEF ArrayInv, OwnsNothing
<1>6. \A j, k \in Arrays : j # k /\ home'[j] # "none" /\ home'[k] # "none" =>
         \/ array'[j].data + array'[j].capacity * sizeof_T <= array'[k].data
         \/ array'[k].data + array'[k].capacity * sizeof_T <= array'[j].data
  BY <1>3 DEF ArrayInv
<1>7. ArraysIntact'
  <2> SUFFICES ASSUME NEW l \in Arrays, NEW i \in 1..array'[l].count,
                      NEW m \in Cells(array'[l].data, i)
               PROVE  m \in Address /\ memory'[m] = <<l, i>>
    BY DEF ArraysIntact, Cells, Span
  <2>1. home'[l] # "none"
    BY <1>4
  <2>2. home[l] # a /\ array'[l] = array[l]
    BY <2>1, <1>3
  <2>3. i \in 1..array[l].count /\ m \in Cells(array[l].data, i)
    BY <2>2
  <2>4. /\ home[l] \in Arenas
        /\ m \in Address
        /\ m \in Span(ElementStorage(l).ptr, ElementStorage(l).size)
        /\ ElementStorage(l) \in given[home[l]]
        /\ memory[m] = <<l, i>>
    BY <2>3, Elements
  <2>5. (DOMAIN heap \ DOMAIN heap') \cap BlocksOf(home[l]) = {}
    <3>1. BlocksOf(a) \cap BlocksOf(home[l]) = {}
      BY <2>2, <2>4 DEF IInv, OwnerInv
    <3> QED
      BY <3>1 DEF OwnsNothing
  <2>6. m \notin DeletedCells
    BY <2>4, <2>5, DeletedApart
  <2> QED
    BY <2>4, <2>6 DEF Deleted
<1> QED
  BY <1>1, <1>4, <1>5, <1>6, <1>7 DEF ArrayInv

(* Arrays follow their arena when it moves. *)
LEMMA FollowStep ==
  ASSUME IInv, ArrayInv, NEW to \in Arenas, NEW from \in Arenas, TakesBlocksOf(to, from),
         Follow(to, from), Deleted
  PROVE  ArrayInv'
<1> DEFINE new(c) == IF c = from THEN to ELSE c
<1>1. /\ array' \in [Arrays -> ArrayType]
      /\ home' \in [Arrays -> Arenas \cup {"none"}]
  <2>1. NoElements \in ArrayType
    BY DEF NoElements, ArrayType
  <2> QED
    BY <2>1 DEF Follow, ArrayInv
<1>2. \A l \in Arrays : \/ home'[l] = "none" /\ array'[l].count = 0 /\ array'[l].capacity = 0
                        \/ home[l] # to /\ home'[l] = new(home[l]) /\ array'[l] = array[l]
  BY DEF Follow, NoElements
<1>3. \A l \in Arrays : home'[l] # "none" =>
        home[l] # to /\ home'[l] = new(home[l]) /\ array'[l] = array[l] /\ home[l] # "none"
  BY <1>2, ArrayAssumption
<1>4. \A l \in Arrays : home'[l] = "none" => array'[l].count = 0 /\ array'[l].capacity = 0
  BY <1>2, ArrayAssumption DEF ArrayInv
<1>5. \A l \in Arrays : home'[l] # "none" =>
         /\ home'[l] \in alive' \ released'
         /\ ElementStorage(l)' \in given'[home'[l]]
         /\ array'[l].count <= array'[l].capacity
  <2> SUFFICES ASSUME NEW l \in Arrays, home'[l] # "none"
               PROVE  /\ home'[l] \in alive' \ released'
                      /\ ElementStorage(l)' \in given'[home'[l]]
                      /\ array'[l].count <= array'[l].capacity
    OBVIOUS
  <2>1. /\ home[l] # to /\ home'[l] = new(home[l]) /\ array'[l] = array[l]
        /\ home[l] \in Arenas
    BY <1>3 DEF ArrayInv
  <2>2. /\ home[l] \in alive \ released
        /\ ElementStorage(l) \in given[home[l]]
        /\ array[l].count <= array[l].capacity
    BY <1>3 DEF ArrayInv
  <2>3. ElementStorage(l)' = ElementStorage(l)
    BY <2>1 DEF ElementStorage
  <2>4. given'[home'[l]] = given[home[l]] /\ home'[l] \in alive' \ released'
    BY <2>1, <2>2 DEF TakesBlocksOf
  <2> QED
    BY <2>1, <2>2, <2>3, <2>4
<1>6. \A j, k \in Arrays : j # k /\ home'[j] # "none" /\ home'[k] # "none" =>
         \/ array'[j].data + array'[j].capacity * sizeof_T <= array'[k].data
         \/ array'[k].data + array'[k].capacity * sizeof_T <= array'[j].data
  BY <1>3 DEF ArrayInv
<1>7. ArraysIntact'
  <2> SUFFICES ASSUME NEW l \in Arrays, NEW i \in 1..array'[l].count,
                      NEW m \in Cells(array'[l].data, i)
               PROVE  m \in Address /\ memory'[m] = <<l, i>>
    BY DEF ArraysIntact, Cells, Span
  <2>1. home'[l] # "none"
    BY <1>4
  <2>2. home[l] # to /\ array'[l] = array[l]
    BY <2>1, <1>3
  <2>3. i \in 1..array[l].count /\ m \in Cells(array[l].data, i)
    BY <2>2
  <2>4. /\ home[l] \in Arenas
        /\ m \in Address
        /\ m \in Span(ElementStorage(l).ptr, ElementStorage(l).size)
        /\ ElementStorage(l) \in given[home[l]]
        /\ memory[m] = <<l, i>>
    BY <2>3, Elements
  <2>5. (DOMAIN heap \ DOMAIN heap') \cap BlocksOf(home[l]) = {}
    <3>1. BlocksOf(to) \cap BlocksOf(home[l]) = {}
      BY <2>2, <2>4 DEF IInv, OwnerInv
    <3> QED
      BY <3>1 DEF TakesBlocksOf
  <2>6. m \notin DeletedCells
    BY <2>4, <2>5, DeletedApart
  <2> QED
    BY <2>4, <2>6 DEF Deleted
<1> QED
  BY <1>1, <1>4, <1>5, <1>6, <1>7 DEF ArrayInv

-----------------------------------------------------------------------------
(* Theorems *)

(* The invariant holds before there are arenas and arrays. *)
LEMMA InitInv == ArrayInit => IInv /\ ArrayInv
<1> SUFFICES ASSUME ArrayInit PROVE IInv /\ ArrayInv
  OBVIOUS
<1>1. initial_block_size \in Nat
  BY ArenaAssumption
<1>2. /\ alive = {} /\ released = {} /\ DOMAIN heap = {}
      /\ arena \in [Arenas -> Fields] /\ DOMAIN given = Arenas
      /\ \A a \in Arenas : arena[a] = Empty(initial_block_size) /\ given[a] = {}
  BY <1>1, EmptyFields DEF ArrayInit, Init
<1>3. \A a \in Arenas : arena[a].blocks = <<>> /\ arena[a].next_ptr = 0
  BY <1>1, <1>2, EmptyFields
<1>4. \A a \in Arenas : BlocksOf(a) = {}
  BY <1>3 DEF BlocksOf
<1>5. TypeOK
  BY <1>2 DEF TypeOK, Fields
<1>6. HeapInv
  BY <1>2 DEF HeapInv
<1>7. OwnerInv
  BY <1>2, <1>3, <1>4 DEF OwnerInv
<1>8. AliveInv /\ FreeInv /\ StorageIsLive
  BY <1>2, <1>3 DEF AliveInv, FreeInv, StorageIsLive
<1>9. /\ array \in [Arrays -> ArrayType]
      /\ home \in [Arrays -> Arenas \cup {"none"}]
      /\ \A l \in Arrays : array[l].count = 0 /\ array[l].capacity = 0 /\ home[l] = "none"
  BY DEF ArrayInit, NoElements, ArrayType
<1>10. ArrayInv
  BY <1>9 DEF ArrayInv, ArraysIntact
<1> QED
  BY <1>2, <1>5, <1>6, <1>7, <1>8, <1>10 DEF IInv

(* Every step preserves the invariant. *)
LEMMA NextInv ==
  ASSUME HeaderKeepsAlignment, IInv, ArrayInv, [ArrayNext]_<<vars, arrayVars>>
  PROVE  IInv' /\ ArrayInv'
<1>1. ASSUME NEW a \in Arenas, NEW size \in Sizes, NEW alignment \in Alignments,
             create(a, size, alignment)
      PROVE  IInv' /\ ArrayInv'
  <2>1. size \in Nat /\ HeaderKeeps(alignment)
    BY ArenaAssumption DEF HeaderKeepsAlignment
  <2>2. IInv'
    BY <1>1, <2>1, AllocateStep DEF create
  <2> QED
    BY <1>1, <2>1, <2>2, CreateKeepsArrays
<1>2. ASSUME NEW l \in Arrays, PutInPlace(l)
      PROVE  IInv' /\ ArrayInv'
  <2>1. UNCHANGED vars
    BY <1>2 DEF PutInPlace
  <2>2. IInv'
    BY <2>1, VarsKeepInv
  <2> QED
    BY <1>2, <2>2, PutInPlaceStep
<1>3. ASSUME NEW l \in Arrays, NEW a \in Arenas, PutAndGrow(l, a)
      PROVE  IInv' /\ ArrayInv'
  <2>1. HeaderKeeps(alignof_T)
    BY DEF HeaderKeepsAlignment
  <2>2. array[l] \in ArrayType /\ array[l].count = array[l].capacity
    BY <1>3 DEF ArrayInv, PutAndGrow
  <2>3. NewCapacity(l) * sizeof_T \in Nat
    BY <2>2, GrowsBeyond, ArrayAssumption
  <2>4. allocate(a, NewCapacity(l) * sizeof_T, alignof_T)
    BY <1>3 DEF PutAndGrow
  <2>5. IInv'
    BY <2>1, <2>3, <2>4, AllocateStep
  <2> QED
    BY <1>3, <2>1, <2>5, PutAndGrowStep
<1>4. CASE ArrayLifetimeStep
  <2>1. Deleted
    BY <1>4 DEF ArrayLifetimeStep, Deleted
  <2>2. ASSUME NEW a \in Arenas, NEW n \in FirstBlockSizes, Construct(a, n),
               UNCHANGED <<array, home>>
        PROVE  OwnsNothing(a) /\ GiveUp({a})
    <3>1. \A l \in Arrays : home[l] # a
      BY <2>2, ArrayAssumption DEF ArrayInv, Construct
    <3>2. GiveUp({a})
      BY <2>2, <3>1 DEF GiveUp, ArrayInv
    <3> QED
      BY <2>2, <3>2, LifetimeShape
  <2>3. ASSUME NEW a \in Arenas, release(a) \/ Destroy(a)
        PROVE  OwnsNothing(a)
    <3>1. initial_block_size \in FirstBlockSizes
      BY DEF FirstBlockSizes
    <3> QED
      BY <2>3, <3>1, LifetimeShape
  <2>4. \/ \E a \in Arenas : OwnsNothing(a) /\ GiveUp({a})
        \/ \E to, from \in Arenas : TakesBlocksOf(to, from) /\ Follow(to, from)
    BY <1>4, <2>2, <2>3, MoveShape DEF ArrayLifetimeStep
  <2> QED
    BY <2>1, <2>4, OwnsNothingStep, GiveUpStep, TakesBlocksStep, FollowStep
<1>5. CASE UNCHANGED <<vars, arrayVars>>
  <2>1. IInv'
    BY <1>5, VarsKeepInv
  <2>2. ArrayInv'
    BY <1>5 DEF vars, arrayVars, ArrayInv, ArraysIntact, ElementStorage, Cells, Span
  <2> QED
    BY <2>1, <2>2
<1> QED
  BY <1>1, <1>2, <1>3, <1>4, <1>5 DEF ArrayNext

(***************************************************************************)
(* Every state an arena and its arrays can reach satisfies the invariant,  *)
(* whatever is allocated, released, destroyed, moved and assigned.         *)
(***************************************************************************)
THEOREM Inductive ==
  ASSUME HeaderKeepsAlignment
  PROVE  ArraySpec => [](IInv /\ ArrayInv)
<1>1. ArrayInit => IInv /\ ArrayInv
  BY InitInv
<1>2. IInv /\ ArrayInv /\ [ArrayNext]_<<vars, arrayVars>> => (IInv /\ ArrayInv)'
  BY NextInv
<1> QED
  BY <1>1, <1>2, PTL DEF ArraySpec

(* The fields of an arena and the storage it gave out have their types. *)
THEOREM TypeCorrect ==
  ASSUME HeaderKeepsAlignment
  PROVE  ArraySpec => []TypeOK
<1>1. IInv /\ ArrayInv => TypeOK
  BY DEF IInv
<1> QED
  BY <1>1, Inductive, PTL

(***************************************************************************)
(* Storage that allocate gave out stays in a block its arena owns, behind  *)
(* the header of the block.                                                *)
(***************************************************************************)
THEOREM StorageStaysLive ==
  ASSUME HeaderKeepsAlignment
  PROVE  ArraySpec => []StorageIsLive
<1>1. IInv /\ ArrayInv => StorageIsLive
  BY DEF IInv
<1> QED
  BY <1>1, Inductive, PTL

(* A list without repetitions has as many elements as it is long. *)
LEMMA BlocksCounted ==
  ASSUME IInv, NEW a \in Arenas
  PROVE  Len(arena[a].blocks) = Cardinality(BlocksOf(a))
<1> DEFINE n == Len(arena[a].blocks)
           f == [i \in 1..n |-> arena[a].blocks[i]]
<1>1. n \in Nat
  <2>1. arena[a] \in Fields
    BY DEF IInv, TypeOK, Fields
  <2> QED
    BY <2>1 DEF Fields
<1>2. f \in Bijection(1..n, BlocksOf(a))
  <2>1. f \in [1..n -> BlocksOf(a)]
    BY DEF BlocksOf
  <2>2. \A i, j \in 1..n : f[i] = f[j] => i = j
    BY DEF IInv, OwnerInv
  <2>3. \A b \in BlocksOf(a) : \E i \in 1..n : f[i] = b
    BY DEF BlocksOf
  <2> HIDE DEF f, n
  <2> QED
    BY <2>1, <2>2, <2>3 DEF Bijection, Injection, Surjection, IsInjective
<1>3. ExistsBijection(1..n, BlocksOf(a))
  BY <1>2 DEF ExistsBijection
<1> QED
  BY <1>1, <1>3, FS_CountingElements

(***************************************************************************)
(* What operator new gave is in the list of one arena, once: release and   *)
(* the destructor delete every block once, and none is lost.               *)
(***************************************************************************)
THEOREM BlocksHaveOneOwner ==
  ASSUME HeaderKeepsAlignment
  PROVE  ArraySpec => []BlocksOwnedOnce
<1>1. IInv /\ ArrayInv => BlocksOwnedOnce
  <2> SUFFICES ASSUME IInv PROVE BlocksOwnedOnce
    OBVIOUS
  <2>1. DOMAIN heap = UNION {BlocksOf(a) : a \in Arenas}
    <3>1. \A b : b \in DOMAIN heap <=> \E a \in Arenas : b \in BlocksOf(a)
      BY DEF IInv, OwnerInv
    <3>2. \A b : b \in UNION {BlocksOf(a) : a \in Arenas} <=> \E a \in Arenas : b \in BlocksOf(a)
      OBVIOUS
    <3> QED
      BY <3>1, <3>2
  <2>2. \A a \in Arenas : Len(arena[a].blocks) = Cardinality(BlocksOf(a))
    BY BlocksCounted
  <2>3. \A a, b \in Arenas : a # b => BlocksOf(a) \cap BlocksOf(b) = {}
    BY DEF IInv, OwnerInv
  <2> QED
    BY <2>1, <2>2, <2>3 DEF BlocksOwnedOnce
<1> QED
  BY <1>1, Inductive, PTL

(***************************************************************************)
(* An array holds the elements that were put into it, in order, however    *)
(* often it grew and whatever was created beside it or moved since.        *)
(***************************************************************************)
THEOREM ArraysStayIntact ==
  ASSUME HeaderKeepsAlignment
  PROVE  ArraySpec => []ArraysIntact
<1>1. IInv /\ ArrayInv => ArraysIntact
  BY DEF ArrayInv
<1> QED
  BY <1>1, Inductive, PTL

(* An allocation is one of the allocator's. *)
LEMMA AllocateImplements ==
  ASSUME IInv, NEW a \in Arenas, NEW size \in Nat, NEW alignment, HeaderKeeps(alignment),
         allocate(a, size, alignment)
  PROVE  Contract!Next
<1>1. PICK ptr \in Nat \ {0} : GivesFresh(a, size, alignment, ptr)
  BY AllocateFresh
<1> DEFINE new == Storage(ptr, size, alignment)
<1>2. /\ new \in Contract!StorageType
      /\ new.ptr = ptr /\ new.size = size /\ new.alignment = alignment
  BY DEF Storage, Contract!StorageType, HeaderKeeps
<1>3. new \in given'[a] /\ given' = [given EXCEPT ![a] = @ \cup {new}]
  BY <1>1, FreshKeeps DEF GivesFresh
<1>4. new.ptr % new.alignment = 0
  BY <1>1, <1>2 DEF GivesFresh
<1> HIDE DEF new
<1>5. \A c \in Arenas : \A other \in given[c] : ~Contract!Overlap(new, other)
  <2> SUFFICES ASSUME NEW c \in Arenas, NEW other \in given[c], Contract!Overlap(new, other)
               PROVE  FALSE
    OBVIOUS
  <2>1. other.ptr + other.size <= ptr \/ ptr + size <= other.ptr
    BY <1>1 DEF GivesFresh
  <2>2. other.ptr \in Nat /\ other.size \in Nat
    BY StorageInBlock
  <2> QED
    BY <2>1, <2>2, <1>2 DEF Contract!Overlap
<1>6. Contract!Allocate(a)
  BY <1>2, <1>3, <1>4, <1>5 DEF Contract!Allocate
<1> QED
  BY <1>6 DEF Contract!Next

(***************************************************************************)
(* The arena with the arrays in it implements the allocator: an allocation *)
(* is aligned, not null and apart from all storage in use, and the storage *)
(* stays until the arena gives back everything; a move takes it along.     *)
(***************************************************************************)
THEOREM Refinement ==
  ASSUME HeaderKeepsAlignment
  PROVE  ArraySpec => ImplementsAllocator
<1>1. ArrayInit => Contract!Init
  BY DEF ArrayInit, Init, Contract!Init
<1>2. IInv /\ ArrayInv /\ [ArrayNext]_<<vars, arrayVars>> => [Contract!Next]_given
  <2> SUFFICES ASSUME IInv, ArrayInv, [ArrayNext]_<<vars, arrayVars>>
               PROVE  [Contract!Next]_given
    OBVIOUS
  <2>1. ASSUME NEW a \in Arenas, NEW size \in Sizes, NEW alignment \in Alignments,
               create(a, size, alignment)
        PROVE  Contract!Next
    <3>1. size \in Nat /\ HeaderKeeps(alignment)
      BY ArenaAssumption DEF HeaderKeepsAlignment
    <3> QED
      BY <2>1, <3>1, AllocateImplements DEF create
  <2>2. ASSUME NEW l \in Arrays, NEW a \in Arenas, PutAndGrow(l, a)
        PROVE  Contract!Next
    <3>1. array[l] \in ArrayType /\ array[l].count = array[l].capacity
      BY <2>2 DEF ArrayInv, PutAndGrow
    <3>2. NewCapacity(l) * sizeof_T \in Nat /\ HeaderKeeps(alignof_T)
      BY <3>1, GrowsBeyond, ArrayAssumption DEF HeaderKeepsAlignment
    <3>3. allocate(a, NewCapacity(l) * sizeof_T, alignof_T)
      BY <2>2 DEF PutAndGrow
    <3> QED
      BY <3>2, <3>3, AllocateImplements
  <2>3. CASE ArrayLifetimeStep
    <3>1. ASSUME NEW a \in Arenas, NEW n \in FirstBlockSizes, Construct(a, n)
          PROVE  UNCHANGED given
      BY <3>1 DEF Construct
    <3>2. ASSUME NEW a \in Arenas, release(a) \/ Destroy(a)
          PROVE  Contract!Next
      BY <3>2 DEF release, Destroy, Contract!Deallocate, Contract!Next
    <3>3. ASSUME NEW to \in Arenas, NEW from \in Arenas,
                 MoveConstruct(to, from) \/ MoveAssign(to, from)
          PROVE  Contract!Next
      <4>1. to # from /\ given' = [given EXCEPT ![to] = given[from], ![from] = {}]
        BY <3>3 DEF MoveConstruct, MoveAssign, TakeOver
      <4>2. Contract!Move(to, from)
        BY <4>1 DEF Contract!Move
      <4> QED
        BY <4>2 DEF Contract!Next
    <3> QED
      BY <2>3, <3>1, <3>2, <3>3 DEF ArrayLifetimeStep
  <2>4. CASE \E l \in Arrays : PutInPlace(l)
    BY <2>4 DEF PutInPlace, vars
  <2>5. CASE UNCHANGED <<vars, arrayVars>>
    BY <2>5 DEF vars
  <2> QED
    BY <2>1, <2>2, <2>3, <2>4, <2>5 DEF ArrayNext
<1> QED
  BY <1>1, <1>2, Inductive, PTL DEF ArraySpec, ImplementsAllocator, Contract!Spec
=============================================================================
