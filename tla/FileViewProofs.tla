--------------------------- MODULE FileViewProofs ---------------------------
(***************************************************************************)
(* Proofs about file views, for any number of views and handles: no        *)
(* assertion of destroy fails, from returns the error of the call that     *)
(* failed, views show all of the file, and views implement Ownership.      *)
(*                                                                         *)
(* What makes this inductive is that what the system has given out is      *)
(* named by the fields of exactly one object, f included, and what f holds *)
(* at each call that FileView::from makes.                                 *)
(***************************************************************************)
EXTENDS FileView, TLAPS

Impl == [file : 0..MaxHandle, size : 0..MaxSize, mapping : 0..MaxHandle, addr : 0..MaxHandle]

HandlesOf(s) == {views[s].file, views[s].mapping} \ {0}

(* What the fields of a view name is open, and munmap is given the size that was mapped. *)
Holds(s) ==
  /\ HandlesOf(s) \subseteq DOMAIN handles
  /\ views[s].file = views[s].mapping => views[s].file = 0
  /\ views[s].addr # 0 =>
       /\ views[s].addr \in DOMAIN mappings
       /\ views[s].size > 0
       /\ platform = "posix" => mappings[views[s].addr].size = views[s].size

NamedInv == \A s \in Slots : Holds(s)

(* No two objects name the same handle or mapping. *)
ApartInv ==
  \A s, t \in Slots : s # t =>
    /\ HandlesOf(s) \cap HandlesOf(t) = {}
    /\ views[s].addr = views[t].addr => views[s].addr = 0

(* Everything the system has given out is named by an object. *)
NothingLost ==
  /\ \A h \in DOMAIN handles : \E s \in Slots : h \in HandlesOf(s)
  /\ \A a \in DOMAIN mappings : \E s \in Slots : views[s].addr = a

(* Objects that do not exist name nothing. *)
DeadInv == \A s \in Slots \ alive : views[s] = NoImpl

(* What f holds when from makes the call that is next. *)
CallInv ==
  LET f == views["f"] IN
  /\ call.at = "idle" => call = Idle /\ "f" \notin alive
  /\ call.at # "idle" => "f" \in alive /\ call.view \in Views \ alive
  /\ call.at = "open" => f = NoImpl
  /\ call.at \in {"size", "mapping", "map", "return"} => f.file # 0
  /\ call.at \in {"size", "mapping"} => f.mapping = 0
  /\ call.at \in {"size", "mapping", "map"} => f.addr = 0
  /\ call.at \in {"mapping", "map"} => f.size > 0
  /\ call.at = "map" /\ platform = "windows" => f.mapping # 0 /\ handles[f.mapping] > 0
  /\ call.at = "return" => (f.size > 0 => f.addr # 0)

(* A view of a file with content has a mapping. *)
MappedInv == \A v \in Views : views[v].file # 0 /\ views[v].size > 0 => views[v].addr # 0

(* As long as nothing changes the file, all sizes that were asked for are its size. *)
SizeInv ==
  file.version = 0 =>
    \A s \in Slots :
      /\ views[s].file # 0 /\ (s = "f" => call.at \notin {"size", "fail"}) =>
           views[s].size = file.size
      /\ views[s].mapping # 0 => handles[views[s].mapping] = file.size
      /\ views[s].addr # 0 => mappings[views[s].addr].size = file.size

(* The error of the call that failed is still there when from reads it. *)
ErrorInv ==
  /\ call.at = "fail" => lastError = cause
  /\ cause = "EINVAL" => file.version > 0
  /\ call = Idle /\ result \in Error => result = cause

(* Each resource has one owner. *)
OwnerInv == NamedInv /\ ApartInv /\ NothingLost

IInv ==
  /\ TypeOK
  /\ NeverAborts
  /\ OwnerInv
  /\ DeadInv
  /\ CallInv
  /\ MappedInv
  /\ SizeInv
  /\ ErrorInv

-----------------------------------------------------------------------------
(* Objects and the system *)

(* f is no view of a client. *)
LEMMA SlotF == "f" \in Slots /\ "f" \notin Views /\ Views \subseteq Slots
BY FileViewAssumption DEF Slots

(* The fields of an object without a file. *)
LEMMA NoImplFields ==
  /\ NoImpl \in Impl
  /\ NoImpl.file = 0 /\ NoImpl.size = 0 /\ NoImpl.mapping = 0 /\ NoImpl.addr = 0
BY FileViewAssumption DEF NoImpl, Impl

(* What the type invariant says of the objects and the system. *)
LEMMA Types ==
  ASSUME TypeOK
  PROVE  /\ views \in [Slots -> Impl]
         /\ \A s \in Slots : /\ views[s].file \in 0..MaxHandle
                             /\ views[s].mapping \in 0..MaxHandle
                             /\ views[s].addr \in 0..MaxHandle
                             /\ views[s].size \in 0..MaxSize /\ views[s].size \in Nat
         /\ DOMAIN handles \subseteq Handle
         /\ \A h \in DOMAIN handles : handles[h] \in 0..MaxSize
         /\ DOMAIN mappings \subseteq Handle
         /\ \A a \in DOMAIN mappings : a # 0 /\ mappings[a].size \in 1..MaxSize
         /\ file.size \in 0..MaxSize /\ file.size \in Nat
         /\ file.version \in 0..MaxVersion
         /\ 0 \notin Handle /\ Handle \subseteq 0..MaxHandle
<1>1. views \in [Slots -> Impl]
  BY DEF TypeOK, Impl
<1>2. \A s \in Slots : /\ views[s].file \in 0..MaxHandle
                       /\ views[s].mapping \in 0..MaxHandle
                       /\ views[s].addr \in 0..MaxHandle
                       /\ views[s].size \in 0..MaxSize /\ views[s].size \in Nat
  BY <1>1, FileViewAssumption DEF Impl
<1>3. 0 \notin Handle /\ Handle \subseteq 0..MaxHandle
  BY FileViewAssumption DEF Handle
<1>4. file.size \in 0..MaxSize /\ file.size \in Nat /\ file.version \in 0..MaxVersion
  BY FileViewAssumption DEF TypeOK
<1> QED
  BY <1>1, <1>2, <1>3, <1>4 DEF TypeOK

(***************************************************************************)
(* What destroy does when the fields of d name what is open: all of it is  *)
(* given back and no assertion fails.                                      *)
(***************************************************************************)
LEMMA DestroyEffect ==
  ASSUME TypeOK, OwnerInv, NEW d \in Slots, destroy(views[d])
  PROVE  /\ DOMAIN handles' = DOMAIN handles \ HandlesOf(d)
         /\ \A h \in DOMAIN handles' : handles'[h] = handles[h]
         /\ DOMAIN mappings' = DOMAIN mappings \ {views[d].addr}
         /\ \A a \in DOMAIN mappings' : mappings'[a] = mappings[a]
         /\ aborted' = FALSE
         /\ lastError' \in Error \cup {"none"}
<1>1. Holds(d)
  BY DEF OwnerInv, NamedInv
<1>2. /\ views[d].size \in Nat
      /\ 0 \notin DOMAIN handles /\ 0 \notin DOMAIN mappings
  BY Types
<1>3. views[d].addr \in DOMAIN mappings => Unmapped(views[d]) = {views[d].addr}
  <2> SUFFICES ASSUME views[d].addr \in DOMAIN mappings
               PROVE  platform = "posix" => mappings[views[d].addr].size <= views[d].size
    BY DEF Unmapped
  <2> QED
    BY <1>1, <1>2 DEF Holds
<1>4. DOMAIN mappings \ Unmapped(views[d]) = DOMAIN mappings \ {views[d].addr}
  BY <1>3 DEF Unmapped
<1>5. /\ DOMAIN mappings' = DOMAIN mappings \ {views[d].addr}
      /\ \A a \in DOMAIN mappings' : mappings'[a] = mappings[a]
  BY <1>4 DEF destroy, Without
<1>6. DOMAIN handles \ {views[d].file, views[d].mapping} = DOMAIN handles \ HandlesOf(d)
  BY <1>2 DEF HandlesOf
<1>7. /\ DOMAIN handles' = DOMAIN handles \ HandlesOf(d)
      /\ \A h \in DOMAIN handles' : handles'[h] = handles[h]
  BY <1>6 DEF destroy, Without
<1>8. ~Refused(views[d])
  BY <1>1, <1>2 DEF Refused, Holds, HandlesOf
<1>9. aborted' = FALSE
  BY <1>8 DEF destroy
<1>10. lastError' \in Error \cup {"none"}
  BY DEF destroy, TypeOK, Error
<1> QED
  BY <1>5, <1>7, <1>9, <1>10

(* What is given back when d is destroyed: d names nothing afterwards and all other objects are kept. *)
GivesBack(d) ==
  /\ views' \in [Slots -> Impl]
  /\ views'[d] = NoImpl
  /\ \A s \in Slots \ {d} : views'[s] = views[s]
  /\ DOMAIN handles' = DOMAIN handles \ HandlesOf(d)
  /\ \A h \in DOMAIN handles' : handles'[h] = handles[h]
  /\ DOMAIN mappings' = DOMAIN mappings \ {views[d].addr}
  /\ \A a \in DOMAIN mappings' : mappings'[a] = mappings[a]
  /\ platform' = platform

(* Destroying an object keeps the ownership of the others. *)
LEMMA GivesBackOwner ==
  ASSUME TypeOK, OwnerInv, NEW d \in Slots, GivesBack(d)
  PROVE  OwnerInv'
<1> USE DEF GivesBack
<1>1. HandlesOf(d)' = {} /\ views'[d].addr = 0 /\ views'[d].file = 0
  BY NoImplFields DEF HandlesOf
<1>2. \A s \in Slots \ {d} : HandlesOf(s)' = HandlesOf(s)
  BY DEF HandlesOf
<1>3. NamedInv'
  <2> SUFFICES ASSUME NEW s \in Slots PROVE Holds(s)'
    BY DEF NamedInv
  <2>1. CASE s = d
    BY <2>1, <1>1, NoImplFields DEF Holds
  <2>2. CASE s # d
    <3>1. Holds(s) /\ HandlesOf(s) \cap HandlesOf(d) = {}
          /\ (views[s].addr = views[d].addr => views[s].addr = 0)
      BY <2>2 DEF OwnerInv, NamedInv, ApartInv
    <3> QED
      BY <2>2, <3>1, <1>2 DEF Holds
  <2> QED
    BY <2>1, <2>2
<1>4. ApartInv'
  BY <1>1, <1>2 DEF OwnerInv, ApartInv
<1>5. NothingLost'
  BY <1>2 DEF OwnerInv, NothingLost
<1> QED
  BY <1>3, <1>4, <1>5 DEF OwnerInv

(* What a move does: the target has given back what it named and gets what the source named. *)
Passes(to, from) ==
  /\ to # from
  /\ views' \in [Slots -> Impl]
  /\ views'[to] = views[from]
  /\ views'[from] = NoImpl
  /\ \A s \in Slots \ {to, from} : views'[s] = views[s]
  /\ DOMAIN handles' = DOMAIN handles \ HandlesOf(to)
  /\ \A h \in DOMAIN handles' : handles'[h] = handles[h]
  /\ DOMAIN mappings' = DOMAIN mappings \ {views[to].addr}
  /\ \A a \in DOMAIN mappings' : mappings'[a] = mappings[a]
  /\ platform' = platform

(* A move hands the ownership over. *)
LEMMA PassesOwner ==
  ASSUME TypeOK, OwnerInv, NEW to \in Slots, NEW from \in Slots, Passes(to, from)
  PROVE  OwnerInv'
<1> USE DEF Passes
<1>1. HandlesOf(from)' = {} /\ views'[from].addr = 0 /\ views'[from].file = 0
  BY NoImplFields DEF HandlesOf
<1>2. HandlesOf(to)' = HandlesOf(from) /\ \A s \in Slots \ {to, from} : HandlesOf(s)' = HandlesOf(s)
  BY DEF HandlesOf
<1>3. \A s, t \in Slots : s # t =>
        /\ HandlesOf(s) \cap HandlesOf(t) = {}
        /\ views[s].addr = views[t].addr => views[s].addr = 0
  BY DEF OwnerInv, ApartInv
<1>4. NamedInv'
  <2> SUFFICES ASSUME NEW s \in Slots PROVE Holds(s)'
    BY DEF NamedInv
  <2>1. CASE s = from
    BY <2>1, <1>1 DEF Holds
  <2>2. CASE s # from
    <3>1. PICK t \in Slots : t # to /\ views'[s] = views[t] /\ HandlesOf(s)' = HandlesOf(t)
      BY <2>2, <1>2
    <3>2. Holds(t)
      BY DEF OwnerInv, NamedInv
    <3> QED
      BY <3>1, <3>2, <1>3 DEF Holds
  <2> QED
    BY <2>1, <2>2
<1>5. ApartInv'
  BY <1>1, <1>2, <1>3 DEF ApartInv
<1>6. NothingLost'
  <2>1. \A h \in DOMAIN handles' : \E s \in Slots : h \in HandlesOf(s)'
    BY <1>2 DEF OwnerInv, NothingLost
  <2>2. \A a \in DOMAIN mappings' : \E s \in Slots : views'[s].addr = a
    BY DEF OwnerInv, NothingLost
  <2> QED
    BY <2>1, <2>2 DEF NothingLost
<1> QED
  BY <1>4, <1>5, <1>6 DEF OwnerInv

(* The address a view names, if it does. *)
AddressOf(s) == {views[s].addr} \ {0}

(* The system gives f handles and addresses that were free, while clients' views stay as they are. *)
Takes(H, A) ==
  /\ \A v \in Views : views'[v] = views[v]
  /\ DOMAIN handles' = DOMAIN handles \cup H
  /\ DOMAIN mappings' = DOMAIN mappings \cup A
  /\ HandlesOf("f")' = HandlesOf("f") \cup H
  /\ AddressOf("f")' = AddressOf("f") \cup A
  /\ H \cap DOMAIN handles = {}
  /\ A \cap DOMAIN mappings = {}

(* A step that leaves the views and the domains alone takes nothing. *)
LEMMA TakesNothing ==
  ASSUME views' = views, DOMAIN handles' = DOMAIN handles, DOMAIN mappings' = DOMAIN mappings
  PROVE  \E H, A : Takes(H, A)
<1>1. Takes({}, {})
  BY DEF Takes, HandlesOf, AddressOf
<1> QED
  BY <1>1

(* Ownership is about the objects and the system alone. *)
LEMMA OwnerSame ==
  ASSUME OwnerInv, UNCHANGED <<platform, views, handles, mappings>>
  PROVE  OwnerInv'
<1>1. \A s \in Slots : HandlesOf(s)' = HandlesOf(s)
  BY DEF HandlesOf
<1> QED
  BY <1>1 DEF OwnerInv, NamedInv, ApartInv, NothingLost, Holds

(* The system gives what it did not give out before. *)
LEMMA NewIsFree ==
  /\ DOMAIN handles \subseteq Handle /\ DOMAIN handles # Handle =>
       NewHandle \in Handle /\ NewHandle \notin DOMAIN handles
  /\ DOMAIN mappings \subseteq Handle /\ DOMAIN mappings # Handle =>
       NewAddress \in Handle /\ NewAddress \notin DOMAIN mappings
<1>1. ASSUME DOMAIN handles \subseteq Handle, DOMAIN handles # Handle
      PROVE  NewHandle \in Handle /\ NewHandle \notin DOMAIN handles
  <2>1. \E h \in Handle : h \notin DOMAIN handles
    BY <1>1
  <2> QED
    BY <2>1 DEF NewHandle
<1>2. ASSUME DOMAIN mappings \subseteq Handle, DOMAIN mappings # Handle
      PROVE  NewAddress \in Handle /\ NewAddress \notin DOMAIN mappings
  <2>1. \E a \in Handle : a \notin DOMAIN mappings
    BY <1>2
  <2> QED
    BY <2>1 DEF NewAddress
<1> QED
  BY <1>1, <1>2

-----------------------------------------------------------------------------
(* The steps of FileView::from *)

(* A call that fails leaves everything for from to give back. *)
LEMMA CallFailsStep ==
  ASSUME IInv, call.at # "idle", NEW error \in Error, error = "EINVAL" => file.version > 0,
         CallFails(error)
  PROVE  IInv' /\ \E H, A : Takes(H, A)
<1>1. /\ UNCHANGED <<platform, views, alive, result, aborted, file, handles, mappings>>
      /\ lastError' = error /\ cause' = error
      /\ call' = [call EXCEPT !.at = "fail"]
  BY DEF CallFails, kernel
<1>2. call'.at = "fail" /\ call'.view = call.view
      /\ call' \in [at : {"idle", "open", "size", "mapping", "map", "return", "fail"}, view : Slots]
  BY <1>1 DEF IInv, TypeOK
<1>3. TypeOK'
  BY <1>1, <1>2 DEF IInv, TypeOK
<1>4. OwnerInv'
  BY <1>1, OwnerSame DEF IInv
<1>5. DeadInv' /\ MappedInv' /\ NeverAborts'
  BY <1>1 DEF IInv, DeadInv, MappedInv, NeverAborts
<1>6. CallInv'
  BY <1>1, <1>2 DEF IInv, CallInv
<1>7. SizeInv'
  <2> SUFFICES ASSUME file.version = 0, NEW s \in Slots
               PROVE  /\ views[s].file # 0 /\ s # "f" => views[s].size = file.size
                      /\ views[s].mapping # 0 => handles[views[s].mapping] = file.size
                      /\ views[s].addr # 0 => mappings[views[s].addr].size = file.size
    BY <1>1, <1>2 DEF SizeInv
  <2> QED
    BY DEF IInv, SizeInv
<1>8. ErrorInv'
  BY <1>1, <1>2 DEF ErrorInv, Idle
<1>9. \E H, A : Takes(H, A)
  BY <1>1, TakesNothing
<1> QED
  BY <1>9, <1>3, <1>4, <1>5, <1>6, <1>7, <1>8 DEF IInv

(* from begins. *)
LEMMA BeginStep ==
  ASSUME IInv, NEW v \in Views, Begin(v)
  PROVE  IInv' /\ \E H, A : Takes(H, A)
<1>1. /\ UNCHANGED <<platform, result, aborted, file, handles, mappings, lastError, cause>>
      /\ alive' = alive \cup {"f"} /\ call' = [at |-> "open", view |-> v]
      /\ v \notin alive /\ call.at = "idle" /\ "f" \notin alive
  BY DEF Begin, kernel, IInv, CallInv, Idle
<1>2. views["f"] = NoImpl
  BY <1>1, SlotF DEF IInv, DeadInv
<1>3. views' = views
  BY <1>2, Types DEF Begin, IInv
<1>4. call'.at = "open" /\ call'.view = v /\ v # "f"
  BY <1>1, SlotF
<1>5. TypeOK'
  BY <1>1, <1>3, SlotF DEF IInv, TypeOK
<1>6. OwnerInv'
  BY <1>1, <1>3, OwnerSame DEF IInv
<1>7. DeadInv' /\ MappedInv' /\ NeverAborts'
  BY <1>1, <1>3 DEF IInv, DeadInv, MappedInv, NeverAborts
<1>8. CallInv'
  BY <1>1, <1>2, <1>3, <1>4 DEF CallInv
<1>9. SizeInv'
  BY <1>1, <1>2, <1>3, <1>4, NoImplFields DEF IInv, SizeInv
<1>10. ErrorInv'
  BY <1>1, <1>4 DEF IInv, ErrorInv, Idle
<1>11. \E H, A : Takes(H, A)
  BY <1>1, <1>3, TakesNothing
<1> QED
  BY <1>11, <1>5, <1>6, <1>7, <1>8, <1>9, <1>10 DEF IInv

(* What a call that succeeds changes besides the system. *)
LEMMA SucceedsEffect ==
  ASSUME IInv, NEW f \in Impl, NEW next, CallSucceeds(f, next),
         call.at # "idle", next \in {"size", "mapping", "map", "return"}
  PROVE  /\ UNCHANGED <<platform, alive, result, aborted, file, lastError, cause>>
         /\ views' \in [Slots -> Impl] /\ views'["f"] = f
         /\ \A s \in Slots \ {"f"} : views'[s] = views[s]
         /\ \A s \in Slots \ {"f"} : HandlesOf(s)' = HandlesOf(s)
         /\ call'.at = next /\ call'.view = call.view
         /\ call' \in [at : {"idle", "open", "size", "mapping", "map", "return", "fail"},
                       view : Slots]
         /\ call' # Idle
         /\ DeadInv' /\ MappedInv' /\ NeverAborts' /\ ErrorInv'
<1>1. /\ UNCHANGED <<platform, alive, result, aborted, file, lastError, cause>>
      /\ views' = [views EXCEPT !["f"] = f]
      /\ call' = [call EXCEPT !.at = next]
  BY DEF CallSucceeds
<1>2. /\ views' \in [Slots -> Impl] /\ views'["f"] = f
      /\ \A s \in Slots \ {"f"} : views'[s] = views[s]
  BY <1>1, SlotF, Types DEF IInv
<1>3. \A s \in Slots \ {"f"} : HandlesOf(s)' = HandlesOf(s)
  BY <1>2 DEF HandlesOf
<1>4. /\ call'.at = next /\ call'.view = call.view
      /\ call' \in [at : {"idle", "open", "size", "mapping", "map", "return", "fail"},
                    view : Slots]
  BY <1>1 DEF IInv, TypeOK
<1>5. call' # Idle
  BY <1>4 DEF Idle
<1>6. DeadInv' /\ MappedInv' /\ NeverAborts'
  <2>1. "f" \in alive
    BY DEF IInv, CallInv
  <2> QED
    BY <2>1, <1>1, <1>2, SlotF DEF IInv, DeadInv, MappedInv, NeverAborts
<1>7. ErrorInv'
  BY <1>1, <1>4, <1>5 DEF IInv, ErrorInv
<1> QED
  BY <1>1, <1>2, <1>3, <1>4, <1>5, <1>6, <1>7

(* open and CreateFileW *)
LEMMA OpenStep ==
  ASSUME IInv, Open
  PROVE  IInv' /\ \E H, A : Takes(H, A)
<1>1. CASE \E error \in {"ENOENT", "EACCES"} : CallFails(error)
  BY <1>1, CallFailsStep DEF Open, Error
<1>2. ASSUME DOMAIN handles # Handle,
             handles' = With(handles, NewHandle, 0),
             CallSucceeds([views["f"] EXCEPT !.file = NewHandle], "size"),
             UNCHANGED mappings
      PROVE  IInv' /\ \E H, A : Takes(H, A)
  <2> DEFINE h == NewHandle
             f == [views["f"] EXCEPT !.file = h]
  <2>1. h \in Handle /\ h \notin DOMAIN handles /\ h \in 0..MaxHandle /\ h # 0
    BY <1>2, NewIsFree, Types DEF IInv
  <2> HIDE DEF h
  <2>2. call.at = "open" /\ views["f"] = NoImpl
    BY DEF Open, IInv, CallInv
  <2>3. /\ f \in Impl
        /\ f.file = h /\ f.mapping = 0 /\ f.addr = 0 /\ f.size = 0
    BY <2>1, <2>2, NoImplFields DEF Impl
  <2>4. CallSucceeds(f, "size")
    BY <1>2 DEF h
  <2> HIDE DEF f
  <2>5. /\ UNCHANGED <<platform, alive, result, aborted, file, lastError, cause>>
        /\ views' \in [Slots -> Impl] /\ views'["f"] = f
        /\ \A s \in Slots \ {"f"} : views'[s] = views[s]
        /\ \A s \in Slots \ {"f"} : HandlesOf(s)' = HandlesOf(s)
        /\ call'.at = "size" /\ call'.view = call.view
        /\ call' \in [at : {"idle", "open", "size", "mapping", "map", "return", "fail"},
                      view : Slots]
        /\ DeadInv' /\ MappedInv' /\ NeverAborts' /\ ErrorInv'
    BY <2>2, <2>3, <2>4, SucceedsEffect
  <2>6. /\ DOMAIN handles' = DOMAIN handles \cup {h}
        /\ handles'[h] = 0
        /\ \A k \in DOMAIN handles : handles'[k] = handles[k]
        /\ mappings' = mappings
    BY <1>2, <2>1 DEF With, h
  <2>7. TypeOK'
    <3>1. \A k \in DOMAIN handles' : handles'[k] \in 0..MaxSize
      BY <2>6, Types, FileViewAssumption DEF IInv
    <3> QED
      BY <2>1, <2>5, <2>6, <3>1 DEF IInv, TypeOK, Impl
  <2>8. HandlesOf("f") = {} /\ HandlesOf("f")' = {h}
    BY <2>1, <2>2, <2>3, <2>5, NoImplFields DEF HandlesOf
  <2>9. NamedInv'
    BY <2>3, <2>5, <2>6, <2>8 DEF IInv, OwnerInv, NamedInv, Holds
  <2>10. ApartInv'
    BY <2>1, <2>3, <2>5, <2>8, SlotF DEF IInv, OwnerInv, NamedInv, Holds, ApartInv
  <2>11. NothingLost'
    BY <2>2, <2>5, <2>6, <2>8, SlotF, NoImplFields, Types DEF IInv, OwnerInv, NothingLost
  <2>12. CallInv'
    BY <2>1, <2>2, <2>3, <2>5 DEF IInv, CallInv
  <2>13. SizeInv'
    <3> SUFFICES ASSUME file.version = 0, NEW s \in Slots
                 PROVE  /\ views'[s].file # 0 /\ s # "f" => views'[s].size = file.size
                        /\ views'[s].mapping # 0 => handles'[views'[s].mapping] = file.size
                        /\ views'[s].addr # 0 => mappings[views'[s].addr].size = file.size
      BY <2>5, <2>6 DEF SizeInv
    <3>1. CASE s = "f"
      BY <3>1, <2>3, <2>5
    <3>2. CASE s # "f"
      <4>1. views[s].mapping # 0 => views[s].mapping \in DOMAIN handles
        BY DEF IInv, OwnerInv, NamedInv, Holds, HandlesOf
      <4> QED
        BY <3>2, <4>1, <2>5, <2>6 DEF IInv, SizeInv
    <3> QED
      BY <3>1, <3>2
  <2>14. Takes({h}, {})
    <3>1. AddressOf("f")' = AddressOf("f")
      BY <2>2, <2>3, <2>5, NoImplFields DEF AddressOf
    <3> QED
      BY <3>1, <2>1, <2>5, <2>6, <2>8, SlotF DEF Takes
  <2> QED
    BY <2>14, <2>5, <2>7, <2>9, <2>10, <2>11, <2>12, <2>13 DEF IInv, OwnerInv
<1> QED
  BY <1>1, <1>2 DEF Open

(* fstat and GetFileSizeEx *)
LEMMA GetSizeStep ==
  ASSUME IInv, GetSize
  PROVE  IInv' /\ \E H, A : Takes(H, A)
<1>1. CASE CallFails("EIO")
  BY <1>1, CallFailsStep DEF GetSize, Error
<1>2. ASSUME CallSucceeds([views["f"] EXCEPT !.size = file.size], AfterSize(file.size)),
             UNCHANGED kernel
      PROVE  IInv' /\ \E H, A : Takes(H, A)
  <2> DEFINE f == [views["f"] EXCEPT !.size = file.size]
             next == AfterSize(file.size)
  <2>1. /\ call.at = "size"
        /\ views["f"] \in Impl /\ views["f"].file # 0
        /\ views["f"].mapping = 0 /\ views["f"].addr = 0
    BY SlotF, Types DEF GetSize, IInv, CallInv
  <2>2. file.size \in 0..MaxSize /\ file.size \in Nat
    BY Types DEF IInv
  <2>3. /\ f \in Impl
        /\ f.file = views["f"].file /\ f.mapping = 0 /\ f.addr = 0 /\ f.size = file.size
    BY <2>1, <2>2 DEF Impl
  <2>4. /\ next \in {"mapping", "map", "return"}
        /\ next = "return" => file.size = 0
        /\ next # "return" => file.size > 0
        /\ next = "map" => platform = "posix"
    BY <2>2 DEF AfterSize
  <2>5. CallSucceeds(f, next)
    BY <1>2
  <2> HIDE DEF f, next
  <2>6. /\ UNCHANGED <<platform, alive, result, aborted, file, lastError, cause>>
        /\ views' \in [Slots -> Impl] /\ views'["f"] = f
        /\ \A s \in Slots \ {"f"} : views'[s] = views[s]
        /\ \A s \in Slots \ {"f"} : HandlesOf(s)' = HandlesOf(s)
        /\ call'.at = next /\ call'.view = call.view
        /\ call' \in [at : {"idle", "open", "size", "mapping", "map", "return", "fail"},
                      view : Slots]
        /\ DeadInv' /\ MappedInv' /\ NeverAborts' /\ ErrorInv'
    BY <2>1, <2>3, <2>4, <2>5, SucceedsEffect
  <2>7. handles' = handles /\ mappings' = mappings
    BY <1>2 DEF kernel
  <2>8. TypeOK'
    BY <2>6, <2>7 DEF IInv, TypeOK, Impl
  <2>9. \A s \in Slots : /\ HandlesOf(s)' = HandlesOf(s) /\ views'[s].addr = views[s].addr
                         /\ views'[s].file = views[s].file /\ views'[s].mapping = views[s].mapping
                         /\ views[s].addr # 0 => views'[s].size = views[s].size
    BY <2>1, <2>3, <2>6 DEF HandlesOf
  <2>10. OwnerInv'
    BY <2>6, <2>7, <2>9 DEF IInv, OwnerInv, NamedInv, ApartInv, NothingLost, Holds
  <2>11. CallInv'
    BY <2>1, <2>2, <2>3, <2>4, <2>6 DEF IInv, CallInv
  <2>12. SizeInv'
    <3> SUFFICES ASSUME file.version = 0, NEW s \in Slots
                 PROVE  /\ views'[s].file # 0 => views'[s].size = file.size
                        /\ views'[s].mapping # 0 => handles[views'[s].mapping] = file.size
                        /\ views'[s].addr # 0 => mappings[views'[s].addr].size = file.size
      BY <2>6, <2>7 DEF SizeInv
    <3>1. CASE s = "f"
      BY <3>1, <2>3, <2>6
    <3>2. CASE s # "f"
      BY <3>2, <2>6 DEF IInv, SizeInv
    <3> QED
      BY <3>1, <3>2
  <2>13. Takes({}, {})
    BY <2>6, <2>7, <2>9, SlotF DEF Takes, AddressOf
  <2> QED
    BY <2>13, <2>6, <2>8, <2>10, <2>11, <2>12 DEF IInv
<1> QED
  BY <1>1, <1>2 DEF GetSize

(* CreateFileMappingW *)
LEMMA CreateFileMappingStep ==
  ASSUME IInv, CreateFileMapping
  PROVE  IInv' /\ \E H, A : Takes(H, A)
<1>1. /\ call.at = "mapping"
      /\ views["f"] \in Impl /\ views["f"].file # 0 /\ views["f"].size > 0
      /\ views["f"].mapping = 0 /\ views["f"].addr = 0
  BY SlotF, Types DEF CreateFileMapping, IInv, CallInv
<1>2. file.size \in 0..MaxSize /\ file.size \in Nat /\ views["f"].size \in Nat
      /\ file.version \in Nat
  BY SlotF, Types, FileViewAssumption DEF IInv
<1>3. CASE CallFails(IF file.size = 0 THEN "EINVAL" ELSE "ENOMEM")
  <2>1. file.size = 0 => file.version > 0
    <3>1. file.version = 0 => views["f"].size = file.size
      BY <1>1, SlotF DEF IInv, SizeInv
    <3> QED
      BY <3>1, <1>1, <1>2
  <2> QED
    BY <1>1, <1>3, <2>1, CallFailsStep DEF Error
<1>4. ASSUME DOMAIN handles # Handle, file.size > 0,
             handles' = With(handles, NewHandle, file.size),
             CallSucceeds([views["f"] EXCEPT !.mapping = NewHandle], "map"),
             UNCHANGED mappings
      PROVE  IInv' /\ \E H, A : Takes(H, A)
  <2> DEFINE h == NewHandle
             f == [views["f"] EXCEPT !.mapping = h]
  <2>1. h \in Handle /\ h \notin DOMAIN handles /\ h \in 0..MaxHandle /\ h # 0
    BY <1>4, NewIsFree, Types DEF IInv
  <2> HIDE DEF h
  <2>2. /\ f \in Impl
        /\ f.file = views["f"].file /\ f.mapping = h /\ f.addr = 0 /\ f.size = views["f"].size
    BY <1>1, <2>1 DEF Impl
  <2>3. CallSucceeds(f, "map")
    BY <1>4 DEF h
  <2> HIDE DEF f
  <2>4. /\ UNCHANGED <<platform, alive, result, aborted, file, lastError, cause>>
        /\ views' \in [Slots -> Impl] /\ views'["f"] = f
        /\ \A s \in Slots \ {"f"} : views'[s] = views[s]
        /\ \A s \in Slots \ {"f"} : HandlesOf(s)' = HandlesOf(s)
        /\ call'.at = "map" /\ call'.view = call.view
        /\ call' \in [at : {"idle", "open", "size", "mapping", "map", "return", "fail"},
                      view : Slots]
        /\ DeadInv' /\ MappedInv' /\ NeverAborts' /\ ErrorInv'
    BY <1>1, <2>2, <2>3, SucceedsEffect
  <2>5. /\ DOMAIN handles' = DOMAIN handles \cup {h}
        /\ handles'[h] = file.size
        /\ \A k \in DOMAIN handles : handles'[k] = handles[k]
        /\ mappings' = mappings
    BY <1>4, <2>1 DEF With, h
  <2>6. TypeOK'
    <3>1. \A k \in DOMAIN handles' : handles'[k] \in 0..MaxSize
      BY <1>2, <2>5, Types DEF IInv
    <3> QED
      BY <2>1, <2>4, <2>5, <3>1 DEF IInv, TypeOK, Impl
  <2>7. HandlesOf("f") = {views["f"].file} /\ HandlesOf("f")' = {views["f"].file, h}
    BY <1>1, <2>1, <2>2, <2>4 DEF HandlesOf
  <2>8. views["f"].file \in DOMAIN handles
    BY <2>7, SlotF DEF IInv, OwnerInv, NamedInv, Holds
  <2>9. NamedInv'
    BY <1>1, <2>1, <2>2, <2>4, <2>5, <2>7, <2>8 DEF IInv, OwnerInv, NamedInv, Holds
  <2>10. ApartInv'
    <3>1. \A s \in Slots : h \notin HandlesOf(s)
      BY <2>1 DEF IInv, OwnerInv, NamedInv, Holds
    <3> QED
      BY <1>1, <2>2, <2>4, <2>7, <3>1, SlotF DEF IInv, OwnerInv, ApartInv
  <2>11. NothingLost'
    <3>1. \A k \in DOMAIN handles' : \E s \in Slots : k \in HandlesOf(s)'
      BY <2>4, <2>5, <2>7, SlotF DEF IInv, OwnerInv, NothingLost
    <3>2. \A a \in DOMAIN mappings' : \E s \in Slots : views'[s].addr = a
      BY <1>1, <2>2, <2>4, <2>5 DEF IInv, OwnerInv, NothingLost
    <3> QED
      BY <3>1, <3>2 DEF NothingLost
  <2>12. CallInv'
    BY <1>1, <1>4, <2>1, <2>2, <2>4, <2>5 DEF IInv, CallInv
  <2>13. SizeInv'
    <3> SUFFICES ASSUME file.version = 0, NEW s \in Slots
                 PROVE  /\ views'[s].file # 0 => views'[s].size = file.size
                        /\ views'[s].mapping # 0 => handles'[views'[s].mapping] = file.size
                        /\ views'[s].addr # 0 => mappings[views'[s].addr].size = file.size
      BY <2>4, <2>5 DEF SizeInv
    <3>1. CASE s = "f"
      BY <1>1, <3>1, <2>2, <2>4, <2>5 DEF IInv, SizeInv
    <3>2. CASE s # "f"
      <4>1. views[s].mapping # 0 => views[s].mapping \in DOMAIN handles
        BY DEF IInv, OwnerInv, NamedInv, Holds, HandlesOf
      <4> QED
        BY <3>2, <4>1, <2>4, <2>5 DEF IInv, SizeInv
    <3> QED
      BY <3>1, <3>2
  <2>14. Takes({h}, {})
    <3>1. AddressOf("f")' = AddressOf("f")
      BY <1>1, <2>2, <2>4 DEF AddressOf
    <3> QED
      BY <3>1, <2>1, <2>4, <2>5, <2>7, SlotF DEF Takes
  <2> QED
    BY <2>14, <2>4, <2>6, <2>9, <2>10, <2>11, <2>12, <2>13 DEF IInv, OwnerInv
<1> QED
  BY <1>3, <1>4 DEF CreateFileMapping

(* mmap and MapViewOfFile *)
LEMMA MapStep ==
  ASSUME IInv, Map
  PROVE  IInv' /\ \E H, A : Takes(H, A)
<1>1. /\ call.at = "map"
      /\ views["f"] \in Impl /\ views["f"].file # 0 /\ views["f"].size > 0
      /\ views["f"].addr = 0
      /\ platform = "windows" => views["f"].mapping # 0 /\ handles[views["f"].mapping] > 0
  BY SlotF, Types DEF Map, IInv, CallInv
<1>2. file.version \in 0..MaxVersion /\ views["f"].size \in 0..MaxSize /\ views["f"].size \in Nat
      /\ MaxSize \in Nat
  BY SlotF, Types, FileViewAssumption DEF IInv
<1>3. MappedSize \in 1..MaxSize
  <2>1. CASE platform = "posix"
    BY <2>1, <1>1, <1>2 DEF MappedSize
  <2>2. CASE platform # "posix"
    <3>1. platform = "windows"
      BY <2>2 DEF IInv, TypeOK
    <3>2. views["f"].mapping \in DOMAIN handles
      BY <3>1, <1>1, SlotF DEF IInv, OwnerInv, NamedInv, Holds, HandlesOf
    <3>3. handles[views["f"].mapping] \in 0..MaxSize
      BY <3>2, Types DEF IInv
    <3> QED
      BY <2>2, <3>1, <3>3, <1>1, <1>2 DEF MappedSize
  <2> QED
    BY <2>1, <2>2
<1>4. CASE CallFails(IF MappedSize = 0 THEN "EINVAL" ELSE "ENOMEM")
  BY <1>1, <1>3, <1>4, CallFailsStep DEF Error
<1>5. ASSUME DOMAIN mappings # Handle,
             mappings' = With(mappings, NewAddress,
               [size |-> MappedSize, mapped |-> file.version, shown |-> file.version]),
             CallSucceeds([views["f"] EXCEPT !.addr = NewAddress], "return"),
             UNCHANGED handles
      PROVE  IInv' /\ \E H, A : Takes(H, A)
  <2> DEFINE a == NewAddress
             f == [views["f"] EXCEPT !.addr = a]
             n == MappedSize
  <2>1. a \in Handle /\ a \notin DOMAIN mappings /\ a \in 0..MaxHandle /\ a # 0
    BY <1>5, NewIsFree, Types DEF IInv
  <2> HIDE DEF a
  <2>2. /\ f \in Impl
        /\ f.file = views["f"].file /\ f.mapping = views["f"].mapping /\ f.addr = a
        /\ f.size = views["f"].size
    BY <1>1, <2>1 DEF Impl
  <2>3. CallSucceeds(f, "return")
    BY <1>5 DEF a
  <2> HIDE DEF f
  <2>4. /\ UNCHANGED <<platform, alive, result, aborted, file, lastError, cause>>
        /\ views' \in [Slots -> Impl] /\ views'["f"] = f
        /\ \A s \in Slots \ {"f"} : views'[s] = views[s]
        /\ \A s \in Slots \ {"f"} : HandlesOf(s)' = HandlesOf(s)
        /\ call'.at = "return" /\ call'.view = call.view
        /\ call' \in [at : {"idle", "open", "size", "mapping", "map", "return", "fail"},
                      view : Slots]
        /\ DeadInv' /\ MappedInv' /\ NeverAborts' /\ ErrorInv'
    BY <1>1, <2>2, <2>3, SucceedsEffect
  <2>5. n \in 1..MaxSize /\ (platform = "posix" => n = views["f"].size)
    BY <1>3 DEF MappedSize
  <2>6. file.version = 0 => n = file.size
    <3>1. file.version = 0 => /\ views["f"].size = file.size
                              /\ views["f"].mapping # 0 => handles[views["f"].mapping] = file.size
      BY <1>1, SlotF DEF IInv, SizeInv
    <3>2. platform \in {"posix", "windows"}
      BY DEF IInv, TypeOK
    <3> QED
      BY <3>1, <3>2, <1>1 DEF MappedSize
  <2>7. /\ DOMAIN mappings' = DOMAIN mappings \cup {a}
        /\ mappings'[a] = [size |-> n, mapped |-> file.version, shown |-> file.version]
        /\ \A k \in DOMAIN mappings : mappings'[k] = mappings[k]
        /\ handles' = handles
    BY <1>5, <2>1 DEF With, a
  <2> HIDE DEF n
  <2>8. TypeOK'
    <3>1. \A k \in DOMAIN mappings' :
            mappings'[k] \in [size : 1..MaxSize, mapped : 0..MaxVersion, shown : 0..MaxVersion]
      BY <1>2, <2>5, <2>7 DEF IInv, TypeOK
    <3> QED
      BY <2>1, <2>4, <2>7, <3>1 DEF IInv, TypeOK, Impl
  <2>9. \A s \in Slots : HandlesOf(s)' = HandlesOf(s) /\ views'[s].file = views[s].file
                         /\ views'[s].mapping = views[s].mapping /\ views'[s].size = views[s].size
    BY <2>2, <2>4 DEF HandlesOf
  <2>10. NamedInv'
    <3> SUFFICES ASSUME NEW s \in Slots PROVE Holds(s)'
      BY DEF NamedInv
    <3>1. Holds(s)
      BY DEF IInv, OwnerInv, NamedInv
    <3>2. CASE s = "f"
      BY <1>1, <3>1, <3>2, <2>2, <2>4, <2>5, <2>7, <2>9 DEF Holds
    <3>3. CASE s # "f"
      BY <3>1, <3>3, <2>4, <2>7, <2>9 DEF Holds
    <3> QED
      BY <3>2, <3>3
  <2>11. ApartInv'
    <3>1. \A s \in Slots : views[s].addr # a
      BY <2>1 DEF IInv, OwnerInv, NamedInv, Holds
    <3> QED
      BY <2>1, <2>2, <2>4, <2>9, <3>1 DEF IInv, OwnerInv, ApartInv
  <2>12. NothingLost'
    <3>1. \A k \in DOMAIN handles' : \E s \in Slots : k \in HandlesOf(s)'
      BY <2>7, <2>9 DEF IInv, OwnerInv, NothingLost
    <3>2. ASSUME NEW k \in DOMAIN mappings' PROVE \E s \in Slots : views'[s].addr = k
      <4>1. CASE k = a
        BY <4>1, <2>2, <2>4, SlotF
      <4>2. CASE k # a
        <5>1. PICK s \in Slots : views[s].addr = k
          BY <4>2, <2>7 DEF IInv, OwnerInv, NothingLost
        <5>2. k # 0
          BY <4>2, <2>7, Types DEF IInv
        <5> QED
          BY <5>1, <5>2, <1>1, <2>4
      <4> QED
        BY <4>1, <4>2
    <3> QED
      BY <3>1, <3>2 DEF NothingLost
  <2>13. CallInv'
    BY <1>1, <2>1, <2>2, <2>4 DEF IInv, CallInv
  <2>14. SizeInv'
    <3> SUFFICES ASSUME file.version = 0, NEW s \in Slots
                 PROVE  /\ views'[s].file # 0 => views'[s].size = file.size
                        /\ views'[s].mapping # 0 => handles'[views'[s].mapping] = file.size
                        /\ views'[s].addr # 0 => mappings'[views'[s].addr].size = file.size
      BY <2>4, <2>7 DEF SizeInv
    <3>1. /\ views[s].file # 0 => views[s].size = file.size
          /\ views[s].mapping # 0 => handles[views[s].mapping] = file.size
          /\ views[s].addr # 0 => mappings[views[s].addr].size = file.size
      BY <1>1 DEF IInv, SizeInv
    <3>2. CASE s = "f"
      BY <3>1, <3>2, <2>2, <2>4, <2>6, <2>7, <2>9
    <3>3. CASE s # "f"
      <4>1. views[s].addr # 0 => views[s].addr \in DOMAIN mappings
        BY DEF IInv, OwnerInv, NamedInv, Holds
      <4> QED
        BY <3>1, <3>3, <4>1, <2>4, <2>7
    <3> QED
      BY <3>2, <3>3
  <2>15. Takes({}, {a})
    <3>1. AddressOf("f")' = AddressOf("f") \cup {a}
      BY <1>1, <2>1, <2>2, <2>4 DEF AddressOf
    <3> QED
      BY <3>1, <2>1, <2>4, <2>7, <2>9, SlotF DEF Takes
  <2> QED
    BY <2>15, <2>4, <2>8, <2>10, <2>11, <2>12, <2>13, <2>14 DEF IInv, OwnerInv
<1> QED
  BY <1>4, <1>5 DEF Map

(* return std::unexpected(...), with f destroyed *)
LEMMA FailStep ==
  ASSUME IInv, Fail
  PROVE  IInv' /\ GivesBack("f")
<1>1. /\ call.at = "fail" /\ result' = lastError /\ lastError = cause
      /\ views' = [views EXCEPT !["f"] = NoImpl]
      /\ alive' = alive \ {"f"} /\ call' = Idle
      /\ UNCHANGED <<platform, file, cause>>
  BY DEF Fail, get_system_error, IInv, ErrorInv
<1>2. /\ DOMAIN handles' = DOMAIN handles \ HandlesOf("f")
      /\ \A h \in DOMAIN handles' : handles'[h] = handles[h]
      /\ DOMAIN mappings' = DOMAIN mappings \ {views["f"].addr}
      /\ \A a \in DOMAIN mappings' : mappings'[a] = mappings[a]
      /\ aborted' = FALSE
      /\ lastError' \in Error \cup {"none"}
  BY SlotF, DestroyEffect DEF Fail, IInv
<1>3. GivesBack("f")
  BY <1>1, <1>2, SlotF, NoImplFields, Types DEF GivesBack, IInv
<1>4. OwnerInv'
  BY <1>3, SlotF, GivesBackOwner DEF IInv
<1>5. call'.at = "idle" /\ call' \in [at : {"idle", "open", "size", "mapping", "map", "return", "fail"},
                                      view : Slots]
  BY <1>1, SlotF DEF Idle
<1>6. TypeOK'
  BY <1>1, <1>2, <1>3, <1>5 DEF IInv, TypeOK, GivesBack, Impl
<1>7. NeverAborts'
  BY <1>2 DEF NeverAborts
<1>8. DeadInv' /\ MappedInv'
  BY <1>1, <1>3, SlotF DEF IInv, DeadInv, MappedInv, GivesBack
<1>9. CallInv'
  BY <1>1, <1>5 DEF CallInv
<1>10. SizeInv'
  <2> SUFFICES ASSUME file.version = 0, NEW s \in Slots
               PROVE  /\ views'[s].file # 0 => views'[s].size = file.size
                      /\ views'[s].mapping # 0 => handles'[views'[s].mapping] = file.size
                      /\ views'[s].addr # 0 => mappings'[views'[s].addr].size = file.size
    BY <1>1 DEF SizeInv
  <2>1. CASE s = "f"
    BY <2>1, <1>3, NoImplFields DEF GivesBack
  <2>2. CASE s # "f"
    <3>1. /\ views'[s].mapping # 0 => views'[s].mapping \in DOMAIN handles'
          /\ views'[s].addr # 0 => views'[s].addr \in DOMAIN mappings'
      BY <1>4 DEF OwnerInv, NamedInv, Holds, HandlesOf
    <3> QED
      BY <2>2, <3>1, <1>3 DEF GivesBack, IInv, SizeInv
  <2> QED
    BY <2>1, <2>2
<1>11. ErrorInv'
  BY <1>1, <1>5 DEF IInv, ErrorInv
<1> QED
  BY <1>3, <1>4, <1>6, <1>7, <1>8, <1>9, <1>10, <1>11 DEF IInv

(* Moving takes the sizes along, and what a view shows. *)
LEMMA PassesSizes ==
  ASSUME IInv, NEW to \in Views, NEW from \in Slots, Passes(to, from), OwnerInv', call' = Idle,
         file' = file, from = "f" => call.at = "return", from \in Views => call = Idle
  PROVE  SizeInv' /\ MappedInv'
<1>1. to \in Slots /\ to # "f"
  BY SlotF
<1>2. call'.at = "idle"
  BY DEF Idle
<1>3. \A s \in Slots \ {from} : \E t \in Slots : t # to /\ views'[s] = views[t]
                                                /\ (s # "f" /\ t = "f" => call.at = "return")
                                                /\ (s = "f" => t = "f" /\ call.at = "idle")
  BY <1>1, SlotF DEF Passes, Idle, Slots
<1>4. SizeInv'
  <2> SUFFICES ASSUME file.version = 0, NEW s \in Slots
               PROVE  /\ views'[s].file # 0 => views'[s].size = file.size
                      /\ views'[s].mapping # 0 => handles'[views'[s].mapping] = file.size
                      /\ views'[s].addr # 0 => mappings'[views'[s].addr].size = file.size
    BY <1>2 DEF SizeInv
  <2>1. CASE s = from
    BY <2>1, NoImplFields DEF Passes
  <2>2. CASE s # from
    <3>1. PICK t \in Slots : /\ t # to /\ views'[s] = views[t]
                             /\ s # "f" /\ t = "f" => call.at = "return"
                             /\ s = "f" => t = "f" /\ call.at = "idle"
      BY <2>2, <1>3
    <3>2. /\ views'[s].mapping # 0 => views'[s].mapping \in DOMAIN handles'
          /\ views'[s].addr # 0 => views'[s].addr \in DOMAIN mappings'
      BY DEF OwnerInv, NamedInv, Holds, HandlesOf
    <3>3. t = "f" => call.at \notin {"size", "fail"}
      BY <3>1
    <3> QED
      BY <3>1, <3>2, <3>3 DEF Passes, IInv, SizeInv
  <2> QED
    BY <2>1, <2>2
<1>5. MappedInv'
  <2> SUFFICES ASSUME NEW v \in Views, views'[v].file # 0, views'[v].size > 0
               PROVE  views'[v].addr # 0
    BY DEF MappedInv
  <2>1. v \in Slots /\ v # "f" /\ v # from
    BY SlotF, NoImplFields DEF Passes
  <2>2. PICK t \in Slots : /\ views'[v] = views[t]
                           /\ t = "f" => call.at = "return"
    BY <2>1, <1>3
  <2>3. CASE t = "f"
    BY <2>2, <2>3 DEF IInv, CallInv
  <2>4. CASE t # "f"
    <3>1. t \in Views
      BY <2>4 DEF Slots
    <3> QED
      BY <3>1, <2>2 DEF IInv, MappedInv
  <2> QED
    BY <2>3, <2>4
<1> QED
  BY <1>4, <1>5

(* return f *)
LEMMA ReturnStep ==
  ASSUME IInv, Return
  PROVE  IInv' /\ Passes(call.view, "f")
<1> DEFINE v == call.view
<1>1. /\ call.at = "return" /\ result' = "view" /\ call' = Idle
      /\ views' = [views EXCEPT ![v] = views["f"], !["f"] = NoImpl]
      /\ alive' = (alive \ {"f"}) \cup {v}
      /\ UNCHANGED <<platform, aborted, file, handles, mappings, lastError, cause>>
  BY DEF Return, PassOn, kernel
<1>2. v \in Views /\ v \notin alive /\ v \in Slots /\ v # "f"
  BY <1>1, SlotF DEF IInv, CallInv
<1>3. views[v] = NoImpl
  BY <1>2 DEF IInv, DeadInv
<1>4. HandlesOf(v) = {} /\ views[v].addr = 0 /\ 0 \notin DOMAIN mappings
  BY <1>3, NoImplFields, Types DEF HandlesOf, IInv
<1>5. /\ views' \in [Slots -> Impl] /\ views'[v] = views["f"] /\ views'["f"] = NoImpl
      /\ \A s \in Slots \ {v, "f"} : views'[s] = views[s]
  BY <1>1, <1>2, SlotF, NoImplFields, Types DEF IInv
<1> HIDE DEF v
<1>6. Passes(v, "f")
  BY <1>1, <1>2, <1>4, <1>5 DEF Passes
<1>7. OwnerInv'
  BY <1>2, <1>6, SlotF, PassesOwner DEF IInv
<1>8. SizeInv' /\ MappedInv'
  BY <1>1, <1>2, <1>6, <1>7, SlotF, PassesSizes
<1>9. call'.at = "idle" /\ call' \in [at : {"idle", "open", "size", "mapping", "map", "return", "fail"},
                                      view : Slots]
  BY <1>1, SlotF DEF Idle
<1>10. TypeOK'
  BY <1>1, <1>2, <1>5, <1>9 DEF IInv, TypeOK, Impl
<1>11. NeverAborts' /\ DeadInv'
  BY <1>1, <1>2, <1>5 DEF IInv, NeverAborts, DeadInv
<1>12. CallInv'
  BY <1>1, <1>2, <1>9 DEF CallInv
<1>13. ErrorInv'
  BY <1>1, <1>9 DEF IInv, ErrorInv, Error
<1> QED
  BY <1>6, <1>7, <1>8, <1>10, <1>11, <1>12, <1>13 DEF IInv, v

-----------------------------------------------------------------------------
(* The steps of clients and of other processes *)

(* A client destroys a view. *)
LEMMA DestroyStep ==
  ASSUME IInv, NEW v \in Views, Destroy(v)
  PROVE  IInv' /\ GivesBack(v)
<1>1. /\ call = Idle /\ call' = Idle
      /\ views' = [views EXCEPT ![v] = NoImpl]
      /\ alive' = alive \ {v}
      /\ UNCHANGED <<platform, result, file, cause>>
  BY DEF Destroy, ClientMay
<1>2. v \in Slots /\ v # "f"
  BY SlotF
<1>3. /\ DOMAIN handles' = DOMAIN handles \ HandlesOf(v)
      /\ \A h \in DOMAIN handles' : handles'[h] = handles[h]
      /\ DOMAIN mappings' = DOMAIN mappings \ {views[v].addr}
      /\ \A a \in DOMAIN mappings' : mappings'[a] = mappings[a]
      /\ aborted' = FALSE
      /\ lastError' \in Error \cup {"none"}
  BY <1>2, DestroyEffect DEF Destroy, IInv
<1>4. GivesBack(v)
  BY <1>1, <1>2, <1>3, NoImplFields, Types DEF GivesBack, IInv
<1>5. OwnerInv'
  BY <1>2, <1>4, GivesBackOwner DEF IInv
<1>6. call.at = "idle" /\ call'.at = "idle"
  BY <1>1 DEF Idle
<1>7. TypeOK'
  BY <1>1, <1>3, <1>4 DEF IInv, TypeOK, GivesBack, Impl
<1>8. NeverAborts'
  BY <1>3 DEF NeverAborts
<1>9. DeadInv' /\ MappedInv'
  BY <1>1, <1>2, <1>4, NoImplFields, SlotF DEF IInv, DeadInv, MappedInv, GivesBack
<1>10. CallInv'
  BY <1>1, <1>6 DEF IInv, CallInv
<1>11. SizeInv'
  <2> SUFFICES ASSUME file.version = 0, NEW s \in Slots
               PROVE  /\ views'[s].file # 0 => views'[s].size = file.size
                      /\ views'[s].mapping # 0 => handles'[views'[s].mapping] = file.size
                      /\ views'[s].addr # 0 => mappings'[views'[s].addr].size = file.size
    BY <1>1 DEF SizeInv
  <2>1. CASE s = v
    BY <2>1, <1>4, NoImplFields DEF GivesBack
  <2>2. CASE s # v
    <3>1. /\ views'[s].mapping # 0 => views'[s].mapping \in DOMAIN handles'
          /\ views'[s].addr # 0 => views'[s].addr \in DOMAIN mappings'
      BY <1>5 DEF OwnerInv, NamedInv, Holds, HandlesOf
    <3> QED
      BY <2>2, <3>1, <1>4, <1>6 DEF GivesBack, IInv, SizeInv
  <2> QED
    BY <2>1, <2>2
<1>12. ErrorInv'
  BY <1>1, <1>6 DEF IInv, ErrorInv
<1> QED
  BY <1>4, <1>5, <1>7, <1>8, <1>9, <1>10, <1>11, <1>12 DEF IInv

(* A client moves a view into another or assigns it to another. *)
LEMMA MoveStep ==
  ASSUME IInv, NEW to \in Views, NEW from \in Views,
         MoveConstruct(to, from) \/ MoveAssign(to, from)
  PROVE  IInv' /\ Passes(to, from)
<1>1. /\ call = Idle /\ call' = Idle /\ to # from
      /\ views' = [views EXCEPT ![to] = views[from], ![from] = NoImpl]
      /\ alive' = alive \cup {to} /\ from \in alive
      /\ UNCHANGED <<platform, result, file, cause>>
  BY DEF MoveConstruct, MoveAssign, PassOn, ClientMay
<1>2. to \in Slots /\ to # "f" /\ from \in Slots /\ from # "f"
  BY SlotF
<1>3. /\ DOMAIN handles' = DOMAIN handles \ HandlesOf(to)
      /\ \A h \in DOMAIN handles' : handles'[h] = handles[h]
      /\ DOMAIN mappings' = DOMAIN mappings \ {views[to].addr}
      /\ \A a \in DOMAIN mappings' : mappings'[a] = mappings[a]
      /\ aborted' = FALSE
      /\ lastError' \in Error \cup {"none"}
  <2>1. CASE MoveConstruct(to, from)
    <3>1. views[to] = NoImpl
      BY <2>1, <1>2 DEF MoveConstruct, IInv, DeadInv
    <3>2. HandlesOf(to) = {} /\ views[to].addr = 0 /\ 0 \notin DOMAIN mappings
      BY <3>1, NoImplFields, Types DEF HandlesOf, IInv
    <3>3. UNCHANGED <<handles, mappings, aborted, lastError>>
      BY <2>1 DEF MoveConstruct, kernel
    <3>4. aborted = FALSE /\ lastError \in Error \cup {"none"}
      BY DEF IInv, TypeOK, NeverAborts
    <3> QED
      BY <3>2, <3>3, <3>4
  <2>2. CASE MoveAssign(to, from)
    BY <2>2, <1>2, DestroyEffect DEF MoveAssign, IInv
  <2> QED
    BY <2>1, <2>2
<1>4. /\ views' \in [Slots -> Impl] /\ views'[to] = views[from] /\ views'[from] = NoImpl
      /\ \A s \in Slots \ {to, from} : views'[s] = views[s]
  BY <1>1, <1>2, NoImplFields, Types DEF IInv
<1>5. Passes(to, from)
  BY <1>1, <1>3, <1>4 DEF Passes
<1>6. OwnerInv'
  BY <1>2, <1>5, PassesOwner DEF IInv
<1>7. SizeInv' /\ MappedInv'
  BY <1>1, <1>2, <1>5, <1>6, PassesSizes
<1>8. call.at = "idle" /\ call'.at = "idle"
  BY <1>1 DEF Idle
<1>9. TypeOK'
  BY <1>1, <1>2, <1>3, <1>4 DEF IInv, TypeOK, Impl
<1>10. NeverAborts' /\ DeadInv'
  BY <1>1, <1>2, <1>3, <1>4 DEF IInv, NeverAborts, DeadInv
<1>11. CallInv'
  BY <1>1, <1>2, <1>8 DEF IInv, CallInv
<1>12. ErrorInv'
  BY <1>1, <1>8 DEF IInv, ErrorInv
<1> QED
  BY <1>5, <1>6, <1>7, <1>9, <1>10, <1>11, <1>12 DEF IInv

(* Another process changes the file: what is mapped keeps its size. *)
LEMMA ChangeFileStep ==
  ASSUME IInv, ChangeFile
  PROVE  IInv' /\ \E H, A : Takes(H, A)
<1>1. PICK size \in 0..MaxSize, seen \in SUBSET DOMAIN mappings :
        /\ file' = [version |-> file.version + 1, size |-> size]
        /\ mappings' = [a \in DOMAIN mappings |->
                         IF a \in seen THEN [mappings[a] EXCEPT !.shown = file.version + 1]
                         ELSE mappings[a]]
  BY DEF ChangeFile
<1>2. UNCHANGED <<platform, views, alive, call, result, aborted, handles, lastError, cause>>
  BY DEF ChangeFile, program
<1>3. file.version \in Nat /\ file.version + 1 \in 0..MaxVersion
  BY FileViewAssumption DEF ChangeFile, IInv, TypeOK
<1>4. file'.version = file.version + 1
      /\ file' \in [version : 0..MaxVersion, size : 0..MaxSize]
  BY <1>1, <1>3
<1>5. /\ DOMAIN mappings' = DOMAIN mappings
      /\ \A a \in DOMAIN mappings :
           /\ mappings'[a] \in [size : 1..MaxSize, mapped : 0..MaxVersion, shown : 0..MaxVersion]
           /\ mappings'[a].size = mappings[a].size
  BY <1>1, <1>3 DEF IInv, TypeOK
<1>6. TypeOK'
  BY <1>2, <1>4, <1>5 DEF IInv, TypeOK
<1>7. \A s \in Slots : HandlesOf(s)' = HandlesOf(s)
  BY <1>2 DEF HandlesOf
<1>8. OwnerInv'
  BY <1>2, <1>5, <1>7 DEF IInv, OwnerInv, NamedInv, ApartInv, NothingLost, Holds
<1>9. NeverAborts' /\ DeadInv' /\ CallInv' /\ MappedInv'
  BY <1>2 DEF IInv, NeverAborts, DeadInv, CallInv, MappedInv
<1>10. SizeInv' /\ ErrorInv'
  BY <1>2, <1>3, <1>4 DEF IInv, SizeInv, ErrorInv
<1>11. \E H, A : Takes(H, A)
  BY <1>2, <1>5, TakesNothing
<1> QED
  BY <1>11, <1>6, <1>8, <1>9, <1>10 DEF IInv

-----------------------------------------------------------------------------
(* Theorems *)

(* The invariant holds before there are views. *)
LEMMA InitInv == Init => IInv
<1> SUFFICES ASSUME Init PROVE IInv
  OBVIOUS
<1>1. /\ views \in [Slots -> Impl] /\ \A s \in Slots : views[s] = NoImpl
      /\ alive = {} /\ call = Idle /\ call.at = "idle"
      /\ DOMAIN handles = {} /\ DOMAIN mappings = {}
      /\ result = "none" /\ lastError = "none" /\ cause = "none"
  BY NoImplFields DEF Init, Idle
<1>2. \A s \in Slots : /\ views[s].file = 0 /\ views[s].mapping = 0 /\ views[s].addr = 0
                       /\ HandlesOf(s) = {}
  BY <1>1, NoImplFields DEF HandlesOf
<1>3. TypeOK
  <2>1. call \in [at : {"idle", "open", "size", "mapping", "map", "return", "fail"}, view : Slots]
    BY <1>1, SlotF DEF Idle
  <2>2. file \in [version : 0..MaxVersion, size : 0..MaxSize]
    BY FileViewAssumption DEF Init
  <2>3. aborted \in BOOLEAN /\ platform \in {"posix", "windows"}
    BY DEF Init
  <2> QED
    BY <1>1, <2>1, <2>2, <2>3 DEF TypeOK, Impl
<1>4. OwnerInv
  BY <1>1, <1>2 DEF OwnerInv, NamedInv, ApartInv, NothingLost, Holds
<1>5. NeverAborts
  BY DEF Init, NeverAborts
<1>6. DeadInv /\ CallInv /\ MappedInv /\ SizeInv
  BY <1>1, <1>2, SlotF DEF DeadInv, CallInv, MappedInv, SizeInv
<1>7. ErrorInv
  BY <1>1 DEF ErrorInv, Error
<1> QED
  BY <1>3, <1>4, <1>5, <1>6, <1>7 DEF IInv

(* Steps after which nothing has changed keep the invariant. *)
LEMMA StutterInv ==
  ASSUME IInv, UNCHANGED vars
  PROVE  IInv'
<1>1. UNCHANGED <<platform, views, alive, call, result, aborted, file, handles, mappings,
                  lastError, cause>>
  BY DEF vars, program, kernel
<1>2. OwnerInv'
  BY <1>1, OwnerSame DEF IInv
<1>3. TypeOK'
  BY <1>1 DEF IInv, TypeOK
<1> QED
  BY <1>1, <1>2, <1>3 DEF IInv, NeverAborts, DeadInv, CallInv, MappedInv, SizeInv, ErrorInv

(* Every step preserves the invariant. *)
LEMMA NextInv ==
  ASSUME IInv, [Next]_vars
  PROVE  IInv'
<1>1. ASSUME NEW v \in Views, Begin(v) \/ Destroy(v) PROVE IInv'
  BY <1>1, BeginStep, DestroyStep
<1>2. ASSUME NEW to \in Views, NEW from \in Views, MoveConstruct(to, from) \/ MoveAssign(to, from)
      PROVE  IInv'
  BY <1>2, MoveStep
<1>3. CASE CallStep
  BY <1>3, OpenStep, GetSizeStep, CreateFileMappingStep, MapStep, FailStep, ReturnStep DEF CallStep
<1>4. CASE ChangeFile
  BY <1>4, ChangeFileStep
<1>5. CASE UNCHANGED vars
  BY <1>5, StutterInv
<1> QED
  BY <1>1, <1>2, <1>3, <1>4, <1>5 DEF Next

(***************************************************************************)
(* In every state, what the system has given out is named by exactly one   *)
(* object, and f holds what from has acquired so far.                      *)
(***************************************************************************)
THEOREM Inductive == Spec => []IInv
<1>1. Init => IInv
  BY InitInv
<1>2. IInv /\ [Next]_vars => IInv'
  BY NextInv
<1> QED
  BY <1>1, <1>2, PTL DEF Spec

(* The fields of views and the state of the system have their types. *)
THEOREM TypeCorrect == Spec => []TypeOK
<1>1. IInv => TypeOK
  BY DEF IInv
<1> QED
  BY <1>1, Inductive, PTL

(***************************************************************************)
(* No assertion of destroy fails: every handle and every mapping is given  *)
(* back at most once, and munmap is given the size that was mapped.        *)
(***************************************************************************)
THEOREM AssertionsHold == Spec => []NeverAborts
<1>1. IInv => NeverAborts
  BY DEF IInv
<1> QED
  BY <1>1, Inductive, PTL

(***************************************************************************)
(* FileView::from returns the error of the call that failed, although f is *)
(* destroyed before the caller sees it, and maps no empty file.            *)
(***************************************************************************)
THEOREM ErrorsAreCauses == Spec => []ErrorIsCause
<1>1. IInv => ErrorIsCause
  BY DEF IInv, ErrorInv, ErrorIsCause
<1> QED
  BY <1>1, Inductive, PTL

(***************************************************************************)
(* As long as nothing changes the file, every view that holds it shows all *)
(* of it, on both platforms and after all moves.                           *)
(***************************************************************************)
THEOREM TextIsWhole == Spec => []TextWhole
<1>1. IInv => TextWhole
  <2> SUFFICES ASSUME IInv, file.version = 0, NEW v \in alive \cap Views, views[v].file # 0
               PROVE  /\ views[v].size = file.size
                      /\ views[v].size > 0 => /\ views[v].addr \in DOMAIN mappings
                                              /\ mappings[views[v].addr].size = views[v].size
    BY DEF TextWhole
  <2>1. v \in Slots /\ v # "f"
    BY SlotF
  <2>2. views[v].size = file.size
    BY <2>1 DEF IInv, SizeInv
  <2>3. views[v].size > 0 => views[v].addr # 0
    BY DEF IInv, MappedInv
  <2>4. views[v].addr # 0 => /\ views[v].addr \in DOMAIN mappings
                             /\ mappings[views[v].addr].size = file.size
    BY <2>1 DEF IInv, OwnerInv, NamedInv, Holds, SizeInv
  <2> QED
    BY <2>2, <2>3, <2>4
<1> QED
  BY <1>1, Inductive, PTL

-----------------------------------------------------------------------------
(* Views implement Ownership *)

Resources(H, A) == {<<"handle", h>> : h \in H} \cup {<<"address", a>> : a \in A}

(* Handles and addresses are told apart as resources. *)
LEMMA PairsApart ==
  /\ \A h, a : <<"handle", h>> # <<"address", a>>
  /\ \A h, k : <<"handle", h>> = <<"handle", k>> => h = k
  /\ \A h, k : <<"address", h>> = <<"address", k>> => h = k
OBVIOUS

(* Giving back some of the handles and addresses. *)
LEMMA ResourcesMinus ==
  ASSUME NEW H, NEW A, NEW K, NEW B
  PROVE  Resources(H \ K, A \ B) = Resources(H, A) \ Resources(K, B)
<1>1. \A x : x \in Resources(H, A) <=> \/ \E h \in H : x = <<"handle", h>>
                                       \/ \E a \in A : x = <<"address", a>>
  BY DEF Resources
<1>2. \A x : x \in Resources(K, B) <=> \/ \E h \in K : x = <<"handle", h>>
                                       \/ \E a \in B : x = <<"address", a>>
  BY DEF Resources
<1>3. \A x : x \in Resources(H \ K, A \ B) <=> \/ \E h \in H \ K : x = <<"handle", h>>
                                               \/ \E a \in A \ B : x = <<"address", a>>
  BY DEF Resources
<1>4. \A x : x \in Resources(H \ K, A \ B) => x \in Resources(H, A) \ Resources(K, B)
  BY <1>1, <1>2, <1>3, PairsApart
<1>5. \A x : x \in Resources(H, A) \ Resources(K, B) => x \in Resources(H \ K, A \ B)
  BY <1>1, <1>2, <1>3
<1> QED
  BY <1>4, <1>5

(* Acquiring more of them. *)
LEMMA ResourcesPlus ==
  ASSUME NEW H, NEW A, NEW K, NEW B
  PROVE  Resources(H \cup K, A \cup B) = Resources(H, A) \cup Resources(K, B)
BY DEF Resources

(* More handles and addresses are more resources. *)
LEMMA ResourcesWithin ==
  ASSUME NEW H, NEW A, NEW K, NEW B, H \subseteq K, A \subseteq B
  PROVE  Resources(H, A) \subseteq Resources(K, B)
BY DEF Resources

(* Different handles and addresses are different resources. *)
LEMMA ResourcesApart ==
  ASSUME NEW H, NEW A, NEW K, NEW B, H \cap K = {}, A \cap B = {}
  PROVE  Resources(H, A) \cap Resources(K, B) = {}
<1>1. \A x : x \in Resources(H, A) <=> \/ \E h \in H : x = <<"handle", h>>
                                       \/ \E a \in A : x = <<"address", a>>
  BY DEF Resources
<1>2. \A x : x \in Resources(K, B) <=> \/ \E h \in K : x = <<"handle", h>>
                                       \/ \E a \in B : x = <<"address", a>>
  BY DEF Resources
<1> QED
  BY <1>1, <1>2, PairsApart

(* The resources of an object and all resources, as handles and addresses. *)
LEMMA ResourcesAre ==
  /\ \A s : ResourcesOf(s) = Resources(HandlesOf(s), AddressOf(s))
  /\ GivenOut = Resources(DOMAIN handles, DOMAIN mappings)
<1>1. ASSUME NEW s PROVE ResourcesOf(s) = Resources(HandlesOf(s), AddressOf(s))
  <2>1. \A x : x \in ResourcesOf(s) <=>
          \/ x = <<"handle", views[s].file>> /\ views[s].file # 0
          \/ x = <<"handle", views[s].mapping>> /\ views[s].mapping # 0
          \/ x = <<"address", views[s].addr>> /\ views[s].addr # 0
    BY DEF ResourcesOf
  <2> QED
    BY <2>1 DEF Resources, HandlesOf, AddressOf
<1> QED
  BY <1>1 DEF GivenOut, Resources

(* Each resource that is given out has one owner. *)
LEMMA ResourcesOwned ==
  ASSUME IInv
  PROVE  /\ \A s \in Slots : ResourcesOf(s) \subseteq GivenOut
         /\ \A s, t \in Slots : s # t => ResourcesOf(s) \cap ResourcesOf(t) = {}
<1>1. ASSUME NEW s \in Slots PROVE ResourcesOf(s) \subseteq GivenOut
  <2>1. HandlesOf(s) \subseteq DOMAIN handles /\ AddressOf(s) \subseteq DOMAIN mappings
    BY DEF IInv, OwnerInv, NamedInv, Holds, AddressOf
  <2>2. Resources(HandlesOf(s), AddressOf(s)) \subseteq Resources(DOMAIN handles, DOMAIN mappings)
    BY <2>1, ResourcesWithin
  <2> QED
    BY <2>2, ResourcesAre
<1>2. ASSUME NEW s \in Slots, NEW t \in Slots, s # t PROVE ResourcesOf(s) \cap ResourcesOf(t) = {}
  <2>1. HandlesOf(s) \cap HandlesOf(t) = {} /\ AddressOf(s) \cap AddressOf(t) = {}
    BY <1>2 DEF IInv, OwnerInv, ApartInv, AddressOf
  <2>2. Resources(HandlesOf(s), AddressOf(s)) \cap Resources(HandlesOf(t), AddressOf(t)) = {}
    BY <2>1, ResourcesApart
  <2> QED
    BY <2>2, ResourcesAre
<1> QED
  BY <1>1, <1>2

(* A view that does not change keeps its resources; one without a file has none. *)
LEMMA ResourcesKept ==
  ASSUME NEW s, NEW t
  PROVE  /\ views'[s] = views[t] => ResourcesOf(s)' = ResourcesOf(t)
         /\ views'[s] = NoImpl => ResourcesOf(s)' = {}
         /\ views[s] = NoImpl => ResourcesOf(s) = {}
BY NoImplFields DEF ResourcesOf

(* What is given out after the objects of d were given back. *)
LEMMA GivenOutLess ==
  ASSUME IInv, NEW d \in Slots,
         DOMAIN handles' = DOMAIN handles \ HandlesOf(d),
         DOMAIN mappings' = DOMAIN mappings \ {views[d].addr}
  PROVE  GivenOut' = GivenOut \ ResourcesOf(d)
<1>1. 0 \notin DOMAIN mappings
  BY Types DEF IInv
<1>2. DOMAIN mappings' = DOMAIN mappings \ AddressOf(d)
  BY <1>1 DEF AddressOf
<1>3. GivenOut' = Resources(DOMAIN handles', DOMAIN mappings')
  BY DEF GivenOut, Resources
<1>4. GivenOut' = Resources(DOMAIN handles \ HandlesOf(d), DOMAIN mappings \ AddressOf(d))
  BY <1>2, <1>3
<1>5. GivenOut' = Resources(DOMAIN handles, DOMAIN mappings) \ Resources(HandlesOf(d), AddressOf(d))
  BY <1>4, ResourcesMinus
<1> QED
  BY <1>5, ResourcesAre

(* What f acquires does not show. *)
LEMMA TakesHidden ==
  ASSUME IInv, NEW H, NEW A, Takes(H, A)
  PROVE  /\ \A v \in Views : ResourcesOf(v)' = ResourcesOf(v)
         /\ (GivenOut \ ResourcesOf("f"))' = GivenOut \ ResourcesOf("f")
<1>1. \A v \in Views : ResourcesOf(v)' = ResourcesOf(v)
  BY ResourcesKept DEF Takes
<1>2. GivenOut' = GivenOut \cup Resources(H, A)
  <2>1. GivenOut' = Resources(DOMAIN handles', DOMAIN mappings')
    BY DEF GivenOut, Resources
  <2>2. GivenOut' = Resources(DOMAIN handles \cup H, DOMAIN mappings \cup A)
    BY <2>1 DEF Takes
  <2>3. GivenOut' = Resources(DOMAIN handles, DOMAIN mappings) \cup Resources(H, A)
    BY <2>2, ResourcesPlus
  <2> QED
    BY <2>3, ResourcesAre
<1>3. ResourcesOf("f")' = ResourcesOf("f") \cup Resources(H, A)
  <2>1. ResourcesOf("f")' = Resources(HandlesOf("f")', AddressOf("f")')
    <3>1. \A x : x \in ResourcesOf("f")' <=>
            \/ x = <<"handle", views'["f"].file>> /\ views'["f"].file # 0
            \/ x = <<"handle", views'["f"].mapping>> /\ views'["f"].mapping # 0
            \/ x = <<"address", views'["f"].addr>> /\ views'["f"].addr # 0
      BY DEF ResourcesOf
    <3> QED
      BY <3>1 DEF Resources, HandlesOf, AddressOf
  <2>2. ResourcesOf("f")' = Resources(HandlesOf("f") \cup H, AddressOf("f") \cup A)
    BY <2>1 DEF Takes
  <2>3. ResourcesOf("f")' = Resources(HandlesOf("f"), AddressOf("f")) \cup Resources(H, A)
    BY <2>2, ResourcesPlus
  <2> QED
    BY <2>3, ResourcesAre
<1>4. Resources(H, A) \cap GivenOut = {}
  <2>1. H \cap DOMAIN handles = {} /\ A \cap DOMAIN mappings = {}
    BY DEF Takes
  <2>2. Resources(H, A) \cap Resources(DOMAIN handles, DOMAIN mappings) = {}
    BY <2>1, ResourcesApart
  <2> QED
    BY <2>2, ResourcesAre
<1> QED
  BY <1>1, <1>2, <1>3, <1>4

(* A client sees that f is destroyed as nothing at all. *)
LEMMA FailHidden ==
  ASSUME IInv, GivesBack("f")
  PROVE  /\ \A v \in Views : ResourcesOf(v)' = ResourcesOf(v)
         /\ (GivenOut \ ResourcesOf("f"))' = GivenOut \ ResourcesOf("f")
<1>1. \A v \in Views : ResourcesOf(v)' = ResourcesOf(v)
  BY SlotF, ResourcesKept DEF GivesBack
<1>2. ResourcesOf("f")' = {}
  BY ResourcesKept DEF GivesBack
<1>3. GivenOut' = GivenOut \ ResourcesOf("f")
  BY SlotF, GivenOutLess DEF GivesBack
<1> QED
  BY <1>1, <1>2, <1>3

(* Destroying a view releases its resources. *)
LEMMA DestroyReleases ==
  ASSUME IInv, NEW v \in Views, GivesBack(v)
  PROVE  Contract!Next
<1>1. ResourcesOf(v)' = {} /\ \A u \in Views \ {v} : ResourcesOf(u)' = ResourcesOf(u)
  BY SlotF, ResourcesKept DEF GivesBack
<1>2. ResourcesOf("f")' = ResourcesOf("f")
  BY SlotF, ResourcesKept DEF GivesBack
<1>3. GivenOut' = GivenOut \ ResourcesOf(v)
  BY SlotF, GivenOutLess DEF GivesBack
<1>4. [u \in Views |-> ResourcesOf(u)]' = [[u \in Views |-> ResourcesOf(u)] EXCEPT ![v] = {}]
  BY <1>1
<1>5. (GivenOut \ ResourcesOf("f"))' =
        (GivenOut \ ResourcesOf("f")) \ [u \in Views |-> ResourcesOf(u)][v]
  BY <1>2, <1>3
<1>6. Contract!Release(v)
  BY <1>4, <1>5 DEF Contract!Release
<1> QED
  BY <1>6 DEF Contract!Next

(* Moving a view hands its resources over. *)
LEMMA MoveHandsOver ==
  ASSUME IInv, NEW to \in Views, NEW from \in Views, Passes(to, from)
  PROVE  Contract!Next
<1>1. /\ ResourcesOf(to)' = ResourcesOf(from) /\ ResourcesOf(from)' = {}
      /\ \A u \in Views \ {to, from} : ResourcesOf(u)' = ResourcesOf(u)
  BY SlotF, ResourcesKept DEF Passes
<1>2. ResourcesOf("f")' = ResourcesOf("f")
  BY SlotF, ResourcesKept DEF Passes
<1>3. GivenOut' = GivenOut \ ResourcesOf(to)
  BY SlotF, GivenOutLess DEF Passes
<1>4. [u \in Views |-> ResourcesOf(u)]' =
        [[u \in Views |-> ResourcesOf(u)] EXCEPT ![to] = [u \in Views |-> ResourcesOf(u)][from],
                                                 ![from] = {}]
  BY <1>1 DEF Passes
<1>5. (GivenOut \ ResourcesOf("f"))' =
        (GivenOut \ ResourcesOf("f")) \ [u \in Views |-> ResourcesOf(u)][to]
  BY <1>2, <1>3
<1>6. Contract!Move(to, from)
  BY <1>4, <1>5 DEF Contract!Move, Passes
<1> QED
  BY <1>6 DEF Contract!Next

(* Returning f acquires all of its resources at once. *)
LEMMA ReturnAcquires ==
  ASSUME IInv, NEW v \in Views, v \notin alive, views["f"].file # 0, Passes(v, "f")
  PROVE  Contract!Next
<1>1. /\ ResourcesOf(v)' = ResourcesOf("f") /\ ResourcesOf("f")' = {}
      /\ \A u \in Views \ {v} : ResourcesOf(u)' = ResourcesOf(u)
  BY SlotF, ResourcesKept DEF Passes
<1>2. ResourcesOf(v) = {}
  BY SlotF, ResourcesKept DEF IInv, DeadInv
<1>3. GivenOut' = GivenOut \ ResourcesOf(v)
  BY SlotF, GivenOutLess DEF Passes
<1>4. ResourcesOf("f") \subseteq GivenOut
  BY SlotF, ResourcesOwned
<1>5. ResourcesOf("f") # {}
  <2>1. <<"handle", views["f"].file>> \in ResourcesOf("f")
    BY DEF ResourcesOf
  <2> QED
    BY <2>1
<1> DEFINE owned == [u \in Views |-> ResourcesOf(u)]
           inUse == GivenOut \ ResourcesOf("f")
<1>6. inUse' = GivenOut /\ inUse' \ inUse = ResourcesOf("f")
  BY <1>1, <1>2, <1>3, <1>4
<1>7. owned' = [owned EXCEPT ![v] = inUse' \ inUse] /\ owned[v] = {}
  BY <1>1, <1>2, <1>6
<1>8. inUse' = inUse \cup (inUse' \ inUse)
  BY <1>4, <1>6
<1>9. Contract!Acquire(v)
  BY <1>5, <1>6, <1>7, <1>8 DEF Contract!Acquire
<1> QED
  BY <1>9 DEF Contract!Next

(***************************************************************************)
(* Views implement Ownership: from outside, FileView::from opens all of a  *)
(* file or nothing, each resource belongs to one view, and destroying and  *)
(* moving views gives back everything, once.                               *)
(***************************************************************************)
THEOREM Refinement == Spec => ImplementsOwnership
<1>1. Init => Contract!Init
  <2> SUFFICES ASSUME Init PROVE Contract!Init
    OBVIOUS
  <2>1. \A s \in Slots : ResourcesOf(s) = {}
    BY ResourcesKept DEF Init
  <2>2. GivenOut = {}
    BY DEF Init, GivenOut
  <2> QED
    BY <2>1, <2>2, SlotF DEF Contract!Init
<1>2. IInv /\ [Next]_vars => [Contract!Next]_<<[v \in Views |-> ResourcesOf(v)], GivenOut \ ResourcesOf("f")>>
  <2> DEFINE owned == [v \in Views |-> ResourcesOf(v)]
             inUse == GivenOut \ ResourcesOf("f")
  <2> SUFFICES ASSUME IInv, [Next]_vars, ~UNCHANGED <<owned, inUse>>
               PROVE  Contract!Next
    OBVIOUS
  <2>1. ~ /\ \A v \in Views : ResourcesOf(v)' = ResourcesOf(v)
          /\ (GivenOut \ ResourcesOf("f"))' = GivenOut \ ResourcesOf("f")
    OBVIOUS
  <2>2. ~ \E H, A : Takes(H, A)
    BY <2>1, TakesHidden
  <2>3. ASSUME NEW v \in Views, Begin(v) \/ Destroy(v) PROVE Contract!Next
    BY <2>2, <2>3, BeginStep, DestroyStep, DestroyReleases
  <2>4. ASSUME NEW to \in Views, NEW from \in Views, MoveConstruct(to, from) \/ MoveAssign(to, from)
        PROVE  Contract!Next
    BY <2>4, MoveStep, MoveHandsOver
  <2>5. CASE CallStep
    <3>1. ~Open /\ ~GetSize /\ ~CreateFileMapping /\ ~Map
      BY <2>2, OpenStep, GetSizeStep, CreateFileMappingStep, MapStep
    <3>2. ~Fail
      BY <2>1, FailStep, FailHidden
    <3>3. CASE Return
      <4>1. call.at = "return" /\ views["f"].file # 0 /\ call.view \in Views \ alive
        BY <3>3 DEF Return, IInv, CallInv
      <4>2. Passes(call.view, "f")
        BY <3>3, ReturnStep
      <4> QED
        BY <4>1, <4>2, ReturnAcquires
    <3> QED
      BY <2>5, <3>1, <3>2, <3>3 DEF CallStep
  <2>6. CASE ChangeFile
    BY <2>2, <2>6, ChangeFileStep
  <2>7. CASE UNCHANGED vars
    <3>1. UNCHANGED <<views, handles, mappings>>
      BY <2>7 DEF vars, program, kernel
    <3> QED
      BY <2>2, <3>1, TakesNothing
  <2> QED
    BY <2>3, <2>4, <2>5, <2>6, <2>7 DEF Next
<1> QED
  BY <1>1, <1>2, Inductive, PTL DEF Spec, ImplementsOwnership, Contract!Spec
=============================================================================
