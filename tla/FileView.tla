------------------------------ MODULE FileView ------------------------------
(***************************************************************************)
(* Read-only views of files (cero/util/file_view.hh) on both platforms.    *)
(* Each call of the system that FileView::from makes is a step: it may     *)
(* fail, and another process may change the file between two of them.      *)
(*                                                                         *)
(* Handles and addresses are numbers.  0 stands for the invalid value of   *)
(* each field: -1, MAP_FAILED, INVALID_HANDLE_VALUE, null.                 *)
(*                                                                         *)
(* Definitions with an underscore suffix (Name_Mistake) are mistakes the   *)
(* code does not make; no specification uses them.                         *)
(***************************************************************************)
EXTENDS Naturals, FiniteSets

CONSTANTS
  Views,        \* the views of the clients
  MaxHandle,    \* how many handles, and how many mappings, the system has
  MaxSize,      \* the largest size of the file
  MaxVersion    \* how often other processes change the file

ASSUME FileViewAssumption ==
  /\ MaxHandle \in Nat
  /\ MaxSize \in Nat
  /\ MaxVersion \in Nat
  /\ "f" \notin Views

VARIABLES
  platform,    \* the system the compiler is built for
  views,       \* the fields of impl_
  alive,       \* the view objects that exist
  call,        \* what FileView::from does next, and the view it returns
  result,      \* what it returned last
  file,        \* the file as other processes have left it
  handles,     \* the open handles, each with the size of what it maps or 0
  mappings,    \* the mappings, by their address
  lastError,   \* errno or the value of GetLastError
  cause,       \* the error of the call that failed last
  aborted      \* an assertion has failed

program == <<platform, views, alive, call, result, aborted>>
kernel == <<handles, mappings>>
vars == <<program, file, kernel, lastError, cause>>

Slots == Views \cup {"f"}   \* "f" is the local variable of FileView::from

Handle == 1..MaxHandle

Error == {"ENOENT", "EACCES", "EIO", "ENOMEM", "EINVAL"}

NoImpl == [file |-> 0, size |-> 0, mapping |-> 0, addr |-> 0]

Idle == [at |-> "idle", view |-> "f"]

(* Some free handle or address, also one that was given back before. *)
NewHandle == CHOOSE h \in Handle : h \notin DOMAIN handles
NewAddress == CHOOSE a \in Handle : a \notin DOMAIN mappings

With(f, key, value) == [k \in DOMAIN f \cup {key} |-> IF k = key THEN value ELSE f[k]]
Without(f, keys) == [k \in DOMAIN f \ keys |-> f[k]]

-----------------------------------------------------------------------------
(* FileView::from *)

(* A call of the system fails: from reads the error and destroys f. *)
CallFails(error) ==
  /\ lastError' = error
  /\ cause' = error
  /\ call' = [call EXCEPT !.at = "fail"]
  /\ UNCHANGED <<platform, views, alive, result, aborted, file, kernel>>

(* A call succeeded: the field of f is set and from goes on. *)
CallSucceeds(f, next) ==
  /\ views' = [views EXCEPT !["f"] = f]
  /\ call' = [call EXCEPT !.at = next]
  /\ UNCHANGED <<platform, alive, result, aborted, file, lastError, cause>>

(* from begins with a default-constructed f. *)
Begin(v) ==
  /\ call = Idle
  /\ ~aborted
  /\ v \in Views \ alive
  /\ views' = [views EXCEPT !["f"] = NoImpl]
  /\ alive' = alive \cup {"f"}
  /\ call' = [at |-> "open", view |-> v]
  /\ UNCHANGED <<platform, result, aborted, file, kernel, lastError, cause>>

(* open and CreateFileW *)
Open ==
  /\ call.at = "open"
  /\ \/ /\ DOMAIN handles # Handle
        /\ handles' = With(handles, NewHandle, 0)
        /\ CallSucceeds([views["f"] EXCEPT !.file = NewHandle], "size")
        /\ UNCHANGED mappings
     \/ \E error \in {"ENOENT", "EACCES"} : CallFails(error)

(* A file without content is not mapped; Windows needs a mapping object first. *)
AfterSize(size) ==
  IF size = 0 THEN "return" ELSE IF platform = "posix" THEN "map" ELSE "mapping"

(* Mistake: room for a terminator is added to the size. *)
GetSize_WithTerminator ==
  /\ call.at = "size"
  /\ \/ /\ CallSucceeds([views["f"] EXCEPT !.size = file.size + 1], AfterSize(file.size + 1))
        /\ UNCHANGED kernel
     \/ CallFails("EIO")

(* fstat and GetFileSizeEx *)
GetSize ==
  /\ call.at = "size"
  /\ \/ /\ CallSucceeds([views["f"] EXCEPT !.size = file.size], AfterSize(file.size))
        /\ UNCHANGED kernel
     \/ CallFails("EIO")

(* CreateFileMappingW, for the size that the file has now; it refuses a file without content. *)
CreateFileMapping ==
  /\ call.at = "mapping"
  /\ \/ /\ DOMAIN handles # Handle
        /\ file.size > 0
        /\ handles' = With(handles, NewHandle, file.size)
        /\ CallSucceeds([views["f"] EXCEPT !.mapping = NewHandle], "map")
        /\ UNCHANGED mappings
     \/ CallFails(IF file.size = 0 THEN "EINVAL" ELSE "ENOMEM")

(* How much is mapped: what mmap is asked for, or all of the mapping object. *)
MappedSize == IF platform = "posix" THEN views["f"].size ELSE handles[views["f"].mapping]

(* mmap and MapViewOfFile; nothing of size 0 can be mapped. *)
Map ==
  /\ call.at = "map"
  /\ \/ /\ DOMAIN mappings # Handle
        /\ MappedSize > 0
        /\ mappings' = With(mappings, NewAddress,
             [size |-> MappedSize, mapped |-> file.version, shown |-> file.version])
        /\ CallSucceeds([views["f"] EXCEPT !.addr = NewAddress], "return")
        /\ UNCHANGED handles
     \/ CallFails(IF MappedSize = 0 THEN "EINVAL" ELSE "ENOMEM")

-----------------------------------------------------------------------------
(* Destruction and moves *)

(* UnmapViewOfFile takes an address; munmap also a size, and leaves what is mapped beyond it. *)
Unmapped(impl) ==
  IF impl.addr \in DOMAIN mappings /\ (platform = "posix" => mappings[impl.addr].size <= impl.size)
  THEN {impl.addr} ELSE {}

(* Mistake: the address is unmapped without looking whether there is one. *)
Refused_Unguarded(impl) ==
  \/ impl.addr \notin DOMAIN mappings
  \/ \E h \in {impl.file, impl.mapping} \ {0} : h \notin DOMAIN handles

(* The calls of destroy that fail: nothing is there, or munmap is asked for nothing. *)
Refused(impl) ==
  \/ impl.addr # 0 /\ impl.addr \notin DOMAIN mappings
  \/ impl.addr # 0 /\ platform = "posix" /\ impl.size = 0
  \/ \E h \in {impl.file, impl.mapping} \ {0} : h \notin DOMAIN handles

(***************************************************************************)
(* Impl::destroy: what the fields name is unmapped and closed, and the     *)
(* assertions want every call to succeed.  What the calls do to errno is   *)
(* not specified.                                                          *)
(***************************************************************************)
destroy(impl) ==
  /\ mappings' = Without(mappings, Unmapped(impl))
  /\ handles' = Without(handles, {impl.file, impl.mapping})
  /\ aborted' = Refused(impl)
  /\ lastError' \in IF impl = NoImpl THEN {lastError} ELSE {lastError, "EINVAL"}

(* Mistake: the error is read after f has been destroyed. *)
get_system_error_Late == lastError'

get_system_error == lastError

(* return std::unexpected(get_system_error()), and f is destroyed. *)
Fail ==
  /\ call.at = "fail"
  /\ destroy(views["f"])
  /\ result' = get_system_error
  /\ views' = [views EXCEPT !["f"] = NoImpl]
  /\ alive' = alive \ {"f"}
  /\ call' = Idle
  /\ UNCHANGED <<platform, file, cause>>

(* Mistake: the fields are copied. *)
PassOn_Copies(to, from) == views' = [views EXCEPT ![to] = views[from]]

(* Mistake: the size stays behind. *)
PassOn_KeepsSize(to, from) ==
  views' = [views EXCEPT ![to] = [views[from] EXCEPT !.size = views[to].size], ![from] = NoImpl]

(* Moves exchange the fields for those of an empty view. *)
PassOn(to, from) == views' = [views EXCEPT ![to] = views[from], ![from] = NoImpl]

(* return f: it is moved into the result, and destroyed without fields. *)
Return ==
  /\ call.at = "return"
  /\ result' = "view"
  /\ PassOn(call.view, "f")
  /\ alive' = (alive \ {"f"}) \cup {call.view}
  /\ call' = Idle
  /\ UNCHANGED <<platform, aborted, file, kernel, lastError, cause>>

(* Clients move and destroy views between calls. *)
ClientMay == call = Idle /\ ~aborted

Destroy(v) ==
  /\ ClientMay
  /\ v \in alive
  /\ destroy(views[v])
  /\ views' = [views EXCEPT ![v] = NoImpl]
  /\ alive' = alive \ {v}
  /\ UNCHANGED <<platform, call, result, file, cause>>

MoveConstruct(to, from) ==
  /\ ClientMay
  /\ to \in Views \ alive
  /\ from \in alive
  /\ PassOn(to, from)
  /\ alive' = alive \cup {to}
  /\ UNCHANGED <<platform, call, result, aborted, file, kernel, lastError, cause>>

MoveAssign(to, from) ==
  /\ ClientMay
  /\ {to, from} \subseteq alive
  /\ to # from
  /\ destroy(views[to])
  /\ PassOn(to, from)
  /\ UNCHANGED <<platform, alive, call, result, file, cause>>

-----------------------------------------------------------------------------
(***************************************************************************)
(* Another process changes the file.  Whether a private mapping shows the  *)
(* change is not specified; Windows refuses to shorten a file that is      *)
(* mapped.                                                                 *)
(***************************************************************************)
ChangeFile ==
  /\ file.version < MaxVersion
  /\ \E size \in 0..MaxSize, seen \in SUBSET DOMAIN mappings :
       /\ platform = "windows" /\ (\E h \in DOMAIN handles : handles[h] > 0) => size >= file.size
       /\ file' = [version |-> file.version + 1, size |-> size]
       /\ mappings' = [a \in DOMAIN mappings |->
                         IF a \in seen THEN [mappings[a] EXCEPT !.shown = file.version + 1]
                         ELSE mappings[a]]
  /\ UNCHANGED <<program, handles, lastError, cause>>

Init ==
  /\ platform \in {"posix", "windows"}
  /\ views = [s \in Slots |-> NoImpl]
  /\ alive = {}
  /\ call = Idle
  /\ result = "none"
  /\ file \in [version : {0}, size : 0..MaxSize]
  /\ handles = [h \in {} |-> 0]
  /\ mappings = [a \in {} |-> 0]
  /\ lastError = "none"
  /\ cause = "none"
  /\ aborted = FALSE

CallStep == Open \/ GetSize \/ CreateFileMapping \/ Map \/ Fail \/ Return

Next ==
  \/ \E v \in Views : Begin(v) \/ Destroy(v)
  \/ \E to, from \in Views : MoveConstruct(to, from) \/ MoveAssign(to, from)
  \/ CallStep
  \/ ChangeFile

Spec == Init /\ [][Next]_vars

-----------------------------------------------------------------------------
(* What is expected of file views. *)

(* The types of the variables. *)
TypeOK ==
  /\ platform \in {"posix", "windows"}
  /\ views \in [Slots -> [file : 0..MaxHandle, size : 0..MaxSize,
                          mapping : 0..MaxHandle, addr : 0..MaxHandle]]
  /\ alive \subseteq Slots
  /\ call \in [at : {"idle", "open", "size", "mapping", "map", "return", "fail"}, view : Slots]
  /\ result \in Error \cup {"none", "view"}
  /\ file \in [version : 0..MaxVersion, size : 0..MaxSize]
  /\ DOMAIN handles \subseteq Handle
  /\ \A h \in DOMAIN handles : handles[h] \in 0..MaxSize
  /\ DOMAIN mappings \subseteq Handle
  /\ \A a \in DOMAIN mappings :
       mappings[a] \in [size : 1..MaxSize, mapped : 0..MaxVersion, shown : 0..MaxVersion]
  /\ lastError \in Error \cup {"none"}
  /\ cause \in Error \cup {"none"}
  /\ aborted \in BOOLEAN

(***************************************************************************)
(* The compiler is never terminated because a view names something that is *)
(* no longer open, which the assertions of destroy would do: every handle  *)
(* and mapping is given back at most once.                                 *)
(***************************************************************************)
NeverAborts == ~aborted

(***************************************************************************)
(* What from returns when it fails is the error of the call that failed,   *)
(* on which build_source decides what it reports, although f is destroyed  *)
(* with further calls of the system before the caller sees it.  As long as *)
(* nothing changes the file, it is not an error of from's own making, as   *)
(* mapping an empty file would be.                                         *)
(***************************************************************************)
ErrorIsCause ==
  (result \in Error /\ call = Idle) =>
    /\ result = cause
    /\ result = "EINVAL" => file.version > 0

(***************************************************************************)
(* As long as nothing changes the file, every view that holds it shows all *)
(* of it, also after moves: get_text pairs the address with the size that  *)
(* belongs to it.                                                          *)
(***************************************************************************)
TextWhole ==
  (file.version = 0) =>
    \A v \in alive \cap Views :
      views[v].file # 0 =>
        /\ views[v].size = file.size
        /\ views[v].size > 0 => /\ views[v].addr \in DOMAIN mappings
                                /\ mappings[views[v].addr].size = views[v].size

(***************************************************************************)
(* From outside, from either opens all of a file or nothing, and views own *)
(* what the system has given out, each resource one view, until the last   *)
(* one is destroyed.  The calls that from is in the middle of making, and  *)
(* what f holds meanwhile, do not show.                                    *)
(***************************************************************************)
ResourcesOf(s) ==
  {r \in {<<"handle", views[s].file>>, <<"handle", views[s].mapping>>, <<"address", views[s].addr>>} :
     r[2] # 0}

GivenOut ==
  {<<"handle", h>> : h \in DOMAIN handles} \cup {<<"address", a>> : a \in DOMAIN mappings}

Contract == INSTANCE Ownership WITH
  owned <- [v \in Views |-> ResourcesOf(v)],
  inUse <- GivenOut \ ResourcesOf("f")

ImplementsOwnership == Contract!Spec

(***************************************************************************)
(* The text of a view is what was in the file when it was mapped, whatever *)
(* other processes do to the file (the comments at the mappings of         *)
(* file_view.posix.cc and file_view.win.cc).                               *)
(***************************************************************************)
ViewStable == \A a \in DOMAIN mappings : mappings[a].shown = mappings[a].mapped
=============================================================================
