----------------------------- MODULE Ownership -----------------------------
(***************************************************************************)
(* What file_view.hh promises of views, without saying which calls of the  *)
(* system are made: a view is obtained at once or not at all, owns what    *)
(* was acquired for it alone, passes it on when it is moved and gives all  *)
(* of it back in the end.                                                  *)
(***************************************************************************)
CONSTANT Views   \* the views of the clients

VARIABLES
  owned,   \* the resources each view owns
  inUse    \* the resources the system has given out

Init ==
  /\ owned = [v \in Views |-> {}]
  /\ inUse = {}

(* Resources that were free before are acquired for v, which owned nothing. *)
Acquire(v) ==
  \E resources \in {inUse' \ inUse} :
    /\ resources # {}
    /\ owned[v] = {}
    /\ owned' = [owned EXCEPT ![v] = resources]
    /\ inUse' = inUse \cup resources

Release(v) ==
  /\ owned' = [owned EXCEPT ![v] = {}]
  /\ inUse' = inUse \ owned[v]

(* The view that is moved to gives back what it owned before. *)
Move(to, from) ==
  /\ to # from
  /\ owned' = [owned EXCEPT ![to] = owned[from], ![from] = {}]
  /\ inUse' = inUse \ owned[to]

Next ==
  \/ \E v \in Views : Acquire(v) \/ Release(v)
  \/ \E to, from \in Views : Move(to, from)

Spec == Init /\ [][Next]_<<owned, inUse>>
=============================================================================
