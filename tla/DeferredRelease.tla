---------------------------- MODULE DeferredRelease ----------------------------
(***************************************************************************)
(* What deferred teardown promises, without locks, queues or counters: an  *)
(* object is published, later retired, and released only when nobody that  *)
(* took it while it was published uses it any more.                        *)
(***************************************************************************)
CONSTANTS Objects, Users

VARIABLES
  state,  \* of each object
  uses    \* the object each user holds, as a set of at most one

vars == <<state, uses>>

States == {"unborn", "published", "retired", "released"}

TypeOK ==
  /\ state \in [Objects -> States]
  /\ uses \in [Users -> SUBSET Objects]

Init ==
  /\ state = [o \in Objects |-> "unborn"]
  /\ uses = [u \in Users |-> {}]

Advances(o, from, to) ==
  /\ state[o] = from
  /\ state' = [state EXCEPT ![o] = to]
  /\ UNCHANGED uses

Publish(o) == Advances(o, "unborn", "published")
Retire(o) == Advances(o, "published", "retired")

Release(o) ==
  /\ \A u \in Users : o \notin uses[u]
  /\ Advances(o, "retired", "released")

Acquire(u, o) ==
  /\ state[o] = "published"
  /\ uses[u] = {}
  /\ uses' = [uses EXCEPT ![u] = {o}]
  /\ UNCHANGED state

Drop(u) ==
  /\ uses' = [uses EXCEPT ![u] = {}]
  /\ UNCHANGED state

Next ==
  \/ \E o \in Objects : Publish(o) \/ Retire(o) \/ Release(o)
  \/ \E u \in Users : Drop(u) \/ \E o \in Objects : Acquire(u, o)

Spec == Init /\ [][Next]_vars

=============================================================================
