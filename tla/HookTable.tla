------------------------------- MODULE HookTable -------------------------------
(***************************************************************************)
(* What attach, detach, replace and revert promise about one function when *)
(* no transaction is open: its hooks change by one listener or by its      *)
(* replacement at a time, and a fast replacement shares it with nobody.    *)
(***************************************************************************)
EXTENDS Naturals, FiniteSets

CONSTANTS Functions, Listeners, Replacements, None, MaxListeners

VARIABLES
  listeners,    \* of each function, those a call of it would be told to
  replacement,  \* of each function, what a call of it would run instead
  fast          \* the functions replaced by replace_fast

vars == <<listeners, replacement, fast>>

Init ==
  /\ listeners = [f \in Functions |-> {}]
  /\ replacement = [f \in Functions |-> None]
  /\ fast = {}

Attach(f, l) ==
  /\ f \notin fast
  /\ l \notin listeners[f] /\ Cardinality(listeners[f]) < MaxListeners
  /\ listeners' = [listeners EXCEPT ![f] = @ \cup {l}]
  /\ UNCHANGED <<replacement, fast>>

Detach(f, l) ==
  /\ l \in listeners[f]
  /\ listeners' = [listeners EXCEPT ![f] = @ \ {l}]
  /\ UNCHANGED <<replacement, fast>>

Replace(f, r) ==
  /\ replacement[f] = None
  /\ replacement' = [replacement EXCEPT ![f] = r]
  /\ UNCHANGED <<listeners, fast>>

ReplaceFast(f, r) ==
  /\ replacement[f] = None /\ listeners[f] = {}
  /\ replacement' = [replacement EXCEPT ![f] = r]
  /\ fast' = fast \cup {f}
  /\ UNCHANGED listeners

Revert(f) ==
  /\ replacement[f] # None
  /\ replacement' = [replacement EXCEPT ![f] = None]
  /\ fast' = fast \ {f}
  /\ UNCHANGED listeners

Next ==
  \E f \in Functions :
    \/ \E l \in Listeners : Attach(f, l) \/ Detach(f, l)
    \/ \E r \in Replacements : Replace(f, r) \/ ReplaceFast(f, r)
    \/ Revert(f)

Spec == Init /\ [][Next]_vars

=============================================================================
