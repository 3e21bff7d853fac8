------------------------------ MODULE MCInvocation ------------------------------
(* Invocation on small sets of model values. *)
EXTENDS Invocation, TLC

CONSTANTS f1, f2, l1, l2

\* f1 is replaced as well as listened to, f2 is listened to only.
AttachedAtFirst == (f1 :> {l1, l2}) @@ (f2 :> {l1})

\* Bound: data kept per thread and ignored threads are explored apart, and so
\* are the two ways to have a thread ignored.
OneConcern ==
  \A t \in Callers :
    Cardinality({x \in {<<1, slots[t] # <<>> >>, <<2, ignore[t] > 0>>,
                        <<3, selected # None>>} : x[2]}) <= 1
=============================================================================
