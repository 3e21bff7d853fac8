------------------------- MODULE InterceptorRefinement -------------------------
(* The two abstract specifications the interceptor implements. *)
EXTENDS Interceptor

\* A context is published until no code leads to it any more, and is used by the
\* invocations counted before that.
ContextState(c) ==
  IF fc[c].state = "unborn" THEN "unborn"
  ELSE IF fc[c].state = "freed" THEN "released"
  ELSE IF fc[c].destroyed /\ ~fc[c].activated THEN "retired"
  ELSE "published"

Slots == Threads \X (1 .. MaxDepth + 1)
ContextUsed(s) ==
  IF s[2] \in DOMAIN calls[s[1]] /\ calls[s[1]][s[2]].counted /\ ~calls[s[1]][s[2]].late
    THEN {calls[s[1]][s[2]].ctx} ELSE {}

Deferred == INSTANCE DeferredRelease WITH
  Objects <- Ctxs, Users <- Slots,
  state <- [c \in Ctxs |-> ContextState(c)],
  uses <- [s \in Slots |-> ContextUsed(s)]

\* Contexts and their trampolines are released as DeferredRelease promises:
\* never while an invocation that found the function still hooked is in flight.
ContextsAreReleasedInOrder == Deferred!Spec

\* The hooks of a function are those a call of it would meet now.
Told(f) == IF code[f] \in Ctxs THEN Current(code[f]).live ELSE {}
Instead(f) == IF code[f] \in Ctxs THEN fc[code[f]].repl ELSE code[f]
IsFast(f) == code[f] \in Replacements

Hooks == INSTANCE HookTable WITH
  listeners <- [f \in Functions |-> Told(f)],
  replacement <- [f \in Functions |-> Instead(f)],
  fast <- {f \in Functions : IsFast(f)}

\* Outside transactions every API call changes a function's hooks in one step,
\* although it publishes arrays, sets fields and patches pages in several.
HooksChangeAtomically == Hooks!Spec

=============================================================================
