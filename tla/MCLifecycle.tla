----------------------------- MODULE MCLifecycle -----------------------------
EXTENDS Lifecycle, TLC

CONSTANTS t1, t2

CarefulOrNot == {{}, {"early unref"}}

\* Contexts and interceptors are alike, and used one after the other.
Symmetry == Permutations(Ctxs) \cup Permutations(Objects)

=============================================================================
