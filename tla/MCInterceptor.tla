---------------------------- MODULE MCInterceptor ----------------------------
(* Interceptor on small sets of model values. *)
EXTENDS InterceptorRefinement, TLC

Symmetry == Permutations(Threads) \cup Permutations(Ctxs)
CtxSymmetry == Permutations(Ctxs)
=============================================================================
