---------------------------- MODULE MCRouterCache ----------------------------
(* RouterCache for TLC: handler threads and cache keys are model values. *)
EXTENDS RouterCache, TLC

CONSTANTS t1, t2, k1

\* Threads are interchangeable: no operator singles one out.
Symmetric == Permutations(Threads)
==============================================================================
