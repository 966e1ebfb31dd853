----------------------------- MODULE MCMergedRead -----------------------------
(* MergedRead for TLC.                                                       *)
EXTENDS MergedRead, TLC

CONSTANTS e1, e2, noext, null

\* No operator singles an external ID out.
Symmetric == Permutations(Externals)
==============================================================================
