---------------------------- MODULE MCIntercept ----------------------------
(* Bounds for Intercept: addresses for three buffers of a granule if the   *)
(* application loads weights, for two otherwise, and pointers for buffers  *)
(* below a granule.                                                        *)
EXTENDS Intercept, TLC

CONSTANTS v1, v2, v3, h1, h2, h3

MCVas == {v1, v2, v3}
MCHandles == {h1, h2, h3}
MCSymmetry == Permutations(MCVas) \cup Permutations(MCHandles)
=============================================================================
