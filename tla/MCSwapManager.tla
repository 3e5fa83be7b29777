--------------------------- MODULE MCSwapManager ---------------------------
(* Bounds for SwapManager: two addresses for buffers of one granule, and   *)
(* pointers for buffers below a granule.                                   *)
EXTENDS SwapManager, TLC

CONSTANTS v1, v2, h1, h2, h3

MCVas == {v1, v2}
MCHandles == {h1, h2, h3}
MCSymmetry == Permutations(MCVas) \cup Permutations(MCHandles)
=============================================================================
