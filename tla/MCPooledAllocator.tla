------------------------- MODULE MCPooledAllocator -------------------------
(* Bounds for PooledAllocator: granules of two bytes, one chunk of three   *)
(* granules, buffers of one and of two granules and one below a granule,   *)
(* and memory for two granules and the smallest buffer.                    *)
EXTENDS PooledAllocator, TLC

CONSTANTS h1, h2

MCHandles == {h1, h2}
MCVaEnd == 8
MCVas == {2, 4, 6}
MCBases == {2}
MCSymmetry == Permutations(MCHandles)
=============================================================================
