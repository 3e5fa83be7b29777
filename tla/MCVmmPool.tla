----------------------------- MODULE MCVmmPool -----------------------------
(***************************************************************************)
(* Bounds for VmmPool: granules of two bytes, three chunks of three        *)
(* granules, two of them adjacent, and requests of one granule and of a    *)
(* size to be rounded up to a whole chunk.                                 *)
(*                                                                         *)
(* What holds of the pool depends on the order in which the driver returns *)
(* the chunks, which the pool does not record: ascending does.             *)
(***************************************************************************)
EXTENDS VmmPool

VARIABLE ascending    \* each chunk has been above all chunks before it

MCBases == {2, 8, 16}
MCVaEnd == 22
MCSizes == {2, 5}

MCInit == Init /\ ascending = TRUE

MCNext ==
  /\ Next
  /\ ascending' = (ascending /\ \A b \in chunks' \ chunks, c \in chunks : c < b)

MCSpec ==
  MCInit /\ [][MCNext]_<<vars, ascending>> /\ WF_vars(AllocateVirtual)

(* "Sorted by start address.": if the driver returns chunks in increasing  *)
(* order, the vector FreeVirtual searches with std::lower_bound is sorted, *)
(* although ReserveChunk appends to it.                                    *)
FreeRangesSorted ==
  ascending =>
    \A i, j \in DOMAIN free_ranges_ :
      i < j => free_ranges_[i].start < free_ranges_[j].start

(* "coalescing adjacent ranges": then two free ranges touch only where a   *)
(* chunk begins, since ReserveChunk appends without merging.               *)
Coalesced ==
  ascending =>
    \A i, j \in DOMAIN free_ranges_ :
      free_ranges_[i].end = free_ranges_[j].start
        => free_ranges_[j].start \in chunks

(* Then, too, AllocateVirtual goes back to the driver only if no chunk has *)
(* enough contiguous free addresses: FreeVirtual's merging leaves no       *)
(* request unserved because its addresses are split over free ranges.      *)
NoNeedlessReserve ==
  [][ascending /\ chunks' # chunks =>
       ~ \E b \in chunks, lo \in Address :
           LET hi == lo + AlignUp(request)
           IN /\ b <= lo /\ hi <= b + kChunkSize
              /\ \A a \in lo .. hi - 1 : InFree(a)]_vars
=============================================================================
