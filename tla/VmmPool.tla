------------------------------ MODULE VmmPool ------------------------------
(***************************************************************************)
(* The virtual address pool of src/vmm/vmm_pool.{h,cc}.                    *)
(*                                                                         *)
(* The pool reserves GPU virtual addresses from the driver in chunks of    *)
(* kChunkSize and hands out sub-ranges, first fit.  free_ranges_ is the    *)
(* std::vector of that name, in its order.  AllocateVirtual calls itself   *)
(* after each ReserveChunk, so a call is a state of the model (request)    *)
(* and each level of the recursion is a step.                              *)
(*                                                                         *)
(* The pool itself does not record what it handed out.  held is the        *)
(* client's knowledge: VmmAllocator keeps (ptr, size) in its entries_ and  *)
(* gives exactly that pair back to FreeVirtual.                            *)
(***************************************************************************)
EXTENDS Integers, SequencesExt

CONSTANTS
  Granularity,    \* granularity_, from cuMemGetAllocationGranularity
  kChunkSize,     \* the size of one reservation
  VaEnd,          \* every address is below VaEnd
  Bases,          \* base addresses cuMemAddressReserve may return
  Sizes,          \* the sizes the client asks for
  None            \* no AllocateVirtual call is in progress

ASSUME GranularityAssumption == Granularity \in Nat \ {0}
ASSUME ChunkAssumption == kChunkSize \in Nat \ {0}
ASSUME BasesAssumption ==
  /\ VaEnd \in Nat
  /\ Bases \subseteq Nat
  /\ \A b \in Bases : b + kChunkSize <= VaEnd
ASSUME SizesAssumption == Sizes \subseteq Nat \ {0} /\ None \notin Sizes

VARIABLES
  free_ranges_,   \* the vector of FreeRange, in vector order
  chunks,         \* bases of the chunks reserved from the driver
  held,           \* ranges handed out and not freed: records [ptr, size]
  request,        \* the size AllocateVirtual is serving, or None
  alive           \* the destructor has not run

vars == <<free_ranges_, chunks, held, request, alive>>

Address == 0 .. VaEnd
FreeRange == [start : Address, end : Address]

(* Mutant: the size is not rounded.                                        *)
AlignNot(size) == size

(* "Round up to granularity."                                              *)
AlignUp(size) == ((size + Granularity - 1) \div Granularity) * Granularity

HeldEnd(h) == h.ptr + AlignUp(h.size)

-----------------------------------------------------------------------------
(* The driver, and searches of the vector.                                 *)

(* Bases cuMemAddressReserve can return: the chunk must not overlap one    *)
(* already reserved.  The driver documents no order.                       *)
FreshBases ==
  {b \in Bases : \A c \in chunks : b + kChunkSize <= c \/ c + kChunkSize <= b}

(* Mutant: takes ranges one granule too short.                             *)
FitsLoosely(r, n) == r.end - r.start >= n - Granularity

(* Mutant: a range of exactly the size asked for does not fit.             *)
FitsStrictly(r, n) == r.end - r.start > n

Fits(r, n) == r.end - r.start >= n

(* i is the index at which the search loop of AllocateVirtual stops.       *)
FirstFit(i, n) ==
  /\ i \in DOMAIN free_ranges_
  /\ Fits(free_ranges_[i], n)
  /\ \A j \in 1 .. i - 1 : ~Fits(free_ranges_[j], n)

NothingFits(n) == \A i \in DOMAIN free_ranges_ : ~Fits(free_ranges_[i], n)

(* Positions std::lower_bound(s, v) can return, ordering by start.  A      *)
(* binary search ends where the element before is smaller and the element  *)
(* at the position is not.  In a sorted vector there is one such position; *)
(* in an unsorted one there may be several.                                *)
LowerBound(s, v) ==
  {p \in 1 .. Len(s) + 1 : /\ p > 1 => s[p - 1].start < v
                           /\ p <= Len(s) => s[p].start >= v}

-----------------------------------------------------------------------------
Init ==
  /\ free_ranges_ = <<>>
  /\ chunks = {}
  /\ held = {}
  /\ request = None
  /\ alive = TRUE

(* The client calls AllocateVirtual(size).                                 *)
CallAllocateVirtual(size) ==
  /\ alive
  /\ request = None
  /\ request' = size
  /\ UNCHANGED <<free_ranges_, chunks, held, alive>>

(* Mutant: the range is not shortened when it does not become empty.       *)
CarveForgetsStart ==
  /\ request # None
  /\ \E i \in DOMAIN free_ranges_ :
       LET n == AlignUp(request)
           r == free_ranges_[i]
       IN /\ FirstFit(i, n)
          /\ free_ranges_' = IF r.start + n >= r.end
                               THEN RemoveAt(free_ranges_, i)
                               ELSE free_ranges_
          /\ held' = held \cup {[ptr |-> r.start, size |-> request]}
  /\ request' = None
  /\ UNCHANGED <<chunks, alive>>

(* Some range fits: its low end is handed out.                             *)
Carve ==
  /\ request # None
  /\ \E i \in DOMAIN free_ranges_ :
       LET n == AlignUp(request)
           r == free_ranges_[i]
       IN /\ FirstFit(i, n)
          /\ free_ranges_' = IF r.start + n >= r.end
                               THEN RemoveAt(free_ranges_, i)
                               ELSE [free_ranges_ EXCEPT ![i].start = @ + n]
          /\ held' = held \cup {[ptr |-> r.start, size |-> request]}
  /\ request' = None
  /\ UNCHANGED <<chunks, alive>>

(* "No range fits -- reserve a new chunk and try again."                   *)
ReserveChunk ==
  /\ request # None
  /\ NothingFits(AlignUp(request))
  /\ \E b \in FreshBases :
       /\ chunks' = chunks \cup {b}
       /\ free_ranges_' = Append(free_ranges_,
                                 [start |-> b, end |-> b + kChunkSize])
  /\ UNCHANGED <<held, request, alive>>

(* Mutant: a failed reservation is tried again for ever.                   *)
ReserveRetries ==
  /\ request # None
  /\ NothingFits(AlignUp(request))
  /\ FreshBases = {}
  /\ UNCHANGED vars

(* The driver has no room for another chunk: both attempts of ReserveChunk *)
(* fail and the second one throws CudaError through AllocateVirtual.       *)
ReserveFails ==
  /\ request # None
  /\ NothingFits(AlignUp(request))
  /\ FreshBases = {}
  /\ request' = None
  /\ UNCHANGED <<free_ranges_, chunks, held, alive>>

AllocateVirtual == Carve \/ ReserveChunk \/ ReserveFails

(* Mutant: the freed range goes to the end of the vector.                  *)
FreeVirtualAppends(ptr, size) ==
  free_ranges_' = Append(free_ranges_,
                         [start |-> ptr, end |-> ptr + AlignUp(size)])

(* Mutant: "Coalesce with next range." is missing.                         *)
FreeVirtualNoNext(ptr, size) ==
  \E p \in LowerBound(free_ranges_, ptr) :
    LET joinsPrev == p > 1 /\ free_ranges_[p - 1].end = ptr
        start == IF joinsPrev THEN free_ranges_[p - 1].start ELSE ptr
        rest == IF joinsPrev THEN RemoveAt(free_ranges_, p - 1)
                             ELSE free_ranges_
    IN \E k \in LowerBound(rest, start) :
         free_ranges_' = InsertAt(rest, k,
                           [start |-> start, end |-> ptr + AlignUp(size)])

(* The vector after FreeVirtual(ptr, size): the freed range absorbs the    *)
(* range before it, then the range after it, and is inserted where         *)
(* lower_bound says.                                                       *)
InsertCoalesced(ptr, size) ==
  \E p \in LowerBound(free_ranges_, ptr) :
    LET end == ptr + AlignUp(size)
        joinsPrev == p > 1 /\ free_ranges_[p - 1].end = ptr
        start == IF joinsPrev THEN free_ranges_[p - 1].start ELSE ptr
        rest == IF joinsPrev THEN RemoveAt(free_ranges_, p - 1)
                             ELSE free_ranges_
    IN \E q \in IF joinsPrev THEN LowerBound(rest, start) ELSE {p} :
         LET joinsNext == q <= Len(rest) /\ rest[q].start = end
             freed == [start |-> start,
                       end   |-> IF joinsNext THEN rest[q].end ELSE end]
             others == IF joinsNext THEN RemoveAt(rest, q) ELSE rest
         IN \E k \in LowerBound(others, freed.start) :
              free_ranges_' = InsertAt(others, k, freed)

FreeVirtual(h) ==
  /\ alive
  /\ request = None
  /\ InsertCoalesced(h.ptr, h.size)
  /\ held' = held \ {h}
  /\ UNCHANGED <<chunks, request, alive>>

(* ~VmmPool has an empty body.                                             *)
Destroy ==
  /\ alive
  /\ request = None
  /\ alive' = FALSE
  /\ UNCHANGED <<free_ranges_, chunks, held, request>>

Next ==
  \/ \E size \in Sizes : CallAllocateVirtual(size)
  \/ AllocateVirtual
  \/ \E h \in held : FreeVirtual(h)
  \/ Destroy

Spec == Init /\ [][Next]_vars

(* AllocateVirtual is a plain recursive function: once called it runs.     *)
FairSpec == Spec /\ WF_vars(AllocateVirtual)

-----------------------------------------------------------------------------
(* Properties.                                                             *)

(* Every range of the vector and every range handed out (AllocateVirtual)  *)
(* lies below VaEnd, and the rest of the state is well formed.             *)
TypeOK ==
  /\ free_ranges_ \in Seq(FreeRange)
  /\ chunks \subseteq Bases
  /\ held \subseteq [ptr : Address, size : Sizes]
  /\ \A h \in held : HeldEnd(h) \in Address
  /\ request \in Sizes \cup {None}
  /\ alive \in BOOLEAN

Apart(s1, e1, s2, e2) == e1 <= s2 \/ e2 <= s1

InChunk(a) == \E b \in chunks : b <= a /\ a < b + kChunkSize

InFree(a) ==
  \E i \in DOMAIN free_ranges_ : /\ free_ranges_[i].start <= a
                                /\ a < free_ranges_[i].end

InHeld(a) == \E h \in held : h.ptr <= a /\ a < HeldEnd(h)

FreeNonEmpty ==
  \A i \in DOMAIN free_ranges_ : free_ranges_[i].start < free_ranges_[i].end

FreeDisjoint ==
  \A i, j \in DOMAIN free_ranges_ :
    i # j => Apart(free_ranges_[i].start, free_ranges_[i].end,
                   free_ranges_[j].start, free_ranges_[j].end)

HeldDisjoint ==
  \A h, g \in held : h # g => Apart(h.ptr, HeldEnd(h), g.ptr, HeldEnd(g))

FreeApartFromHeld ==
  \A i \in DOMAIN free_ranges_, h \in held :
    Apart(free_ranges_[i].start, free_ranges_[i].end, h.ptr, HeldEnd(h))

NothingLost == \A a \in Address : InChunk(a) <=> InFree(a) \/ InHeld(a)

(* The free ranges and the ranges handed out partition the reserved        *)
(* addresses: no two clients ever get overlapping ranges, no address that  *)
(* a client holds can be handed out again, and splitting, merging and      *)
(* moving ranges in the vector (AllocateVirtual, FreeVirtual) neither      *)
(* loses nor invents an address, in whatever order the driver returns the  *)
(* chunks.                                                                 *)
Partition ==
  /\ FreeNonEmpty
  /\ FreeDisjoint
  /\ HeldDisjoint
  /\ FreeApartFromHeld
  /\ NothingLost

(* "hands out aligned sub-ranges": cuMemMap needs granularity-aligned      *)
(* addresses, and no sequence of splits and merges may break that.         *)
HeldAligned == \A h \in held : h.ptr % Granularity = 0

(* AllocateVirtual goes back to the driver only if no whole chunk is free: *)
(* "reserve a new chunk and try again" needs one new chunk, not several.   *)
NoSpareChunk ==
  [][chunks' # chunks =>
       \A i \in DOMAIN free_ranges_ :
         free_ranges_[i].end - free_ranges_[i].start < kChunkSize]_vars

(* Every call of AllocateVirtual ends, with a range or with an exception:  *)
(* the recursion of AllocateVirtual through ReserveChunk terminates.       *)
AllocateVirtualEnds == (request # None) ~> (request = None)

(* The pool implements the abstract stock of addresses: each Carve,        *)
(* ReserveChunk and FreeVirtual is one step of VaSpace, every other step   *)
(* stutters.                                                               *)
VA == INSTANCE VaSpace WITH
        reserved  <- {a \in Address : InChunk(a)},
        available <- {a \in Address : InFree(a)},
        spans     <- {[start |-> h.ptr, end |-> HeldEnd(h)] : h \in held}

ImplementsVaSpace == VA!Spec

=============================================================================
