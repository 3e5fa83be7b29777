----------------------- MODULE PooledAllocatorProofs -----------------------
(***************************************************************************)
(* Proofs about PooledAllocator, from what is proved of its two parts:     *)
(* VmmAllocatorProofs for each call of VmmAllocator, VmmPoolProofs for     *)
(* each step of VmmPool.                                                   *)
(***************************************************************************)
EXTENDS Sequences, PooledAllocator, VmmAllocatorProofs

PP == INSTANCE VmmPoolProofs WITH Sizes <- {AllocSize(n) : n \in Sizes},
                                  alive <- pool_alive

(* What VmmPool assumes of its constants.                                  *)
LEMMA PoolAssumptions ==
  /\ Granularity \in Nat \ {0}
  /\ kChunkSize \in Nat \ {0}
  /\ VaEnd \in Nat /\ Bases \subseteq Nat /\ \A b \in Bases : b + kChunkSize <= VaEnd
  /\ {AllocSize(n) : n \in Sizes} \subseteq Nat \ {0}
  /\ None \notin {AllocSize(n) : n \in Sizes}
<1>1. {AllocSize(n) : n \in Sizes} \subseteq Nat \ {0}
  BY AllocSizeFacts, SizesAssumption
<1> QED BY <1>1, GranularityAssumption, PoolAssumption, NoneAssumption

-----------------------------------------------------------------------------
(* P and PP are the same pool: their definitions read the same.            *)

LEMMA SameInit == P!Init <=> PP!Init
  BY Zenon DEF P!Init, PP!Init

LEMMA SameCall ==
  ASSUME NEW n
  PROVE  P!CallAllocateVirtual(n) <=> PP!CallAllocateVirtual(n)
  BY Zenon DEF P!CallAllocateVirtual, PP!CallAllocateVirtual

LEMMA SameCarve == P!Carve <=> PP!Carve
  BY Zenon DEF P!Carve, PP!Carve, P!FirstFit, PP!FirstFit, P!Fits, PP!Fits,
               P!AlignUp, PP!AlignUp, P!RemoveAt, PP!RemoveAt

LEMMA SameReserve == P!ReserveChunk <=> PP!ReserveChunk
  BY Zenon DEF P!ReserveChunk, PP!ReserveChunk, P!NothingFits, PP!NothingFits,
               P!Fits, PP!Fits, P!AlignUp, PP!AlignUp, P!FreshBases, PP!FreshBases

LEMMA SameReserveFails == P!ReserveFails <=> PP!ReserveFails
  BY Zenon DEF P!ReserveFails, PP!ReserveFails, P!NothingFits, PP!NothingFits,
               P!Fits, PP!Fits, P!AlignUp, PP!AlignUp, P!FreshBases, PP!FreshBases

LEMMA SameDestroy == P!Destroy <=> PP!Destroy
  BY Zenon DEF P!Destroy, PP!Destroy

LEMMA SameInsert ==
  ASSUME NEW p, NEW n
  PROVE  P!InsertCoalesced(p, n) <=> PP!InsertCoalesced(p, n)
  BY Zenon DEF P!InsertCoalesced, PP!InsertCoalesced, P!LowerBound, PP!LowerBound,
               P!AlignUp, PP!AlignUp, P!RemoveAt, PP!RemoveAt, P!InsertAt, PP!InsertAt

LEMMA SameFree ==
  ASSUME NEW h
  PROVE  P!FreeVirtual(h) <=> PP!FreeVirtual(h)
  BY SameInsert, Zenon DEF P!FreeVirtual, PP!FreeVirtual

LEMMA SameNext == [P!Next]_P!vars <=> [PP!Next]_PP!vars
<1>1. P!Next <=> PP!Next
  BY SameCall, SameCarve, SameReserve, SameReserveFails, SameFree, SameDestroy, Zenon
     DEF P!Next, PP!Next, P!AllocateVirtual, PP!AllocateVirtual
<1> QED BY <1>1, Zenon DEF P!vars, PP!vars

LEMMA SamePartition == P!Partition <=> PP!Partition
  BY Zenon DEF P!Partition, PP!Partition, P!FreeNonEmpty, PP!FreeNonEmpty,
               P!FreeDisjoint, PP!FreeDisjoint, P!HeldDisjoint, PP!HeldDisjoint,
               P!FreeApartFromHeld, PP!FreeApartFromHeld, P!NothingLost, PP!NothingLost,
               P!Apart, PP!Apart, P!InChunk, PP!InChunk, P!InFree, PP!InFree,
               P!InHeld, PP!InHeld, P!HeldEnd, PP!HeldEnd, P!AlignUp, PP!AlignUp,
               P!Address, PP!Address

(* FreeVirtual rounds the size it is given: the size asked for does as     *)
(* well as the rounded one.                                                *)
LEMMA FreedUnrounded ==
  ASSUME NEW ptr, NEW n \in Nat \ {0}, P!InsertCoalesced(ptr, n)
  PROVE  PP!InsertCoalesced(ptr, AllocSize(n))
<1>1. PP!AlignUp(AllocSize(n)) = PP!AlignUp(n)
  <2>1. \A m : PP!AlignUp(m) = AllocSize(m)
    BY Zenon DEF PP!AlignUp, AllocSize
  <2> QED BY <2>1, AllocSizeFacts
<1>2. PP!InsertCoalesced(ptr, n)
  BY SameInsert
<1> DEFINE Inserted(end) ==
      \E p \in PP!LowerBound(free_ranges_, ptr) :
        LET joinsPrev == p > 1 /\ free_ranges_[p - 1].end = ptr
            start == IF joinsPrev THEN free_ranges_[p - 1].start ELSE ptr
            rest == IF joinsPrev THEN PP!RemoveAt(free_ranges_, p - 1)
                                 ELSE free_ranges_
        IN \E q \in IF joinsPrev THEN PP!LowerBound(rest, start) ELSE {p} :
             LET joinsNext == q <= Len(rest) /\ rest[q].start = end
                 freed == [start |-> start,
                           end   |-> IF joinsNext THEN rest[q].end ELSE end]
                 others == IF joinsNext THEN PP!RemoveAt(rest, q) ELSE rest
             IN \E k \in PP!LowerBound(others, freed.start) :
                  free_ranges_' = PP!InsertAt(others, k, freed)
<1>3. \A m : PP!InsertCoalesced(ptr, m) <=> Inserted(ptr + PP!AlignUp(m))
  BY Zenon DEF PP!InsertCoalesced
<1> HIDE DEF Inserted
<1>4. Inserted(ptr + PP!AlignUp(n))
  BY <1>2, <1>3, Zenon
<1>5. Inserted(ptr + PP!AlignUp(AllocSize(n)))
  BY <1>1, <1>4
<1> QED BY <1>3, <1>5, Zenon
-----------------------------------------------------------------------------
(* The inductive invariant: each part keeps its own, and entries_, what is *)
(* mapped and the pool's client agree on what has been handed out.  Else a *)
(* FreeVirtual could be for a range that was never handed out, and memory  *)
(* of a call that threw could lie where another range begins.              *)

RangeOf(p) == [ptr |-> p, size |-> AllocSize(entries_[p].size)]

UnderWay == [bytes : Sizes, tag : Tags]

LinkInv ==
  /\ va_held = {h.ptr : h \in held}
  /\ \A p \in VmmPtrs : RangeOf(p) \in held
  /\ \/ allocating = None /\ request = None
     \/ allocating \in UnderWay /\ request = AllocSize(allocating.bytes) /\ alive
  /\ alive \/ Ptrs # {} => pool_alive
  /\ careful \in BOOLEAN

MappedRange(va) == [ptr |-> va, size |-> gpu.maps[va].size]

MapsHeld == \A va \in DOMAIN gpu.maps : MappedRange(va) \in held

PInv ==
  /\ AInv /\ LinearsInv /\ PP!IInv
  /\ LinkInv /\ MapsHeld
  /\ careful => Mirrored

(* No size is None: an Allocate is under way exactly while the pool        *)
(* serves a request.                                                       *)
LEMMA UnderWayFacts ==
  ASSUME LinkInv
  PROVE  /\ request = None <=> allocating = None
         /\ request # None => /\ allocating \in UnderWay /\ allocating.bytes \in Sizes
                              /\ allocating.tag \in Tags
                              /\ request = AllocSize(allocating.bytes)
                              /\ alive /\ pool_alive
<1>1. \A a \in UnderWay : a # None /\ a.bytes \in Sizes /\ a.tag \in Tags
                          /\ AllocSize(a.bytes) # None
  BY NoneAssumption DEF UnderWay
<1> QED BY <1>1 DEF LinkInv

(* Ranges handed out are not empty and do not overlap: an address is that  *)
(* of one at most.                                                         *)
LEMMA HeldUnique ==
  ASSUME PP!IInv, NEW h \in held, NEW g \in held, h.ptr = g.ptr
  PROVE  h = g
<1>1. PP!TypeOK /\ PP!HeldDisjoint
  BY Zenon DEF PP!IInv, PP!Partition
<1>2. /\ h.ptr \in Int /\ PP!HeldEnd(h) \in Int /\ h.ptr < PP!HeldEnd(h)
      /\ g.ptr \in Int /\ PP!HeldEnd(g) \in Int /\ g.ptr < PP!HeldEnd(g)
  BY <1>1, PP!HeldRange, PoolAssumptions
<1>3. h # g => PP!Apart(h.ptr, PP!HeldEnd(h), g.ptr, PP!HeldEnd(g))
  BY <1>1 DEF PP!HeldDisjoint
<1> QED BY <1>2, <1>3 DEF PP!Apart

LEMMA InitPInv == PooledInit => PInv
<1> SUFFICES ASSUME PooledInit PROVE PInv
  OBVIOUS
<1>1. AInv /\ LinearsInv /\ Mirrored
  BY InitAInv, InitLinears, InitMirrored DEF PooledInit
<1>2. PP!Init
  BY SameInit DEF PooledInit
<1>3. PP!IInv
  BY <1>2, PP!InitIInv, PoolAssumptions
<1>4. held = {} /\ request = None /\ pool_alive = TRUE
  BY <1>2 DEF PP!Init
<1>5. va_held = {} /\ Ptrs = {} /\ allocating = None /\ careful = TRUE
  BY DEF PooledInit, Init, Ptrs
<1>6. LinkInv
  BY <1>4, <1>5 DEF LinkInv, VmmPtrs
<1>7. MapsHeld
  BY DEF PooledInit, Init, NoMemory, MapsHeld
<1> QED BY <1>1, <1>3, <1>6, <1>7 DEF PInv
-----------------------------------------------------------------------------
(* What each step is for the pool, and that it keeps LinkInv.              *)

LEMMA SameLink ==
  ASSUME LinkInv, UNCHANGED <<va_held, entries_, held, allocating, request, alive, pool_alive>>,
         careful' \in BOOLEAN
  PROVE  LinkInv'
  BY DEF LinkInv, VmmPtrs, Ptrs, RangeOf

LEMMA PooledAllocateLink ==
  ASSUME PInv, NEW bytes \in Sizes, NEW tag \in Tags, PooledAllocate(bytes, tag)
  PROVE  PP!CallAllocateVirtual(AllocSize(bytes)) /\ LinkInv'
<1>1. /\ alive /\ PP!CallAllocateVirtual(AllocSize(bytes))
      /\ allocating' = [bytes |-> bytes, tag |-> tag]
      /\ UNCHANGED <<va_held, entries_, alive, careful>>
  BY SameCall DEF PooledAllocate, allocator
<1>2. request' = AllocSize(bytes) /\ UNCHANGED <<held, pool_alive>>
  BY <1>1 DEF PP!CallAllocateVirtual
<1>3. allocating' \in UnderWay /\ allocating'.bytes = bytes
  BY <1>1 DEF UnderWay
<1>4. LinkInv'
  BY <1>1, <1>2, <1>3 DEF PInv, LinkInv, VmmPtrs, Ptrs, RangeOf
<1> QED BY <1>1, <1>4

LEMMA PooledReserveLink ==
  ASSUME PInv, PooledReserve
  PROVE  PP!ReserveChunk /\ LinkInv'
<1>1. PP!ReserveChunk /\ UNCHANGED <<va_held, entries_, alive, allocating, careful>>
  BY SameReserve DEF PooledReserve, allocator
<1>2. UNCHANGED <<held, request, pool_alive>>
  BY <1>1 DEF PP!ReserveChunk
<1> QED BY <1>1, <1>2, SameLink DEF PInv, LinkInv

LEMMA PooledReserveFailsLink ==
  ASSUME PInv, PooledReserveFails
  PROVE  PP!ReserveFails /\ LinkInv'
<1>1. /\ PP!ReserveFails /\ allocating' = None
      /\ UNCHANGED <<va_held, entries_, alive, careful>>
  BY SameReserveFails DEF PooledReserveFails, allocator
<1>2. request' = None /\ UNCHANGED <<held, pool_alive>>
  BY <1>1 DEF PP!ReserveFails
<1>3. LinkInv'
  BY <1>1, <1>2 DEF PInv, LinkInv, VmmPtrs, Ptrs, RangeOf
<1> QED BY <1>1, <1>3

(* The range that AllocateVirtual has just handed out is the one that      *)
(* AllocateVmm uses.                                                       *)
LEMMA PooledAllocateEndsFacts ==
  ASSUME PInv, PooledAllocateEnds
  PROVE  /\ PP!Carve /\ request' = None /\ allocating' = None
         /\ UNCHANGED <<pool_alive, careful>>
         /\ alive /\ pool_alive
         /\ allocating.bytes \in Sizes /\ allocating.tag \in Tags
         /\ \E va : /\ held' = held \cup {[ptr |-> va, size |-> AllocSize(allocating.bytes)]}
                    /\ \/ AllocateVmmThrows(allocating.bytes, va)
                       \/ \E h : AllocateVmm(allocating.bytes, allocating.tag, va, h)
<1>1. /\ P!Carve /\ PP!Carve /\ allocating' = None /\ UNCHANGED careful
      /\ \E r \in held' \ held :
           \/ AllocateVmmThrows(allocating.bytes, r.ptr)
           \/ \E h : AllocateVmm(allocating.bytes, allocating.tag, r.ptr, h)
  BY SameCarve DEF PooledAllocateEnds
<1>2. request # None /\ request' = None /\ pool_alive' = pool_alive
      /\ \E va : held' = held \cup {[ptr |-> va, size |-> request]}
  BY <1>1 DEF PP!Carve
<1>3. /\ allocating.bytes \in Sizes /\ allocating.tag \in Tags
      /\ request = AllocSize(allocating.bytes) /\ alive /\ pool_alive
  BY <1>2, UnderWayFacts DEF PInv
<1>4. PICK va : held' = held \cup {[ptr |-> va, size |-> request]}
  BY <1>2
<1>5. \A r \in held' \ held : r.ptr = va
  BY <1>4
<1> QED BY <1>1, <1>2, <1>3, <1>4, <1>5

LEMMA PooledAllocateEndsLink ==
  ASSUME PInv, PooledAllocateEnds
  PROVE  PP!Carve /\ LinkInv'
<1> DEFINE bytes == allocating.bytes
           tag == allocating.tag
<1>1. /\ PP!Carve /\ request' = None /\ allocating' = None
      /\ UNCHANGED <<pool_alive, careful>> /\ alive /\ pool_alive
      /\ bytes \in Sizes
  BY PooledAllocateEndsFacts
<1>2. PICK va : /\ held' = held \cup {[ptr |-> va, size |-> AllocSize(bytes)]}
                /\ \/ AllocateVmmThrows(bytes, va)
                   \/ \E h : AllocateVmm(bytes, tag, va, h)
  BY PooledAllocateEndsFacts
<1> HIDE DEF bytes, tag
<1>3. AInv /\ LinkInv
  BY DEF PInv
<1>4. /\ va_held' = va_held \cup {va} /\ alive' = alive
      /\ \A p \in VmmPtrs' : RangeOf(p)' \in held'
  <2>1. CASE AllocateVmmThrows(bytes, va)
    BY <1>2, <1>3, <2>1 DEF AllocateVmmThrows, LinkInv, VmmPtrs, Ptrs, RangeOf
  <2>2. CASE \E h : AllocateVmm(bytes, tag, va, h)
    <3>1. PICK h : AllocateVmm(bytes, tag, va, h)
      BY <2>2
    <3>2. HasAllocated(bytes, tag, va, h)
      BY <1>1, <1>3, <3>1, AllocateVmmFacts
    <3>3. /\ Ptrs' = Ptrs \cup {va} /\ entries_'[va].size = bytes
          /\ \A p \in Ptrs : entries_'[p] = entries_[p]
      BY <3>2 DEF HasAllocated, Ptrs
    <3>4. ASSUME NEW p \in VmmPtrs'
          PROVE  RangeOf(p)' \in held'
      <4>1. CASE p = va
        BY <1>2, <3>3, <4>1 DEF RangeOf
      <4>2. CASE p # va
        <5>1. p \in VmmPtrs /\ RangeOf(p)' = RangeOf(p)
          BY <3>3, <4>2 DEF VmmPtrs, RangeOf
        <5> QED BY <1>2, <1>3, <5>1 DEF LinkInv
      <4> QED BY <4>1, <4>2
    <3> QED BY <3>1, <3>4 DEF AllocateVmm
  <2> QED BY <1>2, <2>1, <2>2
<1>5. va_held' = {h.ptr : h \in held'}
  <2> DEFINE r == [ptr |-> va, size |-> AllocSize(bytes)]
  <2>1. r.ptr = va /\ held' = held \cup {r}
    BY <1>2
  <2>2. va_held = {h.ptr : h \in held} /\ va_held' = va_held \cup {va}
    BY <1>3, <1>4 DEF LinkInv
  <2> HIDE DEF r
  <2> QED BY <2>1, <2>2
<1> QED BY <1>1, <1>3, <1>4, <1>5 DEF LinkInv
LEMMA PooledAllocateFallbackLink ==
  ASSUME PInv, NEW bytes \in Sizes, PooledAllocateFallback(bytes)
  PROVE  UNCHANGED PP!vars /\ LinkInv'
<1>1. PICK ptr \in Linears : AllocateFallback(bytes, ptr)
  BY DEF PooledAllocateFallback
<1>2. /\ UNCHANGED <<free_ranges_, chunks, held, request, pool_alive, allocating, careful>>
      /\ alive
  BY DEF PooledAllocateFallback, pool
<1>3. /\ entries_' = Put(entries_, ptr, FallbackEntry(bytes))
      /\ UNCHANGED <<va_held, alive>>
  BY <1>1 DEF AllocateFallback
<1>4. Ptrs' = Ptrs \cup {ptr} /\ ~entries_'[ptr].is_vmm
      /\ \A p \in Ptrs : p # ptr => entries_'[p] = entries_[p]
  BY <1>3 DEF Put, Ptrs, FallbackEntry
<1>5. \A p \in VmmPtrs' : RangeOf(p)' \in held'
  BY <1>2, <1>4 DEF PInv, LinkInv, VmmPtrs, RangeOf
<1>6. LinkInv'
  BY <1>2, <1>3, <1>5 DEF PInv, LinkInv
<1> QED BY <1>2, <1>6 DEF PP!vars

(* What Deallocate gives back is what it was given: the range of the entry.*)
LEMMA PooledDeallocateLink ==
  ASSUME PInv, NEW p \in Ptrs, PooledDeallocate(p)
  PROVE  /\ UNCHANGED PP!vars \/ \E h \in held : PP!FreeVirtual(h)
         /\ LinkInv'
<1>1. /\ AInv /\ LinkInv /\ PP!IInv
      /\ allocating = None /\ request = None /\ pool_alive
  BY UnderWayFacts DEF PInv, LinkInv, PooledDeallocate
<1>2. /\ Deallocate(p) /\ UNCHANGED allocating
      /\ careful' = (careful /\ (alive => Resident(p)))
  BY DEF PooledDeallocate
<1>3. /\ Ptrs' = Ptrs \ {p} /\ alive' = alive
      /\ \A q \in Ptrs' : entries_'[q] = entries_[q]
      /\ DeallocateVmm(p) \/ DeallocateFallback(p)
  BY <1>2 DEF Deallocate, RestrictDomain, Restrict, Ptrs
<1>4. careful' \in BOOLEAN
  BY <1>2
<1>5. CASE entries_[p].is_vmm
  <2> DEFINE n == entries_[p].size
             h == [ptr |-> p, size |-> AllocSize(n)]
  <2>1. h \in held /\ n \in Nat \ {0}
    BY <1>1, <1>5, EntryFacts DEF LinkInv, VmmPtrs, RangeOf
  <2>2. /\ P!InsertCoalesced(p, n) /\ held' = {r \in held : r.ptr # p}
        /\ UNCHANGED <<chunks, request, pool_alive>>
    BY <1>5 DEF PooledDeallocate, FreedBytes
  <2>3. PP!InsertCoalesced(p, AllocSize(n))
    BY <2>1, <2>2, FreedUnrounded
  <2>4. \A r \in held : r.ptr = p => r = h
    <3>1. h.ptr = p
      OBVIOUS
    <3> HIDE DEF h
    <3> QED BY <1>1, <2>1, <3>1, HeldUnique
  <2>5. held' = held \ {h}
    BY <2>2, <2>4
  <2>6. PP!FreeVirtual(h)
    <3>1. h.ptr = p /\ h.size = AllocSize(n)
      OBVIOUS
    <3> HIDE DEF h, n
    <3>2. PP!InsertCoalesced(h.ptr, h.size)
      BY <2>3, <3>1
    <3> QED BY <1>1, <2>2, <2>5, <3>2 DEF PP!FreeVirtual
  <2>7. va_held' = {r.ptr : r \in held'}
    <3>1. va_held' = va_held \ {p}
      BY <1>3, <1>5 DEF DeallocateVmm, DeallocateFallback
    <3> QED BY <1>1, <2>2, <3>1 DEF LinkInv
  <2>8. \A q \in VmmPtrs' : RangeOf(q)' \in held'
    <3> SUFFICES ASSUME NEW q \in VmmPtrs' PROVE RangeOf(q)' \in held'
      OBVIOUS
    <3>1. q \in VmmPtrs /\ q # p /\ RangeOf(q)' = RangeOf(q)
      BY <1>3 DEF VmmPtrs, RangeOf
    <3>2. RangeOf(q) \in held /\ RangeOf(q).ptr = q
      BY <1>1, <3>1 DEF LinkInv, RangeOf
    <3> QED BY <2>2, <3>1, <3>2
  <2>9. LinkInv'
    BY <1>1, <1>2, <1>3, <1>4, <2>2, <2>7, <2>8 DEF LinkInv
  <2> QED BY <2>1, <2>6, <2>9
<1>6. CASE ~entries_[p].is_vmm
  <2>1. UNCHANGED <<free_ranges_, chunks, held, request, pool_alive>>
    BY <1>6 DEF PooledDeallocate, pool
  <2>2. va_held' = va_held
    BY <1>3, <1>6 DEF DeallocateVmm, DeallocateFallback
  <2>3. \A q \in VmmPtrs' : RangeOf(q)' \in held'
    BY <1>1, <1>3, <2>1 DEF LinkInv, VmmPtrs, RangeOf
  <2>4. LinkInv'
    BY <1>1, <1>2, <1>3, <1>4, <2>1, <2>2, <2>3 DEF LinkInv
  <2> QED BY <2>1, <2>4 DEF PP!vars
<1> QED BY <1>5, <1>6

(* Whatever a call does to an entry's memory, its address and its size     *)
(* stay.                                                                   *)
LEMMA PhysicalKeepsEntries ==
  ASSUME AInv, PhysicalNext
  PROVE  /\ UNCHANGED <<va_held, alive>> /\ Ptrs' = Ptrs
         /\ \A p \in Ptrs : /\ entries_'[p].size = entries_[p].size
                            /\ entries_'[p].is_vmm = entries_[p].is_vmm
<1>1. ASSUME NEW p \in Ptrs, ReleasePhysical(p)
      PROVE  HasAssigned(entries_', p, NoHandle) /\ UNCHANGED <<va_held, alive>>
  BY <1>1, ReleasePhysicalFacts
<1>2. ASSUME NEW p \in Ptrs, NEW h \in Handles, NEW d \in Data, RestorePhysical(p, h, d)
      PROVE  HasAssigned(entries_', p, h) /\ UNCHANGED <<va_held, alive>>
  BY <1>2, RestorePhysicalFacts
<1>3. ASSUME NEW p \in Ptrs, RestorePhysicalThrows(p)
      PROVE  UNCHANGED <<va_held, entries_, alive>>
  BY <1>3 DEF RestorePhysicalThrows
<1>4. ASSUME NEW dst \in Ptrs, NEW src \in Ptrs, SharePhysical(dst, src)
      PROVE  /\ HasAssigned(entries_', dst, entries_[src].physical_handle)
             /\ UNCHANGED <<va_held, alive>>
  BY <1>4, SharePhysicalFacts
<1>5. ASSUME NEW dst \in Ptrs, NEW src \in Ptrs, SharePhysicalThrows(dst, src)
      PROVE  UNCHANGED <<va_held, entries_, alive>>
  BY <1>5 DEF SharePhysicalThrows
<1>6. /\ UNCHANGED <<va_held, alive>>
      /\ entries_' = entries_ \/ \E p, h : HasAssigned(entries_', p, h)
  BY <1>1, <1>2, <1>3, <1>4, <1>5 DEF PhysicalNext
<1> QED BY <1>6 DEF HasAssigned, Ptrs

LEMMA PooledPhysicalLink ==
  ASSUME PInv, PooledPhysical
  PROVE  UNCHANGED PP!vars /\ LinkInv'
<1>1. /\ AInv /\ LinkInv /\ PhysicalNext
      /\ UNCHANGED <<free_ranges_, chunks, held, request, pool_alive, allocating>>
      /\ careful' \in BOOLEAN
  BY DEF PInv, PooledPhysical, pool
<1>2. /\ UNCHANGED <<va_held, alive>> /\ Ptrs' = Ptrs
      /\ \A p \in Ptrs : /\ entries_'[p].size = entries_[p].size
                         /\ entries_'[p].is_vmm = entries_[p].is_vmm
  BY <1>1, PhysicalKeepsEntries
<1>3. LinkInv'
  BY <1>1, <1>2 DEF LinkInv, VmmPtrs, RangeOf
<1> QED BY <1>1, <1>3 DEF PP!vars

LEMMA PooledDestroyLink ==
  ASSUME PInv, PooledDestroy
  PROVE  UNCHANGED PP!vars /\ LinkInv'
<1>1. /\ allocating = None /\ alive /\ alive' = FALSE
      /\ UNCHANGED <<free_ranges_, chunks, held, request, pool_alive, allocating,
                     careful, va_held, entries_>>
  BY DEF PooledDestroy, Destroy, pool
<1>2. request = None
  BY <1>1, UnderWayFacts DEF PInv
<1>3. LinkInv'
  BY <1>1, <1>2 DEF PInv, LinkInv, VmmPtrs, Ptrs, RangeOf
<1> QED BY <1>1, <1>3 DEF PP!vars

LEMMA PooledDestroyPoolLink ==
  ASSUME PInv, PooledDestroyPool
  PROVE  PP!Destroy /\ LinkInv'
<1>1. /\ ~alive /\ Ptrs = {} /\ PP!Destroy
      /\ UNCHANGED <<va_held, entries_, alive, allocating, careful>>
  BY SameDestroy DEF PooledDestroyPool, allocator
<1>2. UNCHANGED <<held, request>>
  BY <1>1 DEF PP!Destroy
<1>3. LinkInv'
  BY <1>1, <1>2 DEF PInv, LinkInv, VmmPtrs, Ptrs, RangeOf
<1> QED BY <1>1, <1>3
-----------------------------------------------------------------------------
(* What is mapped lies in ranges that are handed out.                      *)

LEMMA MapsHeldKept ==
  ASSUME MapsHeld, held \subseteq held',
         \A va \in DOMAIN gpu'.maps :
           \/ va \in DOMAIN gpu.maps /\ gpu'.maps[va] = gpu.maps[va]
           \/ [ptr |-> va, size |-> gpu'.maps[va].size] \in held'
  PROVE  MapsHeld'
  BY DEF MapsHeld, MappedRange

LEMMA PooledAllocateEndsMaps ==
  ASSUME PInv, PooledAllocateEnds
  PROVE  MapsHeld'
<1> DEFINE bytes == allocating.bytes
           tag == allocating.tag
<1>1. bytes \in Sizes
  BY PooledAllocateEndsFacts
<1>2. PICK va : /\ held' = held \cup {[ptr |-> va, size |-> AllocSize(bytes)]}
                /\ \/ AllocateVmmThrows(bytes, va)
                   \/ \E h : AllocateVmm(bytes, tag, va, h)
  BY PooledAllocateEndsFacts
<1> HIDE DEF bytes, tag
<1>3. AInv /\ MapsHeld
  BY DEF PInv
<1>4. \A x \in DOMAIN gpu'.maps :
        \/ x \in DOMAIN gpu.maps /\ gpu'.maps[x] = gpu.maps[x]
        \/ x = va /\ gpu'.maps[x].size = AllocSize(bytes)
  <2>1. CASE AllocateVmmThrows(bytes, va)
    <3>1. gpu' = gpu \/ \E h : HasGrown(va, AllocSize(bytes), h)
      BY <1>1, <1>3, <2>1, AllocateVmmThrowsFacts
    <3> QED BY <3>1 DEF HasGrown
  <2>2. CASE \E h : AllocateVmm(bytes, tag, va, h)
    <3>1. PICK h : HasAllocated(bytes, tag, va, h)
      BY <1>1, <1>3, <2>2, AllocateVmmFacts
    <3> QED BY <3>1 DEF HasAllocated
  <2> QED BY <1>2, <2>1, <2>2
<1>5. held \subseteq held' /\ [ptr |-> va, size |-> AllocSize(bytes)] \in held'
  BY <1>2
<1>6. \A x \in DOMAIN gpu'.maps :
        \/ x \in DOMAIN gpu.maps /\ gpu'.maps[x] = gpu.maps[x]
        \/ [ptr |-> x, size |-> gpu'.maps[x].size] \in held'
  BY <1>4, <1>5
<1> QED BY <1>3, <1>5, <1>6, MapsHeldKept

LEMMA PooledDeallocateMaps ==
  ASSUME PInv, NEW p \in Ptrs, PooledDeallocate(p)
  PROVE  MapsHeld'
<1>1. AInv /\ MapsHeld /\ Deallocate(p)
  BY DEF PInv, PooledDeallocate
<1>2. CASE entries_[p].is_vmm
  <2>1. p \in VmmPtrs /\ gpu' = Unbacked(p)
    BY <1>1, <1>2 DEF Deallocate, DeallocateVmm, DeallocateFallback, VmmPtrs
  <2>2. HasUnbacked(gpu', p) /\ held' = {r \in held : r.ptr # p}
    BY <1>1, <1>2, <2>1, UnbackedFacts DEF PooledDeallocate
  <2>3. \A x \in DOMAIN gpu'.maps :
          x # p /\ x \in DOMAIN gpu.maps /\ gpu'.maps[x] = gpu.maps[x]
    BY <2>2 DEF HasUnbacked
  <2> QED BY <1>1, <2>2, <2>3 DEF MapsHeld, MappedRange
<1>3. CASE ~entries_[p].is_vmm
  <2>1. held' = held /\ gpu' = CuMemFree(gpu, p) /\ WellFormed(gpu) /\ 0 \in Nat
    BY <1>1, <1>3 DEF PooledDeallocate, pool, Deallocate, DeallocateVmm,
                      DeallocateFallback, AInv
  <2>2. gpu'.maps = gpu.maps
    BY <2>1, LinearFacts
  <2> QED BY <1>1, <2>1, <2>2 DEF MapsHeld, MappedRange
<1> QED BY <1>2, <1>3

(* A call maps memory for an entry over the entry's size, or not at all.   *)
LEMMA PhysicalMaps ==
  ASSUME AInv, PhysicalNext, NEW x \in DOMAIN gpu'.maps
  PROVE  \/ x \in DOMAIN gpu.maps /\ gpu'.maps[x] = gpu.maps[x]
         \/ x \in VmmPtrs /\ gpu'.maps[x].size = AllocSize(entries_[x].size)
<1>1. ASSUME NEW p \in Ptrs, ReleasePhysical(p)
      PROVE  x \in DOMAIN gpu.maps /\ gpu'.maps[x] = gpu.maps[x]
  BY <1>1, ReleasePhysicalFacts DEF HasUnbacked
<1>2. ASSUME NEW p \in Ptrs, NEW h, NEW d, RestorePhysical(p, h, d)
      PROVE  \/ x \in DOMAIN gpu.maps /\ gpu'.maps[x] = gpu.maps[x]
             \/ x \in VmmPtrs /\ gpu'.maps[x].size = AllocSize(entries_[x].size)
  <2>1. p \in VmmPtrs /\ HasRestored(p, h)
    BY <1>2, RestorePhysicalFacts
  <2> QED BY <2>1 DEF HasRestored
<1>3. ASSUME NEW p \in Ptrs, RestorePhysicalThrows(p)
      PROVE  \/ x \in DOMAIN gpu.maps /\ gpu'.maps[x] = gpu.maps[x]
             \/ x \in VmmPtrs /\ gpu'.maps[x].size = AllocSize(entries_[x].size)
  <2>1. p \in VmmPtrs /\ (gpu' = gpu \/ \E h : HasGrown(p, AllocSize(entries_[p].size), h))
    BY <1>3, RestorePhysicalThrowsFacts
  <2> QED BY <2>1 DEF HasGrown
<1>4. ASSUME NEW dst \in Ptrs, NEW src \in Ptrs,
             SharePhysical(dst, src) \/ SharePhysicalThrows(dst, src)
      PROVE  \/ x \in DOMAIN gpu.maps /\ gpu'.maps[x] = gpu.maps[x]
             \/ x \in VmmPtrs /\ gpu'.maps[x].size = AllocSize(entries_[x].size)
  <2>1. PICK u, h, access :
          /\ dst \in VmmPtrs /\ HasUnbacked(u, dst)
          /\ gpu' = u \/ HasMapped(u, gpu', dst, AllocSize(entries_[dst].size), h, access)
    BY <1>4, SharePhysicalFacts, SharePhysicalThrowsFacts
  <2> QED BY <2>1 DEF HasUnbacked, HasMapped
<1> QED BY <1>1, <1>2, <1>3, <1>4 DEF PhysicalNext

LEMMA MapsStep ==
  ASSUME PInv, [PooledNext]_pooledVars
  PROVE  MapsHeld'
<1>1. AInv /\ LinkInv /\ MapsHeld
  BY DEF PInv
<1>2. ASSUME UNCHANGED <<gpu, held>>
      PROVE  MapsHeld'
  BY <1>1, <1>2 DEF MapsHeld, MappedRange
<1>3. ASSUME NEW bytes \in Sizes, PooledAllocateFallback(bytes)
      PROVE  MapsHeld'
  <2>1. gpu'.maps = gpu.maps /\ held' = held
    BY <1>1, <1>3, AllocateFallbackFacts DEF PooledAllocateFallback, HasFallback, pool
  <2> QED BY <1>1, <2>1 DEF MapsHeld, MappedRange
<1>4. CASE PooledPhysical
  <2>1. PhysicalNext /\ held' = held
    BY <1>4 DEF PooledPhysical, pool
  <2>2. \A x \in DOMAIN gpu'.maps :
          \/ x \in DOMAIN gpu.maps /\ gpu'.maps[x] = gpu.maps[x]
          \/ x \in VmmPtrs /\ gpu'.maps[x].size = AllocSize(entries_[x].size)
    BY <1>1, <2>1, PhysicalMaps
  <2>3. \A x \in VmmPtrs : [ptr |-> x, size |-> AllocSize(entries_[x].size)] \in held
    BY <1>1 DEF LinkInv, RangeOf
  <2> QED BY <1>1, <2>1, <2>2, <2>3, MapsHeldKept
<1>5. ASSUME PooledReserve \/ PooledReserveFails \/ PooledDestroyPool
             \/ \E bytes \in Sizes, tag \in Tags : PooledAllocate(bytes, tag)
      PROVE  UNCHANGED <<gpu, held>>
  BY <1>5 DEF PooledReserve, PooledReserveFails, PooledDestroyPool, PooledAllocate,
              P!ReserveChunk, P!ReserveFails, P!Destroy, P!CallAllocateVirtual, allocator
<1>6. ASSUME PooledDestroy \/ UNCHANGED pooledVars
      PROVE  UNCHANGED <<gpu, held>>
  BY <1>6 DEF PooledDestroy, Destroy, pool, pooledVars, allocator
<1> QED BY <1>2, <1>3, <1>4, <1>5, <1>6, PooledAllocateEndsMaps, PooledDeallocateMaps
        DEF PooledNext

-----------------------------------------------------------------------------
(* Every step keeps PInv.                                                  *)

(* A step of PooledAllocator is one of VmmPool, or the pool does not see   *)
(* it.                                                                     *)
LEMMA PoolStep ==
  ASSUME PInv, [PooledNext]_pooledVars
  PROVE  [PP!Next]_PP!vars /\ LinkInv'
<1>1. ASSUME NEW bytes \in Sizes, NEW tag \in Tags, PooledAllocate(bytes, tag)
      PROVE  PP!Next /\ LinkInv'
  BY <1>1, PooledAllocateLink DEF PP!Next
<1>2. CASE PooledReserve
  BY <1>2, PooledReserveLink DEF PP!Next, PP!AllocateVirtual
<1>3. CASE PooledReserveFails
  BY <1>3, PooledReserveFailsLink DEF PP!Next, PP!AllocateVirtual
<1>4. CASE PooledAllocateEnds
  BY <1>4, PooledAllocateEndsLink DEF PP!Next, PP!AllocateVirtual
<1>5. CASE \E bytes \in Sizes : PooledAllocateFallback(bytes)
  BY <1>5, PooledAllocateFallbackLink
<1>6. CASE \E p \in Ptrs : PooledDeallocate(p)
  BY <1>6, PooledDeallocateLink DEF PP!Next
<1>7. CASE PooledPhysical
  BY <1>7, PooledPhysicalLink
<1>8. CASE PooledDestroy
  BY <1>8, PooledDestroyLink
<1>9. CASE PooledDestroyPool
  BY <1>9, PooledDestroyPoolLink DEF PP!Next
<1>10. CASE UNCHANGED pooledVars
  <2>1. /\ UNCHANGED <<va_held, entries_, held, allocating, request, alive, pool_alive>>
        /\ careful' = careful /\ UNCHANGED PP!vars
    BY <1>10 DEF pooledVars, allocator, pool, PP!vars
  <2> QED BY <2>1, SameLink DEF PInv, LinkInv
<1> QED BY <1>1, <1>2, <1>3, <1>4, <1>5, <1>6, <1>7, <1>8, <1>9, <1>10 DEF PooledNext

LEMMA AllocatorStep ==
  ASSUME PInv, [PooledNext]_pooledVars
  PROVE  AInv' /\ LinearsInv'
<1>1. AInv /\ LinearsInv /\ alive \in BOOLEAN
  BY DEF PInv, AInv, TypeOK
<1>2. ASSUME UNCHANGED allocator
      PROVE  AInv' /\ LinearsInv'
  BY <1>1, <1>2, SameAInv DEF allocator, LinearsInv, Ptrs
<1>3. CASE PooledAllocateEnds
  <2> DEFINE bytes == allocating.bytes
             tag == allocating.tag
  <2>1. /\ bytes \in Sizes /\ tag \in Tags
        /\ \E va : \/ AllocateVmmThrows(bytes, va)
                   \/ \E h : AllocateVmm(bytes, tag, va, h)
    BY <1>3, PooledAllocateEndsFacts
  <2> HIDE DEF bytes, tag
  <2> QED BY <1>1, <2>1, AllocateVmmAInv, AllocateVmmLinears, AllocateVmmThrowsAInv,
             AllocateVmmThrowsLinears
<1>4. ASSUME NEW bytes \in Sizes, PooledAllocateFallback(bytes)
      PROVE  AInv' /\ LinearsInv'
  BY <1>1, <1>4, AllocateFallbackAInv, AllocateFallbackLinears
     DEF PooledAllocateFallback
<1>5. CASE \E p \in Ptrs : PooledDeallocate(p)
  BY <1>1, <1>5, DeallocateAInv, DeallocateLinears DEF PooledDeallocate
<1>6. CASE PooledPhysical
  BY <1>1, <1>6, PhysicalNextAInv, PhysicalNextLinears DEF PooledPhysical
<1>7. CASE PooledDestroy
  BY <1>1, <1>7, SameAInv DEF PooledDestroy, Destroy, LinearsInv, Ptrs
<1> QED BY <1>2, <1>3, <1>4, <1>5, <1>6, <1>7
        DEF PooledNext, PooledAllocate, PooledReserve, PooledReserveFails,
            PooledDestroyPool, pooledVars

(* The steps of a client that is careful keep what a careful client relies *)
(* on, and the contents of what they do not name, and only those that      *)
(* throw lose memory or addresses.                                         *)
LEMMA CarefulStep ==
  ASSUME PInv, [PooledNext]_pooledVars, careful'
  PROVE  careful /\ Mirrored' /\ KeepsContents /\ OnlyThrowsLose
<1>1. AInv /\ careful \in BOOLEAN
  BY DEF PInv, LinkInv
<1>2. CASE PooledPhysical
  <2>1. careful /\ CarefulPhysical
    BY <1>2 DEF PooledPhysical
  <2> QED BY <1>1, <2>1, CarefulPhysicalMirrored, CarefulPhysicalContents,
             CarefulPhysicalLoses DEF PInv
<1>3. CASE \E p \in Ptrs : PooledDeallocate(p)
  <2>1. PICK p \in Ptrs : PooledDeallocate(p)
    BY <1>3
  <2>2. careful /\ Mirrored /\ Deallocate(p)
    BY <1>1, <2>1 DEF PooledDeallocate, PInv
  <2> QED BY <1>1, <2>2, DeallocateMirrored, DeallocateContents, DeallocateLoses
<1>4. CASE ~PooledPhysical /\ ~\E p \in Ptrs : PooledDeallocate(p)
  <2>1. careful' = careful
    BY <1>4 DEF PooledNext, PooledAllocate, PooledReserve, PooledReserveFails,
                PooledAllocateEnds, PooledAllocateFallback, PooledDestroy,
                PooledDestroyPool, pooledVars
  <2>2. careful /\ Mirrored
    BY <1>1, <2>1 DEF PInv
  <2>3. ASSUME UNCHANGED <<gpu, va_held, entries_>>
        PROVE  Mirrored' /\ KeepsContents /\ OnlyThrowsLose
    BY <2>2, <2>3, SameMirrored, SameLoses DEF KeepsContents
  <2>4. CASE PooledAllocateEnds
    <3> DEFINE bytes == allocating.bytes
               tag == allocating.tag
    <3>1. /\ bytes \in Sizes
          /\ \E va : \/ AllocateVmmThrows(bytes, va)
                     \/ \E h : AllocateVmm(bytes, tag, va, h)
      BY <2>4, PooledAllocateEndsFacts
    <3> HIDE DEF bytes, tag
    <3>2. CASE \E va : AllocateVmmThrows(bytes, va)
      BY <1>1, <2>2, <3>1, <3>2, AllocateVmmThrowsMirrored, AllocateVmmThrowsContents,
         AllocateVmmThrowsLoses
    <3>3. CASE \E va, h : AllocateVmm(bytes, tag, va, h)
      BY <1>1, <2>2, <3>1, <3>3, AllocateVmmMirrored, AllocateVmmContents,
         AllocateVmmLoses
    <3> QED BY <2>2, <3>1, <3>2, <3>3
  <2>5. CASE \E bytes \in Sizes : PooledAllocateFallback(bytes)
    BY <1>1, <2>2, <2>5, AllocateFallbackMirrored, AllocateFallbackContents,
       AllocateFallbackLoses DEF PooledAllocateFallback
  <2> QED BY <1>4, <2>2, <2>3, <2>4, <2>5
          DEF PooledNext, PooledAllocate, PooledReserve, PooledReserveFails,
              PooledDestroy, Destroy, PooledDestroyPool, pooledVars, allocator
<1> QED BY <1>2, <1>3, <1>4

LEMMA NextPInv == PInv /\ [PooledNext]_pooledVars => PInv'
<1> SUFFICES ASSUME PInv, [PooledNext]_pooledVars PROVE PInv'
  OBVIOUS
<1>1. [PP!Next]_PP!vars /\ LinkInv'
  BY PoolStep
<1>2. PP!IInv'
  <2>1. PP!IInv
    BY DEF PInv
  <2> QED BY <1>1, <2>1, PP!NextIInv, PoolAssumptions
<1>3. AInv' /\ LinearsInv'
  BY AllocatorStep
<1>4. careful' => Mirrored'
  BY CarefulStep
<1>5. MapsHeld'
  BY MapsStep
<1> QED BY <1>1, <1>2, <1>3, <1>4, <1>5 DEF PInv

LEMMA PooledInvariance == PooledSpec => []PInv
  BY InitPInv, NextPInv, PTL DEF PooledSpec
-----------------------------------------------------------------------------
(* The theorems.                                                           *)

(* The allocator's state stays well formed, and entries_ has a VMM entry   *)
(* for addresses of the pool and a fallback entry for the others, whatever *)
(* a client calls.                                                         *)
THEOREM AllocatorTypeCorrect == PooledSpec => []TypeOK
<1>1. PInv => TypeOK
  BY DEF PInv, AInv
<1> QED BY <1>1, PooledInvariance, PTL

(* No sequence of calls of VmmAllocator leaves memory mapped at a range    *)
(* that VmmPool may hand out again, or gives a range back that an entry    *)
(* uses.                                                                   *)
THEOREM FreedRangesAreUnmapped == PooledSpec => []PoolRangesUnmapped
<1>1. PInv => PoolRangesUnmapped
  BY RangesUnmapped DEF PInv
<1> QED BY <1>1, PooledInvariance, PTL

(* VmmAllocator calls VmmPool only as VmmPool's specification has its      *)
(* clients do: every step is one of the pool or is not seen by it, and     *)
(* what is given back is a range that was handed out.                      *)
THEOREM PoolIsUsedAsSpecified == PooledSpec => PoolUsed
<1>1. PooledInit => P!Init
  BY DEF PooledInit
<1>2. PInv /\ [PooledNext]_pooledVars => [P!Next]_P!vars
  BY PoolStep, SameNext
<1> QED BY <1>1, <1>2, PooledInvariance, PTL DEF PooledSpec, PoolUsed, P!Spec

(* So the pool under the allocator is the abstract stock of addresses too. *)
THEOREM PooledImplementsVaSpace == PooledSpec => PP!ImplementsVaSpace
<1>1. PooledInit => PP!Init
  BY SameInit DEF PooledInit
<1>2. PInv /\ [PooledNext]_pooledVars => [PP!Next]_PP!vars
  BY PoolStep
<1>3. PooledSpec => PP!Spec
  BY <1>1, <1>2, PooledInvariance, PTL DEF PooledSpec, PP!Spec
<1>4. PP!Spec => PP!ImplementsVaSpace
  BY PP!Refinement, PoolAssumptions
<1> QED BY <1>3, <1>4, PTL

(* So the free ranges and the ranges handed out partition the reserved     *)
(* addresses under Allocate, Deallocate and the destructor too.            *)
THEOREM PoolStaysPartitioned == PooledSpec => []PoolPartition
<1>1. PInv => PoolPartition
  BY SamePartition DEF PInv, PP!IInv, PoolPartition
<1> QED BY <1>1, PooledInvariance, PTL

(* What is mapped fills a range that is handed out, to its end: the sizes  *)
(* of those are rounded.                                                   *)
LEMMA ExtentHeld ==
  ASSUME PInv, NEW va \in DOMAIN gpu.maps
  PROVE  /\ MappedRange(va) \in held
         /\ va \in Int /\ PP!HeldEnd(MappedRange(va)) \in Int
         /\ va \in PP!Address /\ PP!HeldEnd(MappedRange(va)) \in PP!Address
         /\ Extent(va) = va .. PP!HeldEnd(MappedRange(va)) - 1
<1> DEFINE n == gpu.maps[va].size
<1>1. MappedRange(va) \in held
  BY DEF PInv, MapsHeld
<1>2. MappedRange(va).ptr = va /\ MappedRange(va).size = n
  BY DEF MappedRange
<1>3. PP!TypeOK
  BY Zenon DEF PInv, PP!IInv
<1> HIDE DEF n
<1>4. /\ va \in PP!Address /\ PP!HeldEnd(MappedRange(va)) \in PP!Address
      /\ va \in Int /\ PP!HeldEnd(MappedRange(va)) \in Int
      /\ PP!HeldEnd(MappedRange(va)) = va + PP!AlignUp(n)
      /\ n \in {AllocSize(m) : m \in Sizes}
  BY <1>1, <1>2, <1>3, PP!HeldRange, PoolAssumptions
<1>5. PP!AlignUp(n) = n /\ n \in Nat
  <2>1. PICK m \in Sizes : n = AllocSize(m)
    BY <1>4
  <2>2. AllocSize(n) = n /\ n \in Nat
    BY <2>1, AllocSizeFacts, SizesAssumption
  <2>3. PP!AlignUp(n) = AllocSize(n)
    BY Zenon DEF PP!AlignUp, AllocSize
  <2> QED BY <2>2, <2>3
<1>6. Extent(va) = va .. va + n - 1
  BY DEF Extent, n
<1> QED BY <1>1, <1>4, <1>5, <1>6

(* No address is mapped twice, and none that AllocateVirtual may hand out  *)
(* is mapped: the three sizes in play (asked for, rounded, given back)     *)
(* agree for every granularity.                                            *)
THEOREM MappingsStayApart == PooledSpec => []MappingsApart
<1>1. PInv => MappingsApart
  <2> SUFFICES ASSUME PInv, NEW va \in DOMAIN gpu.maps
               PROVE  /\ \A a \in Extent(va) : ~P!InFree(a) /\ P!InChunk(a)
                      /\ \A vb \in DOMAIN gpu.maps :
                           va # vb => Extent(va) \cap Extent(vb) = {}
    BY DEF MappingsApart
  <2> DEFINE h(x) == MappedRange(x)
             top(x) == PP!HeldEnd(MappedRange(x))
  <2>1. PP!TypeOK /\ PP!HeldDisjoint /\ PP!FreeApartFromHeld /\ PP!NothingLost
    BY Zenon DEF PInv, PP!IInv, PP!Partition
  <2>2. \A x : h(x).ptr = x
    BY DEF MappedRange
  <2>3. \A x \in DOMAIN gpu.maps :
          /\ h(x) \in held /\ x \in Int /\ top(x) \in Int
          /\ x \in PP!Address /\ top(x) \in PP!Address
          /\ Extent(x) = x .. top(x) - 1
    BY ExtentHeld
  <2> HIDE DEF h
  <2>4. ASSUME NEW a \in Extent(va)
        PROVE  ~P!InFree(a) /\ P!InChunk(a)
    <3>1. a \in Int /\ va <= a /\ a < top(va)
      BY <2>3
    <3>2. a \in PP!Address
      BY <2>3, <3>1, PoolAssumption DEF PP!Address
    <3>3. PP!InHeld(a)
      BY <2>2, <2>3, <3>1 DEF PP!InHeld, h
    <3>4. PP!InChunk(a)
      BY <2>1, <3>2, <3>3 DEF PP!NothingLost
    <3>5. ~PP!InFree(a)
      <4> SUFFICES ASSUME NEW i \in DOMAIN free_ranges_,
                          free_ranges_[i].start <= a, a < free_ranges_[i].end
                   PROVE  FALSE
        BY DEF PP!InFree
      <4>1. PP!Apart(free_ranges_[i].start, free_ranges_[i].end, va, top(va))
        BY <2>1, <2>2, <2>3 DEF PP!FreeApartFromHeld, h
      <4>2. free_ranges_ \in Seq(PP!FreeRange)
        BY <2>1 DEF PP!TypeOK
      <4>3. free_ranges_[i].start \in Int /\ free_ranges_[i].end \in Int
        BY <4>2, PP!VectorType, PoolAssumptions
      <4> QED BY <2>3, <3>1, <4>1, <4>3 DEF PP!Apart
    <3> QED BY <3>4, <3>5, Zenon DEF P!InChunk, PP!InChunk, P!InFree, PP!InFree
  <2>5. ASSUME NEW vb \in DOMAIN gpu.maps, va # vb, NEW a \in Extent(va) \cap Extent(vb)
        PROVE  FALSE
    <3>1. h(va) # h(vb)
      BY <2>2, <2>5
    <3>2. PP!Apart(va, top(va), vb, top(vb))
      BY <2>1, <2>2, <2>3, <3>1 DEF PP!HeldDisjoint, h
    <3> HIDE DEF top
    <3> QED BY <2>3, <2>5, <3>2 DEF PP!Apart
  <2> QED BY <2>4, <2>5
<1> QED BY <1>1, PooledInvariance, PTL

(* Memory that is a careful client's is mapped for it, through every throw *)
(* of Allocate and RestorePhysical and every sharing of memory.            *)
THEOREM CarefulIsBacked == PooledSpec => []CarefulBacked
<1>1. PInv => CarefulBacked
  BY BackedFact DEF PInv, CarefulBacked
<1> QED BY <1>1, PooledInvariance, PTL

(* A careful client loses what a call that throws has created or been      *)
(* given, one handle and one range at most, and nothing in another way:    *)
(* SharePhysical counts, and Deallocate and ReleasePhysical leave nothing. *)
THEOREM CarefulLosesByThrows == PooledSpec => CarefulOnlyThrowsLose
<1>1. PInv /\ [PooledNext]_pooledVars => [careful' => OnlyThrowsLose]_pooledVars
  BY CarefulStep
<1> QED BY <1>1, PooledInvariance, PTL DEF PooledSpec, CarefulOnlyThrowsLose

(* A careful client's call for one buffer never changes what another one   *)
(* holds, although they may share memory.                                  *)
THEOREM CarefulTouchesNoOther == PooledSpec => OthersUntouched
<1>1. ASSUME PInv, [PooledNext]_pooledVars, careful',
             NEW p \in Ptrs \cap DOMAIN entries_', Resident(p), entries_'[p] = entries_[p]
      PROVE  Contents(gpu', p) = Contents(gpu, p)
  <2>1. AInv /\ Mirrored /\ Mirrored' /\ KeepsContents
    BY <1>1, CarefulStep DEF PInv
  <2>2. AInv'
    BY <1>1, AllocatorStep
  <2>3. p \in Ptrs \cap Ptrs'
    BY DEF Ptrs
  <2> QED BY <1>1, <2>1, <2>2, <2>3, ContentsKept
<1>2. PInv /\ [PooledNext]_pooledVars =>
        [careful' =>
           \A p \in Ptrs \cap DOMAIN entries_' :
             Resident(p) /\ entries_'[p] = entries_[p]
               => Contents(gpu', p) = Contents(gpu, p)]_pooledVars
  BY <1>1
<1> QED BY <1>2, PooledInvariance, PTL DEF PooledSpec, OthersUntouched

-----------------------------------------------------------------------------
(* stats().live_bytes.  Addition and subtraction of std::size_t balance as *)
(* long as no sum wraps, and none does: the buffers of the pool lie apart  *)
(* in the address space, those of cuMemAlloc in device memory.             *)

(* There are fewer addresses and bytes of device memory than values of     *)
(* std::size_t (2^64, with addresses of 47 or 57 bits).                    *)
AddressesCountable == VaEnd + Vram < SizeMod

CountedInv == MeterInv /\ (careful /\ alive => Exact)

LEMMA HeldBytes ==
  ASSUME PInv, MeterInv
  PROVE  BytesOf(Residents \cap Vas) <= VaEnd
<1> DEFINE S == Residents \cap Vas
           w == Weights(entries_)
           top(p) == PP!HeldEnd(RangeOf(p))
<1>1. AInv /\ S \in SUBSET Ptrs /\ S \subseteq VmmPtrs
  BY EntryFacts DEF PInv, Residents, VmmPtrs
<1>2. IsFiniteSet(S) /\ Weighs(w, S) /\ BytesOf(S) = SumFunctionOnSet(w, S)
  BY <1>1, SizesTotal
<1>3. PP!TypeOK /\ PP!HeldDisjoint
  BY Zenon DEF PInv, PP!IInv, PP!Partition
<1>4. \A p : RangeOf(p).ptr = p /\ RangeOf(p).size = AllocSize(entries_[p].size)
  BY DEF RangeOf
<1>5. ASSUME NEW p \in S
      PROVE  /\ RangeOf(p) \in held /\ p \in Nat /\ top(p) \in Nat /\ top(p) <= VaEnd
             /\ w[p] \in Nat /\ p + w[p] <= top(p)
  <2>1. RangeOf(p) \in held
    BY <1>1 DEF PInv, LinkInv
  <2>2. /\ p \in PP!Address /\ top(p) \in PP!Address
        /\ top(p) = p + PP!AlignUp(RangeOf(p).size)
    BY <1>3, <1>4, <2>1, PP!HeldRange, PoolAssumptions
  <2>3. /\ entries_[p].size \in Nat \ {0} /\ entries_[p].size <= AllocSize(entries_[p].size)
        /\ w[p] = entries_[p].size
    BY <1>1, EntryFacts DEF Weights, Ptrs
  <2>4. PP!AlignUp(RangeOf(p).size) = AllocSize(entries_[p].size)
    <3>1. \A m : PP!AlignUp(m) = AllocSize(m)
      BY Zenon DEF PP!AlignUp, AllocSize
    <3>2. ASSUME NEW n \in Nat \ {0}
          PROVE  PP!AlignUp(AllocSize(n)) = AllocSize(n)
      BY <3>1, AllocSizeFacts
    <3> QED BY <1>4, <2>3, <3>2
  <2>5. AllocSize(entries_[p].size) \in Nat
    BY <2>3, AllocSizeFacts
  <2> HIDE DEF top, w
  <2>6. p \in Nat /\ top(p) \in Nat /\ top(p) <= VaEnd
    BY <2>2, PoolAssumption DEF PP!Address
  <2>7. top(p) = p + AllocSize(entries_[p].size)
    BY <2>2, <2>4
  <2> QED BY <2>1, <2>3, <2>5, <2>6, <2>7
<1>6. ASSUME NEW p \in S, NEW q \in S, p # q
      PROVE  p + w[p] <= q \/ q + w[q] <= p
  <2>1. RangeOf(p) # RangeOf(q)
    BY <1>4, <1>6
  <2>2. PP!Apart(p, top(p), q, top(q))
    BY <1>3, <1>4, <1>5, <2>1 DEF PP!HeldDisjoint
  <2> HIDE DEF top, w, S
  <2> QED BY <1>5, <2>2 DEF PP!Apart
<1>7. \A p \in S : p \in Nat /\ p + w[p] <= VaEnd
  <2> HIDE DEF top, w, S
  <2> QED BY <1>5, PoolAssumption
<1> HIDE DEF top, w, S
<1>8. SumFunctionOnSet(w, S) <= VaEnd
  BY <1>2, <1>6, <1>7, PoolAssumption, SumApart
<1> QED BY <1>2, <1>8 DEF S

LEMMA PooledCountable ==
  ASSUME AddressesCountable, PInv, MeterInv
  PROVE  Countable
<1>1. AInv /\ Residents \in SUBSET Ptrs /\ Residents \cap Vas \in SUBSET Ptrs
  BY DEF PInv, Residents
<1>2. BytesOf(Residents) \in Nat /\ BytesOf(Residents \cap Vas) \in Nat
  BY <1>1, SizesTotal
<1>3. BytesOf(Residents) <= BytesOf(Residents \cap Vas) + Bytes(gpu.linear)
  BY <1>1, ResidentBytes
<1>4. BytesOf(Residents \cap Vas) <= VaEnd
  BY HeldBytes
<1>5. HasSizes(gpu.mem) /\ HasSizes(gpu.linear) /\ Bytes(gpu.mem) + Bytes(gpu.linear) <= Vram
  BY DEF MeterInv, MemoryFits
<1>6. Bytes(gpu.mem) \in Nat /\ Bytes(gpu.linear) \in Nat
  BY <1>5, BytesNat
<1>7. VaEnd + Vram < SizeMod /\ VaEnd \in Nat /\ Vram \in Nat /\ SizeMod \in Nat
  BY PoolAssumption, VramAssumption, SizeModAssumption DEF AddressesCountable
<1>8. BytesOf(Residents) < SizeMod
  BY <1>2, <1>3, <1>4, <1>5, <1>6, <1>7
<1> QED BY <1>8 DEF Countable

LEMMA CountableNext ==
  ASSUME AddressesCountable
  PROVE  PInv' /\ MeterInv' => Countable'
<1>1. PInv /\ MeterInv => Countable
  BY PooledCountable
<1> QED BY <1>1, PTL

LEMMA MeterStep ==
  ASSUME PInv, MeterInv, [PooledNext]_pooledVars
  PROVE  MeterInv'
<1>1. AInv
  BY DEF PInv
<1>2. ASSUME UNCHANGED allocator
      PROVE  MeterInv'
  BY <1>2, SameMeter DEF allocator
<1>3. CASE PooledAllocateEnds
  <2> DEFINE bytes == allocating.bytes
             tag == allocating.tag
  <2>1. /\ bytes \in Sizes
        /\ \E va : \/ AllocateVmmThrows(bytes, va)
                   \/ \E h : AllocateVmm(bytes, tag, va, h)
    BY <1>3, PooledAllocateEndsFacts
  <2> HIDE DEF bytes, tag
  <2> QED BY <1>1, <2>1, AllocateVmmMeter, AllocateVmmThrowsMeter
<1>4. ASSUME NEW bytes \in Sizes, PooledAllocateFallback(bytes)
      PROVE  MeterInv'
  BY <1>1, <1>4, AllocateFallbackMeter DEF PooledAllocateFallback
<1>5. CASE \E p \in Ptrs : PooledDeallocate(p)
  BY <1>1, <1>5, DeallocateMeter DEF PooledDeallocate
<1>6. CASE PooledPhysical
  BY <1>1, <1>6, PhysicalNextMeter DEF PooledPhysical
<1>7. CASE PooledDestroy
  BY <1>7, SameMeter DEF PooledDestroy, Destroy
<1> QED BY <1>2, <1>3, <1>4, <1>5, <1>6, <1>7
        DEF PooledNext, PooledAllocate, PooledReserve, PooledReserveFails,
            PooledDestroyPool, pooledVars

(* The calls of a careful client, and only those of a live allocator, are  *)
(* of buffers that have the memory they give up.                           *)
LEMMA ExactStep ==
  ASSUME PInv, CountedInv, MeterInv', Countable', [PooledNext]_pooledVars, careful', alive'
  PROVE  Exact'
<1>1. AInv /\ careful /\ alive \in BOOLEAN /\ Mirrored
  BY CarefulStep DEF PInv, AInv, TypeOK
<1>2. alive
  BY <1>1 DEF PooledNext, PooledAllocate, PooledReserve, PooledReserveFails,
              PooledAllocateEnds, AllocateVmm, AllocateVmmThrows, PooledAllocateFallback,
              PooledDeallocate, Deallocate, PooledPhysical, PooledDestroy, Destroy,
              PooledDestroyPool, pooledVars, allocator
<1>3. MeterInv /\ Exact
  BY <1>1, <1>2 DEF CountedInv
<1>4. ASSUME UNCHANGED allocator
      PROVE  Exact'
  BY <1>3, <1>4, SameExact DEF allocator
<1>5. CASE PooledAllocateEnds
  <2> DEFINE bytes == allocating.bytes
             tag == allocating.tag
  <2>1. /\ bytes \in Sizes
        /\ \E va : \/ AllocateVmmThrows(bytes, va)
                   \/ \E h : AllocateVmm(bytes, tag, va, h)
    BY <1>5, PooledAllocateEndsFacts
  <2> HIDE DEF bytes, tag
  <2> QED BY <1>1, <1>3, <2>1, AllocateVmmExact, SameExact DEF AllocateVmmThrows
<1>6. ASSUME NEW bytes \in Sizes, PooledAllocateFallback(bytes)
      PROVE  Exact'
  BY <1>1, <1>3, <1>6, AllocateFallbackExact DEF PooledAllocateFallback
<1>7. ASSUME NEW p \in Ptrs, PooledDeallocate(p)
      PROVE  Exact'
  <2>1. Deallocate(p) /\ Resident(p)
    BY <1>2, <1>7 DEF PooledDeallocate
  <2> QED BY <1>1, <1>3, <2>1, DeallocateExact
<1>8. CASE PooledPhysical
  <2>1. CarefulPhysical
    BY <1>8 DEF PooledPhysical
  <2> QED BY <1>1, <1>3, <2>1, CarefulPhysicalExact
<1>9. CASE PooledDestroy
  BY <1>9 DEF PooledDestroy, Destroy
<1> QED BY <1>4, <1>5, <1>6, <1>7, <1>8, <1>9
        DEF PooledNext, PooledAllocate, PooledReserve, PooledReserveFails,
            PooledDestroyPool, pooledVars

LEMMA NextCounted ==
  ASSUME AddressesCountable
  PROVE  PInv /\ PInv' /\ CountedInv /\ [PooledNext]_pooledVars => CountedInv'
<1> SUFFICES ASSUME PInv, PInv', CountedInv, [PooledNext]_pooledVars
             PROVE  CountedInv'
  OBVIOUS
<1>1. MeterInv'
  BY MeterStep DEF CountedInv
<1>2. Countable'
  BY <1>1, CountableNext
<1>3. ASSUME careful', alive' PROVE Exact'
  BY <1>1, <1>2, <1>3, ExactStep
<1> QED BY <1>1, <1>3 DEF CountedInv

(* Each byte that has memory is counted once, for a careful client: the    *)
(* additions and subtractions balance through every throw, and none of     *)
(* them wraps, for every granularity and size.                             *)
THEOREM CarefulIsCounted ==
  ASSUME AddressesCountable
  PROVE  PooledSpec => []CarefulCounted
<1>1. PooledInit => CountedInv
  BY InitMeter, InitExact DEF PooledInit, CountedInv
<1>2. PInv /\ PInv' /\ CountedInv /\ [PooledNext]_pooledVars => CountedInv'
  BY NextCounted
<1>3. CountedInv => CarefulCounted
  BY ExactFact DEF CountedInv, CarefulCounted, LiveBytesExact
<1> QED BY <1>1, <1>2, <1>3, PooledInvariance, PTL DEF PooledSpec

=============================================================================
