---------------------------- MODULE VmmAllocator ----------------------------
(***************************************************************************)
(* The allocator of src/vmm/vmm_allocator.{h,cc}: buffers of at least      *)
(* Granularity bytes are a virtual address from VmmPool with physical      *)
(* memory mapped there, smaller ones come from cuMemAlloc.                 *)
(*                                                                         *)
(* Calls do not interleave (the program has one thread), so a call is one  *)
(* action; where a call can throw, that is an action of its own.  The      *)
(* exception is caught by no code in src/vmm or src/swap: what a throwing  *)
(* call has done so far stays done.  The driver refuses cuMemCreate when   *)
(* there is no room, and may refuse cuMemMap, cuMemSetAccess, cuMemcpyHtoD *)
(* and cuMemFree for reasons of its own, each under VMM_CUDA_CHECK.        *)
(*                                                                         *)
(* VmmPool is taken at its word (module VaSpace, which VmmPool is proved   *)
(* to implement): ranges handed out never overlap.  A range is therefore   *)
(* a member of Vas, with room for any of the sizes asked for, and the      *)
(* pool's state is the set of those handed out.                            *)
(***************************************************************************)
EXTENDS CudaDriver, FiniteSets

CONSTANTS
  Granularity,    \* granularity_, from cuMemGetAllocationGranularity
  Vas,            \* the ranges of virtual addresses VmmPool can hand out
  Linears,        \* the pointers cuMemAlloc can return
  Sizes,          \* the sizes the client asks for, in bytes
  Tags,           \* the tags the client passes to Allocate
  FallbackTag,    \* "fallback"
  Data,           \* contents the client writes
  SizeMod         \* 2^w, w the width of std::size_t

ASSUME GranularityAssumption == Granularity \in Nat \ {0}
ASSUME PointersAssumption == Vas \cap Linears = {}
ASSUME SizesAssumption == Sizes \subseteq Nat \ {0}
ASSUME SizeModAssumption == SizeMod \in Nat \ {0}

VARIABLES
  gpu,            \* the GPU's memory (CudaDriver)
  va_held,        \* ranges pool_ has handed out and not got back
  entries_,       \* from pointers to [size, tag, is_vmm, physical_handle]
  live_bytes,     \* stats_.live_bytes
  alive           \* the destructor has not begun

vars == <<gpu, va_held, entries_, live_bytes, alive>>

Pointers == Vas \cup Linears
Ptrs == DOMAIN entries_
VmmPtrs == {p \in Ptrs : entries_[p].is_vmm}

(* "Round up to granularity."                                              *)
AllocSize(bytes) == ((bytes + Granularity - 1) \div Granularity) * Granularity

(* Does an entry have memory of its own (and not only its address)?        *)
Resident(p) == entries_[p].is_vmm => entries_[p].physical_handle # NoHandle

(* std::size_t arithmetic.                                                 *)
Plus(n) == (live_bytes + n) % SizeMod

(* Mutant: nothing is subtracted.                                          *)
MinusNothing(n) == live_bytes

Minus(n) == (live_bytes - n) % SizeMod

(* Mutant: the handle is not assigned.                                     *)
AssignNothing(p, h) == entries_

(* The assignment of entry.physical_handle.                                *)
Assign(p, h) == [entries_ EXCEPT ![p].physical_handle = h]

(* Mutant: the memory stays mapped.                                        *)
UnbackedMapped(p) == CuMemRelease(gpu, entries_[p].physical_handle)

(* Mutant: the memory is not released.                                     *)
UnbackedOpen(p) == CuMemUnmap(gpu, p, AllocSize(entries_[p].size))

(* cuMemMap, and "Set access: read-write."                                 *)
MapReadWrite(g, va, n, h) == CuMemSetAccess(CuMemMap(g, va, n, h), va)

(* The GPU when cuMemUnmap and cuMemRelease have taken p's memory.         *)
Unbacked(p) ==
  CuMemRelease(CuMemUnmap(gpu, p, AllocSize(entries_[p].size)),
               entries_[p].physical_handle)

Init ==
  /\ gpu = NoMemory
  /\ va_held = {}
  /\ entries_ = << >>
  /\ live_bytes = 0
  /\ alive = TRUE

-----------------------------------------------------------------------------
(* Allocate.                                                               *)

AllocateVmm(bytes, tag, va, h) ==
  /\ bytes >= Granularity
  /\ va \in Vas \ va_held
  /\ h \in FreshHandles(gpu)
  /\ Room(gpu, AllocSize(bytes))
  /\ gpu' = MapReadWrite(CuMemCreate(gpu, h, AllocSize(bytes)),
                         va, AllocSize(bytes), h)
  /\ va_held' = va_held \cup {va}
  /\ entries_' = Put(entries_, va, [size |-> bytes, tag |-> tag, is_vmm |-> TRUE,
                                     physical_handle |-> h])
  /\ live_bytes' = Plus(bytes)
  /\ UNCHANGED alive

(* cuMemCreate, cuMemMap or cuMemSetAccess throws: the range stays handed  *)
(* out, and new memory stays open, or mapped.  (When VmmPool has no range  *)
(* left it throws before anything changes.)                                *)
AllocateVmmThrows(bytes, va) ==
  /\ bytes >= Granularity
  /\ va \in Vas \ va_held
  /\ IF Room(gpu, AllocSize(bytes))
       THEN \E h \in FreshHandles(gpu) :
              LET created == CuMemCreate(gpu, h, AllocSize(bytes))
              IN gpu' \in {created, CuMemMap(created, va, AllocSize(bytes), h)}
       ELSE UNCHANGED gpu
  /\ va_held' = va_held \cup {va}
  /\ UNCHANGED <<entries_, live_bytes, alive>>

(* Mutant: the entry is recorded as a VMM entry.                           *)
FallbackEntryVmm(bytes) ==
  [size |-> bytes, tag |-> FallbackTag, is_vmm |-> TRUE,
   physical_handle |-> NoHandle]

(* The tag is not passed on to AllocateFallback.                           *)
FallbackEntry(bytes) ==
  [size |-> bytes, tag |-> FallbackTag, is_vmm |-> FALSE,
   physical_handle |-> NoHandle]

(* When cuMemAlloc is out of memory AllocateFallback returns nullptr and   *)
(* nothing changes; nothing changes either when it throws.                 *)
AllocateFallback(bytes, ptr) ==
  /\ bytes < Granularity
  /\ ptr \in Linears \ DOMAIN gpu.linear
  /\ Room(gpu, bytes)
  /\ gpu' = CuMemAlloc(gpu, ptr, bytes)
  /\ entries_' = Put(entries_, ptr, FallbackEntry(bytes))
  /\ live_bytes' = Plus(bytes)
  /\ UNCHANGED <<va_held, alive>>

-----------------------------------------------------------------------------
(* Deallocate.                                                             *)

DeallocateVmm(p) ==
  /\ entries_[p].is_vmm
  /\ gpu' = Unbacked(p)
  /\ va_held' = va_held \ {p}

DeallocateFallback(p) ==
  /\ ~entries_[p].is_vmm
  /\ gpu' = CuMemFree(gpu, p)
  /\ UNCHANGED va_held

(* For a pointer that is not in entries_ Deallocate does nothing.          *)
Deallocate(p) ==
  /\ p \in Ptrs
  /\ DeallocateVmm(p) \/ DeallocateFallback(p)
  /\ live_bytes' = Minus(entries_[p].size)
  /\ entries_' = RestrictDomain(entries_, LAMBDA q : q # p)
  /\ UNCHANGED alive

(* SetDevice throws, or cuMemFree does: the entry stays what it is.        *)
DeallocateThrows == UNCHANGED vars

-----------------------------------------------------------------------------
(* Swap support.                                                           *)

(* For a pointer with no VMM entry ReleasePhysical does nothing, nor do    *)
(* RestorePhysical and SharePhysical.                                      *)
ReleasePhysical(p) ==
  /\ p \in VmmPtrs
  /\ gpu' = Unbacked(p)
  /\ entries_' = Assign(p, NoHandle)
  /\ live_bytes' = Minus(entries_[p].size)
  /\ UNCHANGED <<va_held, alive>>

(* h, known to g, is mapped at p and filled from host_data.                *)
Refill(g, p, h, host_data) ==
  LET n == AllocSize(entries_[p].size)
  IN /\ CanMap(g, p, n, h)
     /\ gpu' = Write(MapReadWrite(g, p, n, h), p, host_data)
     /\ entries_' = Assign(p, h)
     /\ live_bytes' = Plus(entries_[p].size)
     /\ UNCHANGED <<va_held, alive>>

(* Mutant: memory some handle already has is mapped, and no new memory.    *)
RestorePhysicalReuses(p, h, host_data) ==
  p \in VmmPtrs /\ Refill(gpu, p, h, host_data)

(* The GPU with new memory for p.                                          *)
Created(p, h) == CuMemCreate(gpu, h, AllocSize(entries_[p].size))

RestorePhysical(p, h, host_data) ==
  /\ p \in VmmPtrs
  /\ h \in FreshHandles(gpu)
  /\ Room(gpu, AllocSize(entries_[p].size))
  /\ Refill(Created(p, h), p, h, host_data)

(* cuMemCreate throws, or cuMemMap, cuMemSetAccess or cuMemcpyHtoD does    *)
(* and the new memory, which the entry does not get, stays open or mapped. *)
RestorePhysicalThrows(p) ==
  /\ p \in VmmPtrs
  /\ LET n == AllocSize(entries_[p].size)
     IN IF Room(gpu, n)
          THEN \E h \in FreshHandles(gpu) :
                 \/ gpu' = Created(p, h)
                 \/ /\ CanMap(Created(p, h), p, n, h)
                    /\ gpu' \in {CuMemMap(Created(p, h), p, n, h),
                                 MapReadWrite(Created(p, h), p, n, h)}
          ELSE UNCHANGED gpu
  /\ UNCHANGED <<va_held, entries_, live_bytes, alive>>

-----------------------------------------------------------------------------
(* Dedup support.                                                          *)

(* Can cuMemMap give dst the memory of src, once dst's has been taken?     *)
CanShare(dst, src) ==
  CanMap(Unbacked(dst), dst, AllocSize(entries_[dst].size),
         entries_[src].physical_handle)

SharePhysical(dst, src) ==
  /\ dst \in VmmPtrs /\ src \in VmmPtrs
  /\ CanShare(dst, src)
  /\ gpu' = MapReadWrite(Unbacked(dst), dst, AllocSize(entries_[dst].size),
                         entries_[src].physical_handle)
  /\ entries_' = Assign(dst, entries_[src].physical_handle)
  /\ UNCHANGED <<va_held, live_bytes, alive>>

(* cuMemMap or cuMemSetAccess throws: dst has lost its memory and keeps    *)
(* its handle; src's memory is mapped there without access, or nothing is. *)
SharePhysicalThrows(dst, src) ==
  /\ dst \in VmmPtrs /\ src \in VmmPtrs
  /\ \/ gpu' = Unbacked(dst)
     \/ /\ CanShare(dst, src)
        /\ gpu' = CuMemMap(Unbacked(dst), dst, AllocSize(entries_[dst].size),
                           entries_[src].physical_handle)
  /\ UNCHANGED <<va_held, entries_, live_bytes, alive>>

-----------------------------------------------------------------------------
(* The destructor deallocates what is left, in any order; an exception     *)
(* there ends the program.                                                 *)
Destroy ==
  /\ alive
  /\ alive' = FALSE
  /\ UNCHANGED <<gpu, va_held, entries_, live_bytes>>

(* Any client: every call, with any pointer, in any order.                 *)
PhysicalNext ==
  \/ \E p \in Ptrs : ReleasePhysical(p)
  \/ \E p \in Ptrs : \/ \E h \in Handles, d \in Data : RestorePhysical(p, h, d)
                     \/ RestorePhysicalThrows(p)
  \/ \E dst, src \in Ptrs : SharePhysical(dst, src) \/ SharePhysicalThrows(dst, src)

(* A client that pairs its calls as the smoke drivers of main.cc do: it    *)
(* releases memory a buffer has, restores memory it has not, frees a       *)
(* buffer only after it "Swap[s] B back in so we can clean up properly",   *)
(* and none of its shares is refused.                                      *)
CarefulPhysical ==
  \/ \E p \in {q \in Ptrs : Resident(q)} : ReleasePhysical(p)
  \/ \E p \in {q \in Ptrs : ~Resident(q)} :
       RestorePhysicalThrows(p) \/ \E h \in Handles, d \in Data : RestorePhysical(p, h, d)
  \/ \E dst, src \in {q \in Ptrs : Resident(q)} :
       dst # src /\ SharePhysical(dst, src)

-----------------------------------------------------------------------------
(* Properties.                                                             *)

Entry == [size : Sizes, tag : Tags \cup {FallbackTag}, is_vmm : BOOLEAN,
          physical_handle : Handles \cup {NoHandle}]

(* The state is well formed, and entries_ has a VMM entry for addresses of *)
(* the pool and a fallback entry for pointers of cuMemAlloc.               *)
TypeOK ==
  /\ Ptrs \subseteq Pointers
  /\ \A p \in Ptrs : entries_[p] \in Entry
  /\ \A p \in Ptrs : entries_[p].is_vmm <=> p \in Vas
  /\ va_held \subseteq Vas
  /\ live_bytes \in 0 .. SizeMod - 1
  /\ alive \in BOOLEAN
  /\ DOMAIN gpu.mem \subseteq Handles
  /\ \A va \in DOMAIN gpu.maps : gpu.maps[va].handle \in DOMAIN gpu.mem

(* "release GPU physical backing, keep VA reserved": whatever a client     *)
(* calls and whichever calls throw, a range that VmmPool may hand out      *)
(* again has nothing mapped, so that the cuMemMap of the next AllocateVmm  *)
(* finds it free, and a range that some entry uses is never back in the    *)
(* pool.                                                                   *)
PoolRangesUnmapped ==
  /\ DOMAIN gpu.maps \subseteq va_held
  /\ Vas \cap Ptrs \subseteq va_held
  /\ DOMAIN gpu.linear = Linears \cap Ptrs

(* "Only valid when is_vmm is true.": physical_handle of an entry that has *)
(* memory is what is mapped, with access, at its address over its size,    *)
(* however memory has been released, restored and shared before; after     *)
(* SharePhysical, "dst gets src's physical handle".                        *)
Backed ==
  \A p \in Ptrs :
    entries_[p].is_vmm /\ Resident(p) =>
      /\ Accessible(gpu, p)
      /\ gpu.maps[p].handle = entries_[p].physical_handle
      /\ entries_[p].size <= gpu.mem[gpu.maps[p].handle].size

(* GPU memory that is left when every buffer has been freed: it is open    *)
(* and no entry can release it, or mapped where no entry can unmap it.     *)
Lost ==
  {h \in DOMAIN gpu.mem :
     \/ gpu.mem[h].open /\ \A p \in Ptrs : entries_[p].physical_handle # h
     \/ \E va \in DOMAIN gpu.maps \ Ptrs : gpu.maps[va].handle = h}

LostRanges == va_held \ Ptrs

(* A call loses memory and addresses only by throwing, and no more then    *)
(* than the memory it has created and the range it has been given: none    *)
(* of a buffer's, and none in a call that returns, however memory has been *)
(* released, restored and shared before.                                   *)
OnlyThrowsLose ==
  LET memory == Lost' \ Lost
      ranges == LostRanges' \ LostRanges
  IN /\ memory # {} \/ ranges # {} => UNCHANGED <<entries_, live_bytes>>
     /\ memory \cap DOMAIN gpu.mem = {} /\ ranges \cap va_held = {}
     /\ Cardinality(memory) <= 1 /\ Cardinality(ranges) <= 1

BytesOf(S) == SumFunction([p \in S |-> entries_[p].size])

(* stats().live_bytes is the size of the buffers that have memory: the     *)
(* additions and subtractions of Allocate, Deallocate, ReleasePhysical and *)
(* RestorePhysical balance, and none wraps around.                         *)
LiveBytesExact ==
  alive => live_bytes = BytesOf({p \in Ptrs : Resident(p)})

=============================================================================
