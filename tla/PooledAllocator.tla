-------------------------- MODULE PooledAllocator --------------------------
(***************************************************************************)
(* VmmAllocator on top of VmmPool, the composition of                      *)
(* src/vmm/vmm_allocator.cc and src/vmm/vmm_pool.cc, with nothing taken at *)
(* its word: the addresses are those the vector of free ranges yields, and *)
(* ranges have extents that can overlap.                                   *)
(*                                                                         *)
(* Allocate passes the rounded size to AllocateVirtual, records the size   *)
(* asked for in entries_, and Deallocate passes that one to FreeVirtual.   *)
(* AllocateVirtual can take several steps (it reserves chunks), so an      *)
(* Allocate under way is the variable allocating.                          *)
(***************************************************************************)
EXTENDS VmmAllocator

CONSTANTS
  kChunkSize, VaEnd, Bases,               \* of VmmPool
  None                                    \* no call is in progress

ASSUME PoolAssumption ==
  /\ kChunkSize \in Nat \ {0}
  /\ VaEnd \in Nat
  /\ Bases \subseteq Nat
  /\ \A b \in Bases : b + kChunkSize <= VaEnd
ASSUME NoneAssumption ==
  /\ None \notin {AllocSize(n) : n \in Sizes}
  /\ None \notin [bytes : Sizes, tag : Tags]

VARIABLES
  free_ranges_, chunks, held, request,    \* of VmmPool
  pool_alive,                             \* the destructor of pool_ has not run
  allocating,                             \* the Allocate under way: the
                                          \* [bytes, tag] it was called with
  careful                                 \* has the client always kept to
                                          \* CarefulPhysical, and freed only
                                          \* buffers that have their memory?

pool == <<free_ranges_, chunks, held, request, pool_alive>>
allocator == <<gpu, va_held, entries_, live_bytes, alive>>
pooledVars == <<allocator, pool, allocating, careful>>

P == INSTANCE VmmPool WITH Sizes <- {AllocSize(n) : n \in Sizes},
                           alive <- pool_alive

PooledInit ==
  /\ Init
  /\ P!Init
  /\ allocating = None
  /\ careful = TRUE

-----------------------------------------------------------------------------
(* Allocate.                                                               *)

PooledAllocate(bytes, tag) ==
  /\ alive
  /\ bytes >= Granularity
  /\ P!CallAllocateVirtual(AllocSize(bytes))
  /\ allocating' = [bytes |-> bytes, tag |-> tag]
  /\ UNCHANGED <<allocator, careful>>

PooledReserve ==
  /\ P!ReserveChunk
  /\ UNCHANGED <<allocator, allocating, careful>>

(* AllocateVirtual throws, through Allocate to the client.                 *)
PooledReserveFails ==
  /\ P!ReserveFails
  /\ allocating' = None
  /\ UNCHANGED <<allocator, careful>>

(* AllocateVirtual returns, and the rest of AllocateVmm follows.           *)
PooledAllocateEnds ==
  /\ P!Carve
  /\ \E r \in held' \ held :
       \/ AllocateVmmThrows(allocating.bytes, r.ptr)
       \/ \E h \in Handles :
            AllocateVmm(allocating.bytes, allocating.tag, r.ptr, h)
  /\ allocating' = None
  /\ UNCHANGED careful

(* Below the granularity the pool is not asked.                            *)
PooledAllocateFallback(bytes) ==
  /\ allocating = None
  /\ alive
  /\ \E ptr \in Linears : AllocateFallback(bytes, ptr)
  /\ UNCHANGED <<pool, allocating, careful>>

-----------------------------------------------------------------------------
(* Mutant: a byte too few is given back.                                   *)
FreedBytesShort(p) == entries_[p].size - 1

(* Mutant: a byte too many is given back.                                  *)
FreedBytesLong(p) == entries_[p].size + 1

(* What DeallocateVmm passes to FreeVirtual, with the address.             *)
FreedBytes(p) == entries_[p].size

(* (DeallocateThrows would change nothing.)                                *)
PooledDeallocate(p) ==
  /\ allocating = None
  /\ Deallocate(p)
  /\ IF entries_[p].is_vmm
       THEN /\ P!InsertCoalesced(p, FreedBytes(p))
            /\ held' = {r \in held : r.ptr # p}
            /\ UNCHANGED <<chunks, request, pool_alive>>
       ELSE UNCHANGED pool
  /\ careful' = (careful /\ (alive => Resident(p)))
  /\ UNCHANGED allocating

PooledPhysical ==
  /\ allocating = None
  /\ alive
  /\ PhysicalNext
  /\ careful' = (careful /\ CarefulPhysical)
  /\ UNCHANGED <<pool, allocating>>

PooledDestroy ==
  /\ allocating = None
  /\ Destroy
  /\ UNCHANGED <<pool, allocating, careful>>

(* Mutant: the destructor of pool_ does not wait for the loop.              *)
PooledDestroyPoolFirst ==
  /\ ~alive
  /\ P!Destroy
  /\ UNCHANGED <<allocator, allocating, careful>>

(* pool_ is a member of VmmAllocator: its destructor follows the loop of   *)
(* ~VmmAllocator.                                                          *)
PooledDestroyPool ==
  /\ ~alive /\ Ptrs = {}
  /\ P!Destroy
  /\ UNCHANGED <<allocator, allocating, careful>>

(* Any client: every call, with any pointer, in any order; after Destroy   *)
(* the destructor's deallocations are all that is left.                    *)
PooledNext ==
  \/ \E bytes \in Sizes, tag \in Tags : PooledAllocate(bytes, tag)
  \/ PooledReserve
  \/ PooledReserveFails
  \/ PooledAllocateEnds
  \/ \E bytes \in Sizes : PooledAllocateFallback(bytes)
  \/ \E p \in Ptrs : PooledDeallocate(p)
  \/ PooledPhysical
  \/ PooledDestroy
  \/ PooledDestroyPool

PooledSpec == PooledInit /\ [][PooledNext]_pooledVars

-----------------------------------------------------------------------------
(* Properties.                                                             *)

Extent(va) == va .. va + gpu.maps[va].size - 1

(* However a client allocates, frees, releases, restores and shares, and   *)
(* however the pool splits and merges, no address is mapped twice, and an  *)
(* address that AllocateVirtual may hand out is mapped nowhere: the size   *)
(* that AllocateVmm maps, the rounded one it asks the pool for, and the    *)
(* unrounded one that DeallocateVmm gives back agree.                      *)
MappingsApart ==
  \A va \in DOMAIN gpu.maps :
    /\ \A a \in Extent(va) : ~P!InFree(a) /\ P!InChunk(a)
    /\ \A vb \in DOMAIN gpu.maps : va # vb => Extent(va) \cap Extent(vb) = {}

(* The pool is used as its specification says: however AllocateVmm throws  *)
(* and whatever is freed, by Deallocate or the destructor, its free ranges *)
(* and the ranges handed out partition the reserved addresses.             *)
PoolPartition == P!Partition

(* VmmAllocator is a client such as VmmPool's specification assumes: it    *)
(* gives back only ranges that were handed out and not given back since,   *)
(* whole, and none while AllocateVirtual runs or the pool is gone.         *)
PoolUsed == P!Spec

(* What a careful client may rely on, although Allocate and                *)
(* RestorePhysical may throw at any of their calls of the driver, and      *)
(* buffers share memory: memory that is an entry's is mapped for it        *)
(* (Backed) ...                                                            *)
CarefulBacked == careful => Backed

(* ... each byte is counted once (LiveBytesExact) ...                      *)
CarefulCounted == careful => LiveBytesExact

(* ... and what is lost is what a throwing call had created or been given, *)
(* through the pool too (OnlyThrowsLose).                                  *)
CarefulOnlyThrowsLose == [][careful' => OnlyThrowsLose]_pooledVars

(* A careful client's call for one buffer never changes what another one   *)
(* holds, although two may share memory and release one handle twice.      *)
OthersUntouched ==
  [][careful' =>
       \A p \in Ptrs \cap DOMAIN entries_' :
         Resident(p) /\ entries_'[p] = entries_[p]
           => Contents(gpu', p) = Contents(gpu, p)]_pooledVars

=============================================================================
