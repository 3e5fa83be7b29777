# Verification of the CUDA VMM allocator

TLA+ models of the GPU memory allocator in `src/src/`: the pool of virtual
addresses, the allocator on top of it, the swap manager, the dedup table, the
CUDA runtime hooks and their installation, and the runners of the two backends. TLC
checks the models on small instances; TLAPS proves the safety properties of every
component, and its two refinements, for every instance.

Paths below are relative to `src/src/`.

## The system

| Component | State | Operations | Uses |
|---|---|---|---|
| `vmm/vmm_pool` | `free_ranges_`, a vector meant to be sorted | `AllocateVirtual`, `FreeVirtual`, `ReserveChunk`, `~VmmPool` | the driver (`cuMemAddressReserve`) |
| `vmm/vmm_allocator` | `entries_` (pointer to size, tag, kind, physical handle), `stats_` | `Allocate`, `Deallocate`, `ReleasePhysical`, `RestorePhysical`, `SharePhysical`, destructor | the pool, the driver |
| `swap/swap_manager`, `swap/swap_context` | `contexts_[2]`, `context_slot_`; a pinned host buffer per context | `SwapOut`, `SwapIn` | the allocator |
| `vmm/vmm_dedup` | `entries_` (hash to pointer, count) | `Lookup`, `Register`, `UnregisterPtr` | |
| `interpose/intercept_real` | an allocator, a dedup table, `g_vmm_active`, trampolines | the four hooks, `InitializeIntercept`, `ShutdownIntercept` | allocator, dedup table, `intercept_hook` |
| `interpose/intercept_hook` | pages of trampolines, patched code | `HookInstall`, `HookRemove` | Windows |
| `main.cc` | the buffers of each smoke command | alloc-smoke, swap-smoke, dedup-smoke | all of the above |
| `backend/*` | two library objects per runner, by plain pointers | `RunBackend`: `Load`, `RunOnce`, `Unload` | llama.cpp, ONNX Runtime |
| `cuda/*`, `vmm/vmm_probe`, `util/timer.h` | none of interest | device selection, error check, stream, probe, clock | the driver |

The components are plain objects that call each other; there are no locks, no
threads of the project's own and no messages. The hooks, though, are installed into
functions that other threads of the application may be calling. What is hard here is

- *sequences*: a range list that is split and merged, buffers that lose and get
  back their memory, contexts that go stale;
- *failure in the middle*: every `VMM_CUDA_CHECK` can throw with the steps before
  it done, and nothing in `vmm/`, `swap/` or `interpose/` catches;
- *nondeterminism of the driver*: the order of the chunks it returns, the values of
  handles it reuses, when it runs out of memory, which calls it refuses;
- *aliasing*: two addresses with one physical memory and one handle, released twice;
- *interleaving*: functions patched one by one, each before its trampoline is known;
- *ownership*: pointers to library objects without destructors, `c_str()` of strings
  that move;
- *limits*: two contexts, a chunk of 256 MB, a page of trampolines, unsigned counters.

What makes each component correct: the pool's ranges partition the address space it
has reserved; an entry of the allocator that has memory has its own, fully mapped,
and counted once, and what a call loses by throwing is its own; data survives a round trip through the swap manager; what was
uploaded through the hooks is what is read back, and equal contents share memory; all
functions are hooked or none, and a call through a hook reaches the function it was
for; the runners free what they own, in order.

## Modules

| Module | Models | State |
|---|---|---|
| `VaSpace` | what the pool promises: addresses reserved, available, handed out | `reserved`, `available`, `spans` |
| `VmmPool` | `vmm_pool.{h,cc}` | `free_ranges_` in vector order, `chunks`, `held`, `request`, `alive` |
| `CudaDriver` | the memory calls of the driver (external), as functions on a GPU state | none |
| `VmmAllocator` | the calls of `vmm_allocator.{h,cc}` | `gpu`, `va_held`, `entries_`, `live_bytes`, `alive` |
| `PooledAllocator` | `VmmAllocator` on `VmmPool`, and any client | those of both, `allocating`, `careful` |
| `SwapSpace` | what swapping promises: each buffer keeps name, tag and data | `store`, `moving` |
| `SwapManager` | `swap_manager.{h,cc}`, `SwapContext::Store`, and swap-smoke as its client | those of `VmmAllocator`, `contexts_`, `call`, `client`, `out`, `manner` |
| `VmmDedup` | `vmm_dedup.{h,cc}` as functions on the table | none |
| `Intercept` | the hooks of `intercept_real.{h,cc}`, and dedup-smoke as their client | those of `VmmAllocator`, `dedup`, `phase`, `app`, `retired`, `kind` |
| `InterceptHook` | `intercept_hook.{h,cc}`, `InitializeIntercept`, `ShutdownIntercept`, and another thread's call | `code`, `pages`, `trampolines`, `g_tramp`, `g_cuda_dll`, `g_vmm_active`, `setup`, `call`, `twice` |
| `BackendRunner` | `backend_runner.h`, `llama_runner.cc`, `onnx_runner.cc` | `at`, `objects`, `members`, `result`, and of ONNX `model`, `names`, `inputs` |
| `Maps` | `Put`, the assignment to a key of a map, as the models above write it | none |
| `MC...` | bounds for TLC; `MCVmmPool` adds the history variable `ascending` | |
| `VmmPoolProofs`, `MCVmmPoolProofs` | proofs about `VmmPool`; with ascending chunks | |
| `VmmAllocatorProofs` | lemmas about `CudaDriver` and the calls of `VmmAllocator` | |
| `PooledAllocatorProofs`, `SwapManagerProofs`, `InterceptProofs`, `InterceptHookProofs`, `BackendRunnerProofs` | proofs about the module they are named for | |

`PooledAllocator`, `SwapManager` and `Intercept` extend `VmmAllocator` and call its
actions, as the code calls its methods. `SwapManager` and `Intercept` use the pool
through its promise only: a held range is a member of `Vas`. That promise is
`VaSpace`, which `VmmPool` is proved to implement, and `PooledAllocator` checks that
the allocator uses the pool as the promise demands.

**VmmPool.** `AllocateVirtual` is recursive, so a call is a state (`request`): `Carve`
ends it with a range, `ReserveChunk` adds a chunk and leaves the call open,
`ReserveFails` ends it with an exception. `FreeVirtual` is one action with both
merges and the final insertion. `std::lower_bound` on a vector that is not sorted
returns one of several positions; the model allows every position where a binary
search can end. `held` is not in the code: it is what the allocator passes back.

**CudaDriver.** Physical memory is created with a handle that is *open* until released,
and lives while it is open or mapped. A closed handle cannot be mapped; its value
may be given out again when its memory is gone. Mapping fails where something is
mapped already, and gives no access: `CuMemSetAccess` does, and what is mapped
without it can be neither read nor written. What a buffer holds is one value.

**VmmAllocator.** A call is one action, and throwing is another, with what was done
before the exception left done. The driver refuses `cuMemCreate` when there is no room;
it may refuse `cuMemMap`, `cuMemSetAccess`, `cuMemcpyHtoD` and `cuMemFree` at any time.
Hence one outcome for each `VMM_CUDA_CHECK` of a call:

| Call | Refused | What is left |
|---|---|---|
| `Allocate` (`AllocateVmmThrows`) | `cuMemCreate` | a range handed out and no entry |
| | `cuMemMap` | also an open handle |
| | `cuMemSetAccess` | also that handle, mapped without access |
| `RestorePhysical` (`RestorePhysicalThrows`) | `cuMemCreate` | nothing |
| | `cuMemMap` | an open handle that the entry has not got |
| | `cuMemSetAccess`, `cuMemcpyHtoD` | that handle, mapped at the buffer's address: the next try is refused at `cuMemMap` |
| `SharePhysical` (`SharePhysicalThrows`) | `cuMemMap` | dst without memory, with the handle it has released |
| | `cuMemSetAccess` | the same, src's memory mapped at dst without access |
| `Deallocate` (`DeallocateThrows`) | `SetDevice`, `cuMemFree` | everything as before |

`live_bytes` is modulo `SizeMod`.

**PooledAllocator.** Addresses are numbers, taken from the pool's vector; an Allocate is
several steps while the pool reserves chunks. `AllocateVmm` asks the pool for the
rounded size, `DeallocateVmm` gives back the unrounded one (`FreedBytes`). The client
calls anything with any pointer it holds, and the destructors follow in their order.
`careful` remembers whether it has always paired its calls as the smoke drivers do.

**SwapManager.** `SwapOut` copies to the host in one step (nothing can go wrong
there), then each turn of the release loop, and each turn of `SwapIn`'s loop, is a
step, since a turn may throw: any of `SwapIn` (`SwapInThrows`), and those of `SwapOut`
that call `Deallocate` (`SwapOutThrows`). The order of a tag's entries is that of
a hash map: any. The third `SwapOut` writes outside `contexts_`; what follows is
undefined, and the model stops there (`call = Outside`). The client swaps a tag out
when it is resident and frees only buffers that are on the GPU. `manner` says whether
it swaps each tag out "once", as swap-smoke does, several times ("again"), or once
with a new try when `SwapIn` has thrown ("retry"). The refinement to `SwapSpace` maps
a buffer's data to its memory, to the entries of the `SwapOut` under way, or to the
saved context that `SwapIn` would find.

**Intercept.** `Hook_Memcpy` is three actions: the content is found and shared, found
and the sharing throws, not found and copied. `Hook_Free` is two: `Hook_FreeThrows`
has taken the buffer out of the table and not freed it. `kind` is the kind of application:
"any" may have buffers from before the hooks, upload anything anywhere, and write
buffers with kernels; "weights" loads large buffers once each, as dedup-smoke does,
frees some and loads others, but loads no content again of which it has freed one of
several copies, or failed to free one (`retired`); "reloads" does; "loads" has buffers
of any size and frees none.

**InterceptHook.** Of a function's code the bytes that are patched matter: its own, or a
jump to its hook. `InstallHook` (allocate a block, copy, patch) and `RecordTrampoline`
are two steps, and so is each function of the four, because another thread's call may
come in between: it runs `Enter`, one of the hook's branches (`HookServes`,
`HookFreesDirectly`, `HookPassesOn`), perhaps `Trampoline`, and ends in the runtime,
the allocator, the driver, or nowhere (a null trampoline). Pages run out, so an
installation fails half way. `twice` remembers that hooks were installed over hooks.

**BackendRunner.** `RunBackend` with either runner; the calls of the libraries succeed
or fail in the ways the code tests for or lets through. `names` are the vectors of
`const char*`: which name, and whether the string it points into has moved, which a
short string does whenever the vector of strings grows.

## Runs

| Run | Checks | Distinct states |
|---|---|---|
| `VmmPool` | `TypeOK`, `Partition`, `HeldAligned`, `FreeRangesSorted`, `Coalesced`, `ImplementsVaSpace`, `NoSpareChunk`, `NoNeedlessReserve`, `AllocateVirtualEnds` | 9 300 |
| `PooledAllocator` | `TypeOK`, `PoolRangesUnmapped`, `MappingsApart`, `PoolPartition`, `PoolUsed`; for a careful client `CarefulBacked`, `CarefulOnlyThrowsLose`, `CarefulCounted`, `OthersUntouched` | 872 000 |
| `SwapManager` | `DataIntactOnce`, `LiveBytesExact`, `SwapOnlyThrowsLose`, `ImplementsSwapSpace`, `StoppedOnlyByDriver` | 972 000 |
| `Intercept` | `WeightsIntact`, `Deduplicated`, `HooksOnlyThrowsLose`, `LiveBytesExact` | 650 000 |
| `InterceptHook` | `AllOrNothing`, `CallsReachTheirOwn`, `TrampolinesWhole`, `ShutdownRestores`, `CallsEnd` | 43 000 |
| `BackendRunner` | `OwnersOutlive`, `LeavesNothing`, `PlainModelsNamed` | 9 500 |

What the code loses when it throws, it does lose: no property says that memory is never
lost. `OnlyThrowsLose`, for the three clients `CarefulOnlyThrowsLose`,
`SwapOnlyThrowsLose` and `HooksOnlyThrowsLose`, says of each step that it loses memory
(open or mapped without an entry) or a range (handed out without an entry) only if it
is a call that throws, that has changed no entry, and then one handle it has created and
one range it was given at most. Sharing, stale handles, retries and frees in any order
lose nothing, so what a long run has lost is bounded by its throws.

Each property has a mutant of the model, a plausible bug in the code it models, that
breaks it (`PROJECT.json`, "mutants"; the operators marked *Mutant* in the modules).

Runs that end in a counterexample, each a place where the code does not do what its
comments or its own smoke tests say (`PROJECT.json`, "findings", quotes them):

| Run | What it shows |
|---|---|
| `SwapTwice` | a second round trip of a tag restores the data of the first: contexts are never invalidated, and `SwapIn` takes the first |
| `SwapThird` | the third `SwapOut` writes past `contexts_[2]`, with the memory already released |
| `SwapSmall` | buffers below the granularity lose their tag ("fallback") and stay on the GPU |
| `InterceptLoads` | the second upload of a content to a small buffer is reported as done and copied nowhere |
| `InterceptReloads` | so is the upload of a content whose first buffer has been freed while the table still counts another |
| `OnnxInputs` | after an input of an unsupported type, tensors are passed under the names of other inputs |

### Seen while modelling

Places where the models do what the code does and a caller may expect otherwise. No
run is spent on them; the properties say for which clients they do not matter.

- `ReserveChunk` appends, so "Sorted by start address" (`vmm_pool.h:41`) holds only
  while the driver returns chunks in increasing order (`ascending`). The partition
  does not depend on it; merging and reuse do.
- Ranges of adjacent reservations merge and can be handed out as one.
- A request above `kChunkSize` reserves chunk after chunk until the driver fails. The
  runs keep sizes within a chunk.
- `~VmmPool` is to "Free all reserved chunks" (`vmm_pool.cc:13`) and has no body.
- `AllocateVmm` throws when memory runs out, and never returns the null that
  `Hook_Malloc` and the drivers test for. The range stays handed out; when the driver
  refuses to map or to give access, so does the new memory.
- `RestorePhysical` that throws at `cuMemSetAccess` or `cuMemcpyHtoD` leaves new memory
  mapped at the buffer's address without recording it: the buffer can never be restored.
- `Deallocate` of a buffer that is swapped out subtracts its size twice.
- `SharePhysical` of buffers that share already releases the handle it then maps, and
  throws with dst unmapped; an application that uploads the same content to the same
  buffer twice does that (`Hook_MemcpyThrows`). Whenever it throws, dst keeps the
  handle it has released.
- `SwapOut` of the tag "fallback" that throws in `Deallocate` has stored no context: what
  it has freed before is lost, and the pinned host buffer is.
- `SwapIn` called again after it has thrown overwrites nothing (`DataIntactOnce`), and
  never succeeds if a buffer was restored: it throws at the first of them, and loses
  memory each time. A client that instead frees what was restored, and allocates
  for another tag at the same address, gets the old context restored there.
- Kernels and device copies change registered buffers without the table knowing.
- `ShutdownIntercept` ("Remove hooks and release resources") releases no memory, and
  leaves `g_vmm_active` set.
- `HookInstall` on a function that is hooked copies the jump into the trampoline: the
  hook then calls itself for ever, although the header says "Returns a trampoline
  pointer that can be used to call the original function." A second
  `InitializeIntercept` does that; `CallsEnd` shows that nothing else does.
- A call that meets `InitializeIntercept` may jump to a null trampoline: in the window
  between the patching of its function and the recording of its trampoline, and
  only there (`CallsReachTheirOwn`).
- The ONNX runner's names dangle when they are short and there are several; its
  tensors refer to vectors that end before the session runs (not modelled: they have
  no contents here). Exceptions of ONNX Runtime leave its objects behind.

### Bounds

- *Pool*: three chunks of three granules, two of them adjacent, returned in any order,
  and requests of one granule and of two and a half (rounded to a chunk): enough
  for prev-merge, next-merge, both and neither, within a chunk and across, in sorted
  and unsorted vectors, for a chunk split on both sides of a range, and for
  exhaustion.
- *Pooled allocator*: one chunk of three granules; buffers of one and two granules and
  one below; memory for two granules and a half, so that every call can be the one
  that runs out, and so can the addresses; two handles, since no third memory has room.
  `SizeMod` is 8: three buffers of a granule and the small one are 7 bytes, and nothing
  more has addresses, so a wrap is a miscount and never legal.
- *Swap*: two addresses, two tags, one fallback pointer, the code's two contexts.
  `MaxSwapOuts` bounds the number of `SwapOut` calls: 3, one more than the contexts.
- *Intercept*: three addresses for weights, two (`MaxHeld`) for any application;
  contents `d1`, `d2`; `MaxRefs` bounds the uploads counted by an entry of the table.
- *Hooks*: pages of two trampolines and a bit, as a real page has a bit left over after
  75, and three pages (`MaxPages`): one installation and a half.
- *Backends*: models of up to two inputs and two outputs (`MaxNames`), each name short
  or long, each type supported or not.

Addresses, handles and contents are otherwise interchangeable values, so one more of
each repeats the same interactions. Symmetry is used for addresses (where they are
not numbers) and handles, never in a run with liveness.

`CHECK_DEADLOCK FALSE` everywhere: a destroyed pool or allocator, a client that has
used up its bound, an undefined state and a program that has ended have no next step.

### Fairness

`VmmPool` has weak fairness on `AllocateVirtual`, `InterceptHook` on `CallStep`. Both
are code that runs on the caller's thread with nothing to wait for: a call that has
begun takes its next step. Nothing is assumed of the client, nor of the thread that
installs the hooks.

## Proofs

The assumptions are those the modules state on their constants (`...Assumption`), as
weak as the code allows: the granularity, the sizes and a chunk are positive, chunks
end below `VaEnd`, pool addresses and `cuMemAlloc` addresses differ, no client
allocates with the tag "fallback" (`FallbackTagAssumption`, of `SwapManager`), `None`,
`NoHandle`, `NullPtr` and `Garbage` are not what they stand beside. Nothing is
assumed of how many addresses, handles, buffers, tags, contents, pages or names there
are, nor of the order or alignment of the chunks. Five theorems have
a hypothesis of their own:

- `HandedOutAligned`, that the driver's base addresses are multiples of the granularity:
  the code asks for the driver's own alignment and maps at what it is given, so it relies
  on this.
- `OneChunkIsEnough`, that no request is above a chunk (otherwise the pool reserves
  without end, see above).
- The three on `live_bytes`, that the sum it stands for is a value of `std::size_t`
  (`SizeMod`, 2^64 in the code), since a counter that overflows is right only modulo
  `SizeMod`. Each bounds the sum by what is finite in that client. Memory that nobody
  shares is part of the GPU's (`MemoryCountable`: `Vram < SizeMod`). Memory that buffers
  share is counted for each of them, so what bounds it is their addresses: below
  `VaEnd`, where the pool's ranges are disjoint (`AddressesCountable`:
  `VaEnd + Vram < SizeMod`; addresses have 47 or 57 bits); for the hooks, where an
  address is a name, the sizes that buffers at all names together can have
  (`RangesCountable`). The constants of the runs satisfy the first and the last; run `PooledAllocator`
  has a `SizeMod` as small as its own sums allow, 8, to which no sum comes up.

| Module | Theorem | Property |
|---|---|---|
| `VmmPoolProofs` | `TypeCorrect`, `PartitionHolds` | `TypeOK`, `Partition` |
| | `Refinement` | `ImplementsVaSpace` |
| | `HandedOutAligned`, `OneChunkIsEnough` | `HeldAligned`, `NoSpareChunk` |
| `MCVmmPoolProofs` | `SortedWhenAscending`, `CoalescedWhenAscending` | `FreeRangesSorted`, `Coalesced` |
| | `NoNeedlessReserveWhenAscending` | `NoNeedlessReserve` |
| `PooledAllocatorProofs` | `AllocatorTypeCorrect`, `FreedRangesAreUnmapped` | `TypeOK`, `PoolRangesUnmapped` |
| | `PoolIsUsedAsSpecified`, `PoolStaysPartitioned` | `PoolUsed`, `PoolPartition` |
| | `PooledImplementsVaSpace` | the pool's `ImplementsVaSpace`, under the allocator |
| | `MappingsStayApart` | `MappingsApart` |
| | `CarefulIsBacked`, `CarefulLosesByThrows`, `CarefulTouchesNoOther` | `CarefulBacked`, `CarefulOnlyThrowsLose`, `OthersUntouched` |
| | `CarefulIsCounted` | `CarefulCounted` |
| `SwapManagerProofs` | `SwapKeepsData`, `SwapLosesByThrows` | `DataIntactOnce`, `SwapOnlyThrowsLose` |
| | `SwapRefinement` | `ImplementsSwapSpace` |
| | `SwapCountsBytes`, `SwapStopsByDriver` | `LiveBytesExact`, `StoppedOnlyByDriver` |
| `InterceptProofs` | `HooksLoseByThrows`, `HooksCountBytes` | `HooksOnlyThrowsLose`, `LiveBytesExact` |
| | `WeightsStayIntact`, `WeightsAreShared` | `WeightsIntact`, `Deduplicated` |
| `InterceptHookProofs` | `TrampolinesStayWhole`, `InstallsAllOrNothing` | `TrampolinesWhole`, `AllOrNothing` |
| | `CallsReachTheirFunction`, `RemovalRestores` | `CallsReachTheirOwn`, `ShutdownRestores` |
| `BackendRunnerProofs` | `OwnersAlwaysOutlive`, `NothingIsLeft` | `OwnersOutlive`, `LeavesNothing` |
| | `PlainModelsAreNamed` | `PlainModelsNamed` |

`VmmAllocatorProofs` has no theorem of its own: it holds the lemmas on the driver's
functions and on the calls of `VmmAllocator`, for any client, on which
`PooledAllocatorProofs`, `SwapManagerProofs` and `InterceptProofs` all rest.

### The arguments

**The pool.** The inductive invariant is `IInv == TypeOK /\ Partition`. `Partition`
alone is not enough because a carve is sound only for ranges below `VaEnd`, and
disjointness alone is not because merging needs to know that free ranges are not
empty. Sortedness is *not* needed: a range that is inserted anywhere in the vector
leaves the same set of addresses. That is why `Partition` holds although
`FreeRangesSorted` does not. Lemmas say what removing, inserting, shrinking or joining
a range does to the set of free addresses (`RemoveRange`, `InsertRange`, `CarveRange`,
`JoinRanges`, `FreeRangeLemma`), and one per action what the action does
(`CarveEffect`, `ReserveEffect`, `FreeEffect`); the step of the invariant and each
step of the refinement follow. `AlignedInv` adds that free ranges *start* aligned;
their ends need not be, which is why `kChunkSize` may be anything. `OrderInv`, for
ascending chunks, is that the vector is sorted and that ranges touch only where a
chunk begins: sorted, `lower_bound` has one answer, and it is between the two
neighbours that the freed range may have to join.

**The allocator.** `AInv`, for any client and after any throw: `TypeOK`, a well-formed
GPU (every mapping is of memory that exists), nothing mapped outside the ranges that
are handed out, and what is mapped where an entry is has exactly the entry's rounded
size, whether or not the entry knows of it. The last is what makes the `cuMemUnmap` of
`Deallocate` and of the destructor effective, so that a range goes back to the pool
unmapped. `Mirrored` (memory that an entry has is mapped, with access, at its address)
is what a careful client keeps and what a throw of `SharePhysical` breaks. Its converse
does not hold: `RestorePhysical` that throws leaves something mapped for an entry that
has no memory.

**Losses.** `OnlyThrowsLose` is about a step. One lemma per call says what it makes
`Lost`: nothing for a call that returns, and for one that throws the handle it has
created. For `ReleasePhysical`, `Deallocate` and `SharePhysical` it needs that a handle
that leaves an entry is closed (and then only mappings keep the memory, at addresses of
entries that will unmap it), never that the entry knows what is mapped; so it holds for
hooks whose shares were refused as well.

**Sums.** `live_bytes`, and the room that is left on the GPU, are about
`SumFunctionOnSet`, which is defined by recursion on the set. The library's induction on
finite sets takes a predicate, which the prover cannot instantiate; each induction is
written out instead: the subsets for which the claim fails would have a minimal member
(`MinimalSubset`). In this way a sum is shown to unfold (`SumUnfolds`), to take any one
element first (`SumTakes`, `SumAdds`), to depend on the values only (`SumSame`), to split
over disjoint sets (`SumSplits`), to grow along an injection (`SumAtMost`), and to be
bounded by the end of the space in which the summands are disjoint ranges (`SumApart`).

**Counting.** `MeterInv`, for any client: there are finitely many buffers, the sizes of
all memory add up to at most `Vram`, and a fallback buffer's entry has the size of its
memory. `Exact` is the equation of `LiveBytesExact`. One lemma per call says that it
keeps `MeterInv`, and one that it keeps `Exact`: if the sum after it is `Countable`, for
a call that adds; if the buffer has the memory, for a call that gives it up. The three
clients meet these two conditions in their own ways:

- a careful client releases only what is there, by `Mirrored`; its sum is at most that of
  disjoint ranges below `VaEnd`, and of device memory;
- in swapping, for every `manner`, `HeapInv`: each buffer that has memory has a handle of
  its own, so its memory is part of `Vram`; and `TurnsInv`: during a `SwapOut` the buffers
  listed from `next` on are there, and each is listed once, so none is released twice.
  Nothing is known of the lists in `contexts_` but that their sizes are sizes: a `SwapIn`
  from an old context maps where nothing is mapped, or throws;
- the hooks never call `ReleasePhysical`, so every entry is counted (`AllResident`),
  with the handle of memory that a refused share took from it, too.

**A throw of SwapIn.** `RestorePhysical` is stopped with the GPU as it was if there is no
room for this buffer, and then there is none for all that are away, of which it is one
(`NoRoomForAll`). Otherwise it has created memory and one of the calls after that is
refused. That the buffer's address is free then is `FreeInv`: for a client that swaps in
once, whatever an earlier `SwapIn` left mapped is at an address of a tag that has been
given up.

**The allocator on the pool.** `PInv` joins `AInv`, the pool's `IInv` and, while the
client is careful, `Mirrored` by `LinkInv` and `MapsHeld`: what the pool has handed out
is what the allocator holds, each VMM entry has a range of its rounded size, and what is
mapped, by a call that threw too, is as long as its range. `LinkInv` is why
`FreeVirtual`, given the unrounded size, takes back the range `AllocateVirtual` gave.
Each step of `PooledAllocator` is then a step of the pool's own specification or a
stutter (`PoolStep`), so the theorems about the pool hold under the allocator.

**Swapping.** `SInv`, unless the client swaps a tag more than once: `MemoryInv` (`AInv`,
`Mirrored`, no memory shared, buffers that are there hold what was written) and
`ListInv`: the lists of saved buffers name each buffer once and each tag once; a buffer
that is away has its data in the list of its tag (`AwayInv`); the buffers before
`next` have moved and the others have not (`OutInv`, `InInv`); and the list of a tag
that is out ends with the buffers that are away (`WaitInv`), which is what remains
true when `SwapIn` throws half way and is called again.

**The hooks.** `LeakInv`, for every application, is `AInv` until the hooks are off; the
lemmas on losses need no more. For an application that loads weights, `WInv`, over the
buffers that are `Usable` (mapped with access; one whose share was refused is not, and
what was uploaded is only in those that are): the memory holds what was uploaded
(`HoldsInv`), buffers share memory exactly if they hold the same content (`SharedInv`),
and the table's entry for a content names a live buffer with it, unless a buffer with
that content has been freed while another had it, or could not be freed (`TableInv`).
A handle in `WInv` need not be open: a buffer whose share was refused still has the
handle it has released, whose value may be another memory's by then, and closes that
when it is freed; the mappings keep the memory. The exception is what
`retired` stands for, and where run `InterceptReloads` goes wrong.

**Installation.** `IInv` has where every trampoline lies and whose it is (`PagesInv`,
`RecordInv`), how far the installation or removal under way has come (`ProgressInv`),
and where the other thread's call may be meanwhile (`CallInv`): it can be in a
trampoline only when that one is recorded, and can meet the null one only between
`InstallHook` and `RecordTrampoline`.

**The runners.** `ObjectsInv` says for each place in `RunBackend` what is alive, and
`NamesInv` which names of which side are listed, and that the k-th tensor is that of
input k as long as no input has been skipped.

### Only model-checked

- `AllocateVirtualEnds`, `CallsEnd`: liveness under fairness is out of the prover's reach.
- The counterexamples of the runs that expect one.

## Not modelled

- `stats_` other than `live_bytes`, the hit counters of the dedup table and the call
  counters of the hooks: reported, never read by the code.
- Collisions of the 64-bit hash: `Hash` is injective. The table would map the wrong
  memory; nothing else depends on it.
- Copies of part of a buffer, pointers into a buffer, asynchronous CUDA errors.
- Failure of `cuMemHostAlloc`: `SwapOut` returns false and nothing changes. Calls
  that return at once without effect (unknown tag, unknown pointer) are stutters.
- Two hooks at once: the allocator and the table are shared and not locked, so that is
  a data race, after which nothing can be said. `InterceptHook` has a second thread,
  but only where it is: in which function, hook or trampoline.
- A thread that is executing the bytes of a function while they are patched.
- The moves of `SwapContext` and all of `CudaStream`: no code uses them.
- Initialisation with no device, the probe, the timer, the device queries, the command
  line, and everything inside llama.cpp and ONNX Runtime.

## Plan

Done: every component but `cuda/*`, the probe and the timer has its module, its run
and the proofs of its safety properties. Every invariant and every
action property that a passing run checks is a theorem. What is left is the liveness of
the two calls that have steps of their own, which stays with TLC.
