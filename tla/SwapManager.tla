---------------------------- MODULE SwapManager ----------------------------
(***************************************************************************)
(* The swap manager of src/swap/swap_manager.{h,cc} and swap_context.h, on *)
(* top of the allocator, and a client of both that swaps the buffers of a  *)
(* backend out and in as swap-smoke (main.cc) does.                        *)
(*                                                                         *)
(* SwapOut and SwapIn call the allocator once for each buffer.  A call of  *)
(* theirs in progress is the variable call, and each turn of their loops   *)
(* is a step: any turn can throw, except that ReleasePhysical does not,    *)
(* and what the turns before it have done stays done.  The client is idle  *)
(* meanwhile (one thread).                                                 *)
(***************************************************************************)
EXTENDS VmmAllocator, SequencesExt

CONSTANTS
  kContexts,      \* the length of contexts_[2]
  SwapTags,       \* tags the client passes to SwapOut and SwapIn
  MaxSwapOuts,    \* bound on the number of SwapOut calls
  NoPtr           \* no pointer

ASSUME kContextsAssumption == kContexts \in Nat \ {0}
(* No client of src/ allocates with this tag.                              *)
ASSUME FallbackTagAssumption == FallbackTag \notin Tags
ASSUME MaxSwapOutsAssumption == MaxSwapOuts \in Nat

VARIABLES
  contexts_,      \* contexts_[0 .. context_slot_ - 1]: [tag, entries]
  call,           \* the SwapOut or SwapIn in progress
  client,         \* from the client's buffers to [tag, data]: the tag it
                  \* gave Allocate, and what it wrote last
  out,            \* tags the client has swapped out and not in again
  manner          \* how the client goes about it: it swaps each tag out at
                  \* most "once" and no more tags than there are contexts;
                  \* it swaps tags out "again"; or it swaps them out once
                  \* and has another "retry" when SwapIn has thrown

allocatorVars == <<gpu, va_held, entries_, live_bytes, alive>>
swapVars == <<allocatorVars, contexts_, call, client, out, manner>>

Idle == [op |-> "none"]
Thrown == [op |-> "thrown"]
Outside == [op |-> "undefined"]

(* No call is in progress.  Thrown: the last one has thrown.               *)
AtRest == call \in {Idle, Thrown}

SwapInit ==
  /\ Init
  /\ contexts_ = << >>
  /\ call = Idle
  /\ client = << >>
  /\ out = {}
  /\ manner \in {"once", "again", "retry"}

-----------------------------------------------------------------------------
(* SwapOut.                                                                *)

GetAllocationsByTag(tag) == {p \in Ptrs : entries_[p].tag = tag}

(* Mutant: the host buffer is filled after the memory has been released.   *)
SavedTooLate(p) ==
  [original_ptr |-> p, size |-> entries_[p].size,
   is_vmm |-> entries_[p].is_vmm, data |-> Garbage]

(* A SwapEntry, and its part of the pinned host buffer: cuMemcpyDtoH has   *)
(* copied the buffer's contents there.                                     *)
Saved(p) ==
  [original_ptr |-> p, size |-> entries_[p].size,
   is_vmm |-> entries_[p].is_vmm, data |-> Contents(gpu, p)]

(* Up to the second loop: every allocation of the tag, in the order of the *)
(* unordered_map, is copied to the host.  When there is none, or           *)
(* cuMemHostAlloc fails, SwapOut returns false and nothing changes.        *)
SwapOut(tag) ==
  /\ AtRest
  /\ GetAllocationsByTag(tag) # {}
  /\ \E order \in SetToSeqs(GetAllocationsByTag(tag)) :
       call' = [op |-> "out", tag |-> tag, next |-> 1,
                entries |-> [i \in DOMAIN order |-> Saved(order[i])]]
  /\ UNCHANGED <<allocatorVars, contexts_, client, out, manner>>

Turn == call.entries[call.next]

(* "Release GPU physical backing.": one turn of the loop.                  *)
SwapOutRelease ==
  /\ call.op = "out"
  /\ call.next <= Len(call.entries)
  /\ \/ Turn.is_vmm /\ ReleasePhysical(Turn.original_ptr)
     \/ ~Turn.is_vmm /\ Deallocate(Turn.original_ptr)
  /\ call' = [call EXCEPT !.next = @ + 1]
  /\ UNCHANGED <<contexts_, client, out, manner>>

(* Deallocate throws, through SwapOut to the client: no context is stored, *)
(* and what the turns before have freed is lost.                           *)
SwapOutThrows ==
  /\ call.op = "out"
  /\ call.next <= Len(call.entries)
  /\ ~Turn.is_vmm
  /\ DeallocateThrows
  /\ call' = Thrown
  /\ UNCHANGED <<contexts_, client, out, manner>>

(* "Store context.": in slot context_slot_++.                              *)
SwapOutStore ==
  /\ call.op = "out"
  /\ call.next > Len(call.entries)
  /\ Len(contexts_) < kContexts
  /\ contexts_' = Append(contexts_,
                         [tag |-> call.tag, entries |-> call.entries])
  /\ call' = Idle
  /\ out' = out \cup {call.tag}
  /\ UNCHANGED <<allocatorVars, client, manner>>

(* The slot is past the end of contexts_: the behaviour of the program is  *)
(* undefined from here on, and no element of contexts_ has the data.       *)
SwapOutStoreOutside ==
  /\ call.op = "out"
  /\ call.next > Len(call.entries)
  /\ Len(contexts_) >= kContexts
  /\ call' = Outside
  /\ UNCHANGED <<allocatorVars, contexts_, client, out, manner>>

-----------------------------------------------------------------------------
(* SwapIn.                                                                 *)

(* The context SwapIn finds for a tag: the first one that has it.          *)
Found(tag, i) ==
  /\ i \in DOMAIN contexts_
  /\ contexts_[i].tag = tag
  /\ \A j \in 1 .. i - 1 : contexts_[j].tag # tag

(* When there is none SwapIn returns false.                                *)
SwapIn(tag) ==
  /\ AtRest
  /\ \E i \in DOMAIN contexts_ :
       /\ Found(tag, i)
       /\ call' = [op |-> "in", tag |-> tag, next |-> 1, copy |-> NoPtr,
                   entries |-> contexts_[i].entries]
  /\ UNCHANGED <<allocatorVars, contexts_, client, out, manner>>

InTurn == call.op = "in" /\ call.copy = NoPtr /\ call.next <= Len(call.entries)

NextTurn == call' = [call EXCEPT !.next = @ + 1]

(* Mutant: data_cursor is not advanced.                                    *)
HostDataFirst == call.entries[1].data

(* The bytes at data_cursor.                                               *)
HostData == Turn.data

SwapInRestore ==
  /\ InTurn
  /\ Turn.is_vmm
  /\ \E h \in Handles : RestorePhysical(Turn.original_ptr, h, HostData)
  /\ NextTurn
  /\ UNCHANGED <<contexts_, client, out, manner>>

(* RestorePhysical throws, or Allocate does (its SetDevice, or cuMemAlloc  *)
(* for another reason than memory), through SwapIn to the client, which    *)
(* gives the tag up, or keeps it for another try.                          *)
SwapInThrows ==
  /\ InTurn
  /\ \/ Turn.is_vmm /\ RestorePhysicalThrows(Turn.original_ptr)
     \/ ~Turn.is_vmm /\ UNCHANGED allocatorVars
  /\ call' = Thrown
  /\ out' = IF manner = "retry" THEN out ELSE out \ {call.tag}
  /\ UNCHANGED <<contexts_, client, manner>>

(* RestorePhysical finds no entry for the pointer: the client has freed    *)
(* the buffer since, and RestorePhysical returns without a word.           *)
SwapInSkips ==
  /\ InTurn
  /\ Turn.is_vmm
  /\ Turn.original_ptr \notin Ptrs
  /\ NextTurn
  /\ UNCHANGED <<allocatorVars, contexts_, client, out, manner>>

(* "Re-allocate fallback and copy data.": Allocate, at some new pointer.   *)
SwapInReallocate ==
  /\ InTurn
  /\ ~Turn.is_vmm
  /\ \E ptr \in Linears : /\ AllocateFallback(Turn.size, ptr)
                          /\ call' = [call EXCEPT !.copy = ptr]
  /\ UNCHANGED <<contexts_, client, out, manner>>

(* Then cuMemcpyHtoD.                                                      *)
SwapInCopy ==
  /\ call.op = "in"
  /\ call.copy # NoPtr
  /\ gpu' = Write(gpu, call.copy, HostData)
  /\ call' = [call EXCEPT !.copy = NoPtr, !.next = @ + 1]
  /\ UNCHANGED <<va_held, entries_, live_bytes, alive, contexts_, client, out, manner>>

(* "if (ptr)": Allocate returned nullptr, the buffer is passed over.       *)
SwapInNoMemory ==
  /\ InTurn
  /\ ~Turn.is_vmm
  /\ ~Room(gpu, Turn.size)
  /\ NextTurn
  /\ UNCHANGED <<allocatorVars, contexts_, client, out, manner>>

SwapInDone ==
  /\ call.op = "in"
  /\ call.next > Len(call.entries)
  /\ call' = Idle
  /\ out' = out \ {call.tag}
  /\ UNCHANGED <<allocatorVars, contexts_, client, manner>>

-----------------------------------------------------------------------------
(* The client.                                                             *)

ClientAllocate(bytes, tag) ==
  /\ AtRest
  /\ \/ \E va \in Vas, h \in Handles :
          /\ AllocateVmm(bytes, tag, va, h)
          /\ client' = Put(client, va, [tag |-> tag, data |-> Garbage])
     \/ \E ptr \in Linears :
          /\ AllocateFallback(bytes, ptr)
          /\ client' = Put(client, ptr, [tag |-> tag, data |-> Garbage])
     \/ \E va \in Vas : AllocateVmmThrows(bytes, va) /\ UNCHANGED client
  /\ UNCHANGED <<contexts_, call, out, manner>>

(* cuMemsetD8, on a buffer that is on the GPU.                             *)
ClientWrite(p, d) ==
  /\ AtRest
  /\ p \in Ptrs \cap DOMAIN client
  /\ Resident(p)
  /\ client[p].data # d
  /\ gpu' = Write(gpu, p, d)
  /\ client' = [client EXCEPT ![p].data = d]
  /\ UNCHANGED <<va_held, entries_, live_bytes, alive, contexts_, call, out, manner>>

(* "Swap B back in so we can clean up properly": only a buffer that is on  *)
(* the GPU is freed, and not while the client has another try at its tag.  *)
ClientDeallocate(p) ==
  /\ AtRest
  /\ p \in Ptrs \cap DOMAIN client
  /\ Resident(p)
  /\ manner = "retry" => entries_[p].tag \notin out
  /\ Deallocate(p)
  /\ client' = RestrictDomain(client, LAMBDA q : q # p)
  /\ UNCHANGED <<contexts_, call, out, manner>>

(* The client swaps a tag out when all of it is on the GPU.                *)
ClientSwapOut(tag) ==
  /\ Len(contexts_) < MaxSwapOuts
  /\ tag \notin out
  /\ \A p \in GetAllocationsByTag(tag) : Resident(p)
  /\ manner # "again" => /\ Len(contexts_) < kContexts
                         /\ \A i \in DOMAIN contexts_ : contexts_[i].tag # tag
  /\ SwapOut(tag)

(* The client swaps a tag in that it has swapped out.                      *)
ClientSwapIn(tag) ==
  /\ tag \in out
  /\ SwapIn(tag)

(* The turns of the loops of SwapOut and SwapIn, and what follows them.    *)
SwapStep ==
  \/ SwapOutRelease \/ SwapOutThrows \/ SwapOutStore \/ SwapOutStoreOutside
  \/ SwapInRestore \/ SwapInThrows \/ SwapInSkips \/ SwapInReallocate \/ SwapInCopy
  \/ SwapInNoMemory \/ SwapInDone

SwapNext ==
  \/ \E bytes \in Sizes, tag \in Tags : ClientAllocate(bytes, tag)
  \/ \E p \in Pointers, d \in Data : ClientWrite(p, d)
  \/ \E p \in Pointers : ClientDeallocate(p)
  \/ \E tag \in SwapTags : ClientSwapOut(tag) \/ ClientSwapIn(tag)
  \/ SwapStep

SwapSpec == SwapInit /\ [][SwapNext]_swapVars

-----------------------------------------------------------------------------
(* Properties.                                                             *)

(* "Data integrity check" of swap-smoke: between calls, every VMM buffer   *)
(* that is on the GPU holds what the client wrote to it last, at the       *)
(* address the client knows, however often the buffers of its tag and of   *)
(* other tags have been swapped out and in (SwapOut, SwapIn) since.        *)
DataIntact ==
  AtRest =>
    \A p \in Vas \cap Ptrs \cap DOMAIN client :
      Resident(p) => Contents(gpu, p) = client[p].data

(* So it is for a client that swaps each tag out once, and for one that    *)
(* calls SwapIn again after it has thrown half way: what the first call    *)
(* restored, and the client has written since, is not overwritten.         *)
DataIntactOnce == manner # "again" => DataIntact

(* "Save all GPU allocations with the given tag to pinned host memory,     *)
(* then release GPU physical backing": between calls, what the client      *)
(* wrote to a buffer that is not on the GPU is in a saved context.         *)
SwappedOutIsSaved ==
  AtRest \/ call = Outside =>
    \A p \in Vas \cap Ptrs :
      ~Resident(p) =>
        \E i \in DOMAIN contexts_ : \E j \in DOMAIN contexts_[i].entries :
          LET e == contexts_[i].entries[j]
          IN e.original_ptr = p /\ e.data = client[p].data

(* Where the data of a VMM buffer is: in its memory, or in the entries of  *)
(* the SwapOut under way, or in the context that SwapIn would find.        *)
Entries(tag) ==
  IF call.op = "out" /\ call.tag = tag
    THEN call.entries
    ELSE contexts_[CHOOSE i \in DOMAIN contexts_ : Found(tag, i)].entries

DataOf(p) ==
  IF Resident(p)
    THEN Contents(gpu, p)
    ELSE LET es == Entries(entries_[p].tag)
         IN es[CHOOSE j \in DOMAIN es : es[j].original_ptr = p].data

(* The buffers, and the swap under way, as SwapSpace sees them.  (Nothing   *)
(* is said of a client that swaps a tag out again.)                        *)
SwapStore ==
  IF manner = "again" THEN << >>
  ELSE [p \in Vas \cap Ptrs |-> [tag    |-> entries_[p].tag,
                                 data   |-> DataOf(p),
                                 on_gpu |-> Resident(p)]]

SwapMoving ==
  IF manner = "again" THEN Idle
  ELSE IF AtRest THEN call
  ELSE [op |-> call.op, tag |-> call.tag]

Space == INSTANCE SwapSpace WITH
  Buffers   <- Vas,
  Unwritten <- Garbage,
  store     <- SwapStore,
  moving    <- SwapMoving

(* The swap manager implements SwapSpace: each turn of SwapOut and SwapIn  *)
(* moves one buffer with its data, SwapOut and SwapIn return when all VMM  *)
(* buffers of the tag are out, or in, and a swap that throws leaves every  *)
(* buffer, moved or not, with its data.                                    *)
ImplementsSwapSpace == Space!Spec

(* "Save all GPU allocations with the given tag": once SwapOut has stored  *)
(* the context of a tag, no buffer allocated with that tag is on the GPU.  *)
AllOfTagSwappedOut ==
  [][contexts_' # contexts_ =>
       \A p \in Ptrs \cap DOMAIN client :
         client[p].tag = contexts_'[Len(contexts_')].tag => ~Resident(p)]_swapVars

Away(e) == e.original_ptr \in Ptrs /\ ~Resident(e.original_ptr)

(* "Restore GPU allocations for the given tag": when RestorePhysical stops *)
(* a SwapIn half way, either the GPU, which it leaves as it was, has no    *)
(* room for all buffers of the tag that are still swapped out, or the      *)
(* driver has refused to map new memory at an address that is the buffer's *)
(* and free.  No buffer's address is taken, by an earlier call that threw  *)
(* or by another buffer.                                                   *)
StoppedOnlyByDriver ==
  [][manner = "once" /\ call.op = "in" /\ call' = Thrown /\ Turn.is_vmm =>
       IF gpu' = gpu
         THEN ~Room(gpu, SumFunction(
                 [i \in {j \in DOMAIN call.entries : Away(call.entries[j])} |->
                    AllocSize(call.entries[i].size)]))
         ELSE Turn.original_ptr \notin DOMAIN gpu.maps]_swapVars

(* No call loses memory or addresses except by throwing, and a SwapIn that *)
(* stops half way no more than the new memory of the buffer at which it    *)
(* stopped: not what the turns before it restored, nor, in other tries and *)
(* later calls, any buffer's.                                              *)
SwapOnlyThrowsLose == [][OnlyThrowsLose]_swapVars

=============================================================================
