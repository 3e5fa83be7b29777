----------------------------- MODULE Intercept -----------------------------
(***************************************************************************)
(* The hooks of src/interpose/intercept_real.{h,cc}: cudaMalloc, cudaFree, *)
(* cudaMemcpy and cudaLaunchKernel of an application go to the allocator   *)
(* and, for uploads, through the dedup table.  The upload of dedup-smoke   *)
(* (main.cc) is the body of Hook_Memcpy.                                   *)
(*                                                                         *)
(* The application is one thread and uploads whole buffers.  A hook is one *)
(* action; each way it ends is an action of its own.  phase says where     *)
(* cudaMalloc and the others lead: to the CUDA runtime "before"            *)
(* InitializeIntercept, to the hooks while it is "on", and to the runtime  *)
(* again after ShutdownIntercept ("off").  Module InterceptHook has the    *)
(* patching that makes phase change, and why a call that is under way      *)
(* meanwhile is not modelled here.                                         *)
(***************************************************************************)
EXTENDS VmmAllocator, VmmDedup

CONSTANTS
  CudaTag,        \* "cuda"
  Kinds,          \* the kinds of application that are looked at
  MaxRefs,        \* bounds for applications of the "any" kind: on the
  MaxHeld         \* ref_count of an entry of the table, and on the ranges

ASSUME KindsAssumption == Kinds \subseteq {"weights", "reloads", "loads", "any"}
ASSUME BoundsAssumption == MaxRefs \in Nat /\ MaxHeld \in Nat
ASSUME CudaTagAssumption == CudaTag \in Tags
(* No buffer is at nullptr; what nobody has written is no upload.          *)
ASSUME NullPtrAssumption == NullPtr \notin Pointers
ASSUME GarbageAssumption == Garbage \notin Data

VARIABLES
  dedup,          \* entries_ of g_dedup_table
  phase,          \* "before", "on" or "off"
  app,            \* from the application's buffers to [size, data]: what it
                  \* asked for, and what it wrote there last
  retired,        \* contents of which a "weights" application has freed
                  \* one of several buffers, or failed to free one
  kind            \* the kind of application: see MayUpload

allocator == <<gpu, va_held, entries_, live_bytes, alive>>
interceptVars == <<allocator, dedup, phase, app, retired, kind>>

InterceptInit ==
  /\ Init
  /\ dedup = EmptyTable
  /\ phase = "before"
  /\ app = << >>
  /\ retired = {}
  /\ kind \in Kinds

Fresh(size) == [size |-> size, data |-> Garbage]

-----------------------------------------------------------------------------
(* The CUDA runtime.                                                       *)

RealMalloc(size) ==
  /\ phase # "on"
  /\ Room(gpu, size)
  /\ \E ptr \in Linears \ DOMAIN gpu.linear :
       /\ gpu' = CuMemAlloc(gpu, ptr, size)
       /\ app' = Put(app, ptr, Fresh(size))
  /\ UNCHANGED <<va_held, entries_, live_bytes, alive, dedup, phase, retired, kind>>

(* The runtime knows nothing of a pointer from VmmPool: nothing happens.   *)
RealFree(p) ==
  /\ phase # "on"
  /\ p \in DOMAIN app \cap DOMAIN gpu.linear
  /\ gpu' = CuMemFree(gpu, p)
  /\ app' = RestrictDomain(app, LAMBDA q : q # p)
  /\ UNCHANGED <<va_held, entries_, live_bytes, alive, dedup, phase, retired, kind>>

-----------------------------------------------------------------------------
(* All four functions are found and patched, and the allocator is ready.   *)
(* When something is missing, what was patched is restored: no change.     *)
InitializeIntercept ==
  /\ phase = "before"
  /\ phase' = "on"
  /\ UNCHANGED <<allocator, dedup, app, retired, kind>>

(* The four functions are restored, and nothing else.                      *)
ShutdownIntercept ==
  /\ phase = "on"
  /\ phase' = "off"
  /\ UNCHANGED <<allocator, dedup, app, retired, kind>>

(* When Allocate returns nullptr the hook returns an error and nothing     *)
(* changes; when it throws, so does the hook.                              *)
Hook_Malloc(size) ==
  /\ phase = "on"
  /\ \/ \E va \in Vas, h \in Handles :
          /\ AllocateVmm(size, CudaTag, va, h)
          /\ app' = Put(app, va, Fresh(size))
     \/ \E ptr \in Linears :
          /\ AllocateFallback(size, ptr)
          /\ app' = Put(app, ptr, Fresh(size))
     \/ \E va \in Vas : AllocateVmmThrows(size, va) /\ UNCHANGED app
  /\ UNCHANGED <<dedup, phase, retired, kind>>

(* "if (it == entries_.end()) return;": a buffer from before the hooks is  *)
(* left alone, and the hook reports success all the same.                  *)
DeallocateIgnores(p) == p \notin Ptrs /\ UNCHANGED allocator

(* The contents that buffers other than p have in common with p.           *)
Common(p) ==
  IF \E q \in DOMAIN app \ {p} : app[q].data = app[p].data
    THEN {app[p].data} \ {Garbage} ELSE {}

Hook_Free(p) ==
  /\ phase = "on"
  /\ p \in DOMAIN app
  /\ dedup' = UnregisterPtr(dedup, p)
  /\ Deallocate(p) \/ DeallocateIgnores(p)
  /\ app' = RestrictDomain(app, LAMBDA q : q # p)
  /\ retired' = IF kind = "weights" THEN retired \cup Common(p) ELSE retired
  /\ UNCHANGED <<phase, kind>>

(* Deallocate throws: the buffer stays, and its upload is not counted any  *)
(* more.                                                                   *)
Hook_FreeThrows(p) ==
  /\ phase = "on"
  /\ p \in DOMAIN app
  /\ dedup' = UnregisterPtr(dedup, p)
  /\ DeallocateThrows
  /\ retired' = IF kind = "weights" THEN retired \cup ({app[p].data} \ {Garbage})
                                    ELSE retired
  /\ UNCHANGED <<phase, app, kind>>

Existing(dst, d) == Lookup(dedup, Hash(d, app[dst].size))

Registered(dst, d) == Register(dedup, Hash(d, app[dst].size), dst)

(* SharePhysical returns without a word unless both are VMM buffers.       *)
ShareIgnores(dst, src) ==
  /\ ~ (/\ {dst, src} \subseteq Ptrs
        /\ entries_[dst].is_vmm
        /\ entries_[src].is_vmm)
  /\ UNCHANGED allocator

(* Hook_Memcpy from the host, the content is found: no byte is copied.     *)
Hook_MemcpyHit(dst, d) ==
  /\ phase = "on"
  /\ dst \in DOMAIN app
  /\ Existing(dst, d) # NullPtr
  /\ SharePhysical(dst, Existing(dst, d)) \/ ShareIgnores(dst, Existing(dst, d))
  /\ dedup' = Registered(dst, d)
  /\ app' = [app EXCEPT ![dst].data = d]
  /\ UNCHANGED <<phase, retired, kind>>

(* SharePhysical throws: the upload is not registered, and dst has lost    *)
(* what it held.                                                           *)
Hook_MemcpyThrows(dst, d) ==
  /\ phase = "on"
  /\ dst \in DOMAIN app
  /\ Existing(dst, d) # NullPtr
  /\ SharePhysicalThrows(dst, Existing(dst, d))
  /\ UNCHANGED <<dedup, phase, app, retired, kind>>

(* Is there memory at p?                                                   *)
HasMemory(p) == Accessible(gpu, p) \/ p \in DOMAIN gpu.linear

(* The content is new: it is copied, then registered.  (Where there is no  *)
(* memory the copy fails and nothing changes.)                             *)
Hook_MemcpyMiss(dst, d) ==
  /\ phase = "on"
  /\ dst \in DOMAIN app
  /\ Existing(dst, d) = NullPtr
  /\ HasMemory(dst)
  /\ gpu' = Write(gpu, dst, d)
  /\ dedup' = Registered(dst, d)
  /\ app' = [app EXCEPT ![dst].data = d]
  /\ UNCHANGED <<va_held, entries_, live_bytes, alive, phase, retired, kind>>

(* A kernel that Hook_Launch starts, or a copy on the device, which        *)
(* Hook_Memcpy passes on, writes a buffer; so do they, and uploads, while  *)
(* there are no hooks.                                                     *)
Hook_Launch(p, d) ==
  /\ p \in DOMAIN app
  /\ HasMemory(p)
  /\ gpu' = Write(gpu, p, d)
  /\ app' = [app EXCEPT ![p].data = d]
  /\ UNCHANGED <<va_held, entries_, live_bytes, alive, dedup, phase, retired, kind>>

Hook_Memcpy(dst, d) ==
  \/ Hook_MemcpyHit(dst, d)
  \/ Hook_MemcpyThrows(dst, d)
  \/ Hook_MemcpyMiss(dst, d)

-----------------------------------------------------------------------------
(* "Any" application calls what it likes.  The others allocate through the *)
(* hooks and upload to each buffer once, and "loads" frees nothing.        *)
(* "weights", which does what dedup-smoke does, and "reloads" have large   *)
(* buffers only; "weights" does not upload a content again once it has     *)
(* freed one of several buffers with it, or failed to free one with it.    *)
MayUpload(p, d) ==
  /\ kind = "any" => \A h \in DOMAIN dedup : dedup[h].ref_count < MaxRefs
  /\ kind # "any" => app[p].data = Garbage
  /\ kind = "weights" => d \notin retired

MayAllocate(size) ==
  /\ kind \in {"weights", "reloads"} => size >= Granularity
  /\ kind = "any" => Cardinality(va_held) < MaxHeld

InterceptNext ==
  \/ InitializeIntercept
  \/ \E size \in Sizes : MayAllocate(size) /\ Hook_Malloc(size)
  \/ \E p \in DOMAIN app, d \in Data :
       MayUpload(p, d) /\ Hook_Memcpy(p, d)
  \/ \E p \in DOMAIN app : kind # "loads" /\ (Hook_Free(p) \/ Hook_FreeThrows(p))
  \/ /\ kind = "any"
     /\ \/ ShutdownIntercept
        \/ \E size \in Sizes : RealMalloc(size)
        \/ \E p \in DOMAIN app : RealFree(p) \/ \E d \in Data : Hook_Launch(p, d)

InterceptSpec == InterceptInit /\ [][InterceptNext]_interceptVars

-----------------------------------------------------------------------------
(* Properties.                                                             *)

Uploaded == {p \in DOMAIN app : app[p].data # Garbage}

(* Each buffer holds what was uploaded to it, or written since.            *)
UploadsIntact == \A p \in Uploaded : Contents(gpu, p) = app[p].data

(* "Verify: read back all blocks.": for an application that loads weights  *)
(* each buffer holds what was uploaded to it, whether Hook_Memcpy copied   *)
(* it or mapped the memory of another buffer, and whatever has been freed  *)
(* (Hook_Free) and loaded at the same addresses since.                     *)
WeightsIntact == kind = "weights" => UploadsIntact

(* So it is for an application that loads again what it has freed.         *)
ReloadsIntact == kind = "reloads" => UploadsIntact

(* So it is for an application with buffers below the granularity, which   *)
(* frees nothing.                                                          *)
LoadsIntact == kind = "loads" => UploadsIntact

(* Dedup does its work: buffers with the same content have the same        *)
(* physical memory, the first of them having been freed or not.            *)
Deduplicated ==
  kind = "weights" =>
    \A p, q \in Uploaded :
      app[p] = app[q] => gpu.maps[p].handle = gpu.maps[q].handle

(* Whatever an application does, no hook loses memory or addresses except  *)
(* by throwing: buffers that share memory can be freed in any order, at    *)
(* any time, and what a throwing cudaMalloc leaves behind is its own.      *)
HooksOnlyThrowsLose == [][OnlyThrowsLose]_interceptVars

=============================================================================
