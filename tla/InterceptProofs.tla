-------------------------- MODULE InterceptProofs --------------------------
(***************************************************************************)
(* Proofs about Intercept: the hooks lose memory by throwing only, and     *)
(* count it right, whatever the application does, and an application that  *)
(* loads weights finds in each buffer what it uploaded, in memory that     *)
(* equal uploads share.                                                    *)
(***************************************************************************)
EXTENDS Intercept, VmmAllocatorProofs

-----------------------------------------------------------------------------
(* The table.                                                              *)

(* The entries count at least one upload.                                  *)
TableType(t) ==
  \A x \in DOMAIN t : t[x] \in [ptr : {t[x].ptr}, ref_count : Nat \ {0}]

LEMMA LookupFacts ==
  ASSUME NEW t, TableType(t), NEW x
  PROVE  Lookup(t, x) = IF x \in DOMAIN t THEN t[x].ptr ELSE NullPtr
  BY DEF Lookup, TableType

(* r is the table t when an upload x at ptr has been registered.           *)
HasRegistered(t, r, x, ptr) ==
  /\ TableType(r)
  /\ DOMAIN r = DOMAIN t \cup {x}
  /\ \A y \in DOMAIN t : y # x => r[y] = t[y]
  /\ r[x].ptr = IF x \in DOMAIN t THEN t[x].ptr ELSE ptr
  /\ x \notin DOMAIN t => r[x].ref_count = 1

LEMMA RegisterFacts ==
  ASSUME NEW t, TableType(t), NEW x, NEW ptr
  PROVE  HasRegistered(t, Register(t, x, ptr), x, ptr)
<1> DEFINE r == Register(t, x, ptr)
<1>1. CASE x \in DOMAIN t
  <2>1. /\ DOMAIN r = DOMAIN t
        /\ r[x] = [t[x] EXCEPT !.ref_count = @ + 1]
        /\ \A y \in DOMAIN t : y # x => r[y] = t[y]
    BY <1>1 DEF Register
  <2>2. t[x] \in [ptr : {t[x].ptr}, ref_count : Nat \ {0}]
    BY <1>1 DEF TableType
  <2> HIDE DEF r
  <2>3. r[x] \in [ptr : {t[x].ptr}, ref_count : Nat \ {0}] /\ r[x].ptr = t[x].ptr
    BY <2>1, <2>2
  <2>4. TableType(r)
    BY <2>1, <2>3 DEF TableType
  <2>5. HasRegistered(t, r, x, ptr)
    BY <1>1, <2>1, <2>3, <2>4 DEF HasRegistered
  <2> QED BY <2>5 DEF r
<1>2. CASE x \notin DOMAIN t
  <2> DEFINE e == [ptr |-> ptr, ref_count |-> 1]
  <2>1. r = Put(t, x, e)
    BY <1>2 DEF Register
  <2>2. e.ptr = ptr /\ e.ref_count = 1 /\ e \in [ptr : {ptr}, ref_count : Nat \ {0}]
    OBVIOUS
  <2> HIDE DEF r, e
  <2>3. DOMAIN r = DOMAIN t \cup {x} /\ r[x] = e /\ \A y \in DOMAIN t : r[y] = t[y]
    BY <1>2, <2>1 DEF Put
  <2>4. TableType(r)
    BY <2>2, <2>3 DEF TableType
  <2>5. HasRegistered(t, r, x, ptr)
    BY <1>2, <2>2, <2>3, <2>4 DEF HasRegistered
  <2> QED BY <2>5 DEF r
<1> QED BY <1>1, <1>2

(* r is the table t when one has been taken off the entries that have ptr. *)
HasUnregistered(t, r, ptr) ==
  /\ TableType(r)
  /\ DOMAIN r = {y \in DOMAIN t : t[y].ptr # ptr \/ t[y].ref_count # 1}
  /\ \A y \in DOMAIN r : r[y].ptr = t[y].ptr /\ (t[y].ptr # ptr => r[y] = t[y])

LEMMA UnregisterFacts ==
  ASSUME NEW t, TableType(t), NEW ptr
  PROVE  HasUnregistered(t, UnregisterPtr(t, ptr), ptr)
<1> DEFINE c == [y \in DOMAIN t |-> IF t[y].ptr = ptr
                                      THEN [t[y] EXCEPT !.ref_count = @ - 1]
                                      ELSE t[y]]
           live == {y \in DOMAIN t : c[y].ref_count > 0}
           r == [y \in live |-> c[y]]
<1>1. UnregisterPtr(t, ptr) = r
  BY DEF UnregisterPtr, RestrictDomain, Restrict
<1>2. ASSUME NEW y \in DOMAIN t
      PROVE  /\ c[y].ptr = t[y].ptr
             /\ c[y].ref_count > 0 <=> (t[y].ptr # ptr \/ t[y].ref_count # 1)
             /\ c[y].ref_count > 0 => c[y] \in [ptr : {c[y].ptr}, ref_count : Nat \ {0}]
             /\ t[y].ptr # ptr => c[y] = t[y]
  <2>1. t[y] \in [ptr : {t[y].ptr}, ref_count : Nat \ {0}]
    BY DEF TableType
  <2>2. c[y] = IF t[y].ptr = ptr THEN [t[y] EXCEPT !.ref_count = @ - 1] ELSE t[y]
    OBVIOUS
  <2> HIDE DEF c
  <2> QED BY <2>1, <2>2
<1>3. DOMAIN r = live /\ \A y \in live : r[y] = c[y]
  OBVIOUS
<1>4. live = {y \in DOMAIN t : t[y].ptr # ptr \/ t[y].ref_count # 1}
  BY <1>2
<1>5. \A y \in live : y \in DOMAIN t /\ c[y].ref_count > 0
  OBVIOUS
<1> HIDE DEF c, live, r
<1>6. TableType(r)
  BY <1>2, <1>3, <1>5 DEF TableType
<1>7. HasUnregistered(t, r, ptr)
  BY <1>2, <1>3, <1>4, <1>5, <1>6 DEF HasUnregistered
<1> QED BY <1>1, <1>7

-----------------------------------------------------------------------------
(* The allocator, whatever the application does.                           *)

(* Steps that map, unmap, create and release nothing lose nothing.         *)
LEMMA SameMemoryLoses ==
  ASSUME gpu'.maps = gpu.maps, DOMAIN gpu'.mem = DOMAIN gpu.mem,
         \A h \in DOMAIN gpu.mem : gpu'.mem[h].open = gpu.mem[h].open,
         UNCHANGED <<va_held, entries_>>
  PROVE  OnlyThrowsLose
<1>1. LosesNothing
  BY DEF LosesNothing, Lost, LostRanges, Ptrs
<1> QED BY <1>1, LosesNothingFact

(* The inductive invariant for an application of any kind: after the hooks *)
(* have been removed buffers are freed that the allocator has entries for, *)
(* but no memory is mapped or released any more.                           *)
LeakInv ==
  /\ phase \in {"before", "on", "off"}
  /\ WellFormed(gpu)
  /\ phase # "off" => AInv
  /\ phase = "before" => Ptrs = {}

LEMMA InitLeakInv == InterceptInit => LeakInv
<1> SUFFICES ASSUME InterceptInit PROVE LeakInv
  OBVIOUS
<1>1. AInv /\ phase = "before"
  BY InitAInv DEF InterceptInit
<1>2. Ptrs = {} /\ WellFormed(gpu)
  BY <1>1 DEF InterceptInit, Init, Ptrs, AInv
<1> QED BY <1>1, <1>2 DEF LeakInv

(* A step of the hooks.                                                    *)
LEMMA OnLeakInv ==
  ASSUME AInv', phase = "on", phase' = phase
  PROVE  LeakInv'
  BY DEF LeakInv, AInv

LEMMA HookMallocLeak ==
  ASSUME LeakInv, NEW size \in Sizes, Hook_Malloc(size)
  PROVE  LeakInv' /\ OnlyThrowsLose
<1>1. phase = "on" /\ phase' = phase /\ AInv
  BY DEF Hook_Malloc, LeakInv
<1>2. ASSUME NEW va, NEW h, AllocateVmm(size, CudaTag, va, h)
      PROVE  AInv' /\ OnlyThrowsLose
  BY <1>1, <1>2, AllocateVmmAInv, AllocateVmmLoses, CudaTagAssumption
<1>3. ASSUME NEW ptr \in Linears, AllocateFallback(size, ptr)
      PROVE  AInv' /\ OnlyThrowsLose
  BY <1>1, <1>3, AllocateFallbackAInv, AllocateFallbackLoses
<1>4. ASSUME NEW va, AllocateVmmThrows(size, va)
      PROVE  AInv' /\ OnlyThrowsLose
  BY <1>1, <1>4, AllocateVmmThrowsAInv, AllocateVmmThrowsLoses
<1> QED BY <1>1, <1>2, <1>3, <1>4, OnLeakInv DEF Hook_Malloc

(* The allocator does nothing.                                             *)
LEMMA IdleLeak ==
  ASSUME LeakInv, UNCHANGED allocator, phase = "on", phase' = phase
  PROVE  LeakInv' /\ OnlyThrowsLose
<1>1. /\ UNCHANGED <<gpu, va_held, entries_, live_bytes>> /\ AInv
      /\ alive' \in BOOLEAN
  BY DEF allocator, LeakInv, AInv, TypeOK
<1> QED BY <1>1, SameAInv, SameLoses, OnLeakInv

LEMMA HookFreeLeak ==
  ASSUME LeakInv, NEW p \in DOMAIN app, Hook_Free(p) \/ Hook_FreeThrows(p)
  PROVE  LeakInv' /\ OnlyThrowsLose
<1>1. phase = "on" /\ phase' = phase /\ AInv
  BY DEF Hook_Free, Hook_FreeThrows, LeakInv
<1>2. CASE Deallocate(p)
  <2>1. p \in Ptrs
    BY <1>2 DEF Deallocate
  <2> QED BY <1>1, <1>2, <2>1, DeallocateAInv, DeallocateLoses, OnLeakInv
<1>3. CASE DeallocateIgnores(p) \/ DeallocateThrows
  BY <1>1, <1>3, IdleLeak DEF DeallocateIgnores, DeallocateThrows, allocator, vars
<1> QED BY <1>2, <1>3 DEF Hook_Free, Hook_FreeThrows

LEMMA HookMemcpyLeak ==
  ASSUME LeakInv, NEW dst \in DOMAIN app, NEW d, Hook_Memcpy(dst, d)
  PROVE  LeakInv' /\ OnlyThrowsLose
<1>1. phase = "on" /\ phase' = phase /\ AInv
  BY DEF Hook_Memcpy, Hook_MemcpyHit, Hook_MemcpyThrows, Hook_MemcpyMiss, LeakInv
<1> DEFINE src == Existing(dst, d)
<1>2. CASE SharePhysical(dst, src)
  <2>1. dst \in Ptrs /\ src \in Ptrs
    BY <1>2 DEF SharePhysical, VmmPtrs
  <2> QED BY <1>1, <1>2, <2>1, SharePhysicalAInv, SharePhysicalLoses, OnLeakInv
<1>3. CASE ShareIgnores(dst, src)
  BY <1>1, <1>3, IdleLeak DEF ShareIgnores
<1>4. CASE SharePhysicalThrows(dst, src)
  <2>1. dst \in Ptrs /\ src \in Ptrs
    BY <1>4 DEF SharePhysicalThrows, VmmPtrs
  <2> QED BY <1>1, <1>4, <2>1, SharePhysicalThrowsAInv, SharePhysicalLoses, OnLeakInv
<1>5. CASE Hook_MemcpyMiss(dst, d)
  <2>1. gpu' = Write(gpu, dst, d) /\ UNCHANGED <<va_held, entries_, live_bytes, alive>>
    BY <1>5 DEF Hook_MemcpyMiss
  <2> QED BY <1>1, <2>1, WriteAInv, WriteLoses, OnLeakInv
<1> QED BY <1>2, <1>3, <1>4, <1>5 DEF Hook_Memcpy, Hook_MemcpyHit, Hook_MemcpyThrows

LEMMA HookLaunchLeak ==
  ASSUME LeakInv, NEW p \in DOMAIN app, NEW d, Hook_Launch(p, d)
  PROVE  LeakInv' /\ OnlyThrowsLose
<1>1. /\ gpu' = Write(gpu, p, d) /\ WellFormed(gpu)
      /\ UNCHANGED <<va_held, entries_, live_bytes, alive, phase>>
  BY DEF Hook_Launch, LeakInv
<1>2. /\ WellFormed(gpu') /\ gpu'.maps = gpu.maps /\ DOMAIN gpu'.mem = DOMAIN gpu.mem
      /\ \A h \in DOMAIN gpu.mem : gpu'.mem[h].open = gpu.mem[h].open
  BY <1>1, WriteFacts
<1>3. phase' # "off" => AInv'
  BY <1>1, WriteAInv DEF LeakInv
<1>4. LeakInv'
  BY <1>1, <1>2, <1>3 DEF LeakInv, Ptrs
<1> QED BY <1>1, <1>2, <1>4, SameMemoryLoses

(* The CUDA runtime has memory of its own.                                 *)
LEMMA RealLeak ==
  ASSUME LeakInv, \/ \E size \in Sizes : RealMalloc(size)
                  \/ \E p \in DOMAIN app : RealFree(p)
  PROVE  LeakInv' /\ OnlyThrowsLose
<1>1. /\ phase # "on" /\ phase' = phase
      /\ UNCHANGED <<va_held, entries_, live_bytes, alive>>
  BY DEF RealMalloc, RealFree
<1>2. WellFormed(gpu') /\ gpu'.mem = gpu.mem /\ gpu'.maps = gpu.maps
  <2>1. CASE \E size \in Sizes : RealMalloc(size)
    <3>1. PICK size \in Sizes : \E ptr : gpu' = CuMemAlloc(gpu, ptr, size)
      BY <2>1 DEF RealMalloc
    <3>2. PICK ptr : gpu' = CuMemAlloc(gpu, ptr, size)
      BY <3>1
    <3>3. WellFormed(gpu) /\ size \in Nat
      BY SizesAssumption DEF LeakInv
    <3> QED BY <3>2, <3>3, LinearFacts
  <2>2. CASE \E p \in DOMAIN app : RealFree(p)
    <3>1. PICK p : gpu' = CuMemFree(gpu, p)
      BY <2>2 DEF RealFree
    <3>2. WellFormed(gpu) /\ 0 \in Nat
      BY DEF LeakInv
    <3>3. LET r == CuMemFree(gpu, p)
          IN WellFormed(r) /\ r.mem = gpu.mem /\ r.maps = gpu.maps
      BY <3>2, LinearFacts, Zenon
    <3> QED BY <3>1, <3>3
  <2> QED BY <2>1, <2>2
<1>3. phase' # "off" => AInv'
  <2> SUFFICES ASSUME phase' # "off" PROVE AInv'
    OBVIOUS
  <2>1. AInv /\ Ptrs = {}
    BY <1>1 DEF LeakInv
  <2>2. TypeOK /\ RangesInv /\ EntriesInv /\ SizesInv
    BY <2>1 DEF AInv
  <2>3. TypeOK'
    BY <1>1, <1>2, <2>2 DEF TypeOK, Ptrs
  <2>4. RangesInv' /\ EntriesInv' /\ SizesInv'
    BY <1>1, <1>2, <2>1, <2>2 DEF RangesInv, EntriesInv, SizesInv, Ptrs
  <2> QED BY <1>2, <2>3, <2>4 DEF AInv
<1>4. LeakInv'
  BY <1>1, <1>2, <1>3 DEF LeakInv, Ptrs
<1> QED BY <1>1, <1>2, <1>4, SameMemoryLoses

LEMMA NextLeakInv ==
  ASSUME LeakInv, [InterceptNext]_interceptVars
  PROVE  LeakInv' /\ OnlyThrowsLose
<1>1. ASSUME UNCHANGED allocator, \/ phase' = phase
                                  \/ phase = "before" /\ phase' = "on"
                                  \/ phase' = "off"
      PROVE  LeakInv' /\ OnlyThrowsLose
  <2>1. UNCHANGED <<gpu, va_held, entries_, live_bytes, alive>>
    BY <1>1 DEF allocator
  <2>2. AInv => AInv'
    BY <2>1, SameAInv DEF AInv, TypeOK
  <2>3. LeakInv'
    BY <1>1, <2>1, <2>2 DEF LeakInv, Ptrs
  <2> QED BY <2>1, <2>3, SameLoses
<1>2. CASE InitializeIntercept
  BY <1>1, <1>2 DEF InitializeIntercept
<1>3. CASE ShutdownIntercept
  BY <1>1, <1>3 DEF ShutdownIntercept
<1>4. CASE UNCHANGED interceptVars
  BY <1>1, <1>4 DEF interceptVars
<1> QED BY <1>2, <1>3, <1>4, HookMallocLeak, HookFreeLeak, HookMemcpyLeak, HookLaunchLeak,
           RealLeak DEF InterceptNext

-----------------------------------------------------------------------------
(* An application that loads weights.                                      *)

(* Every buffer is a VMM buffer, and cuMemAlloc is never called.           *)
BuffersInv ==
  /\ Ptrs = DOMAIN app /\ VmmPtrs = DOMAIN app
  /\ \A p \in DOMAIN app :
       /\ app[p] \in [size : Sizes, data : Data \cup {Garbage}]
       /\ entries_[p].size = app[p].size

Memory(p) == entries_[p].physical_handle

(* The buffers with memory that can be read and written.  A buffer whose   *)
(* share has been refused is none of them: it has an entry, and a handle   *)
(* that may be of no memory any more or of another buffer's.               *)
Usable == {p \in DOMAIN app : Accessible(gpu, p)}

(* The memory holds what was uploaded.  (Its handle need not be open: a    *)
(* buffer that shared it may have released it, or one without memory that  *)
(* had the same handle once.)                                              *)
HoldsInv ==
  /\ \A p \in Usable : gpu.maps[p].handle = Memory(p)
  /\ Uploaded \subseteq Usable
  /\ \A p \in Uploaded : gpu.mem[Memory(p)].data = app[p].data

Same(p, q) == app[p].size = app[q].size /\ app[p].data = app[q].data

(* Buffers share memory if and only if the same has been uploaded to them. *)
SharedInv ==
  /\ \A p, q \in Usable :
       p # q /\ Memory(p) = Memory(q) => Same(p, q) /\ app[p].data # Garbage
  /\ \A p, q \in Uploaded : Same(p, q) => Memory(p) = Memory(q)

Has(p, d, s) == p \in DOMAIN app /\ app[p].data = d /\ app[p].size = s

(* The entry of the table for d names a buffer with d, and it is not       *)
(* erased with that buffer only if there is another one.                   *)
Serves(d, s) ==
  /\ Has(dedup[Hash(d, s)].ptr, d, s)
  /\ \/ dedup[Hash(d, s)].ref_count = 1
     \/ \E p, q : p # q /\ Has(p, d, s) /\ Has(q, d, s)

(* Until a buffer with a content has been freed while another one had it,  *)
(* the table knows the content while a buffer has it, and only then.       *)
TableInv ==
  /\ TableType(dedup)
  /\ \A p \in Uploaded :
       app[p].data \notin retired => Hash(app[p].data, app[p].size) \in DOMAIN dedup
  /\ \A d \in Data \ retired, s \in Sizes : Hash(d, s) \in DOMAIN dedup => Serves(d, s)

(* The inductive invariant.                                                *)
WInv ==
  /\ phase # "off" /\ retired \subseteq Data
  /\ AInv /\ LinearsInv
  /\ BuffersInv /\ HoldsInv /\ SharedInv /\ TableInv

LEMMA MemoryThere ==
  ASSUME AInv, HoldsInv, NEW p \in Usable
  PROVE  /\ p \in DOMAIN app /\ p \in DOMAIN gpu.maps /\ gpu.maps[p].access
         /\ gpu.maps[p].handle = Memory(p)
         /\ Memory(p) \in DOMAIN gpu.mem
         /\ Contents(gpu, p) = gpu.mem[Memory(p)].data
<1>1. p \in DOMAIN app /\ p \in DOMAIN gpu.maps /\ gpu.maps[p].access
  BY DEF Usable, Accessible
<1>2. gpu.maps[p].handle = Memory(p)
  BY DEF HoldsInv
<1>3. Memory(p) \in DOMAIN gpu.mem
  BY <1>1, <1>2 DEF AInv, WellFormed
<1>4. Contents(gpu, p) = gpu.mem[Memory(p)].data
  BY <1>1, <1>2 DEF Contents, Accessible
<1> QED BY <1>1, <1>2, <1>3, <1>4

LEMMA InitWInv == InterceptInit => WInv
<1> SUFFICES ASSUME InterceptInit PROVE WInv
  OBVIOUS
<1>1. AInv /\ LinearsInv
  BY InitAInv, InitLinears DEF InterceptInit
<1>2. DOMAIN app = {} /\ Ptrs = {} /\ DOMAIN dedup = {}
  BY DEF InterceptInit, Init, Ptrs, EmptyTable
<1>3. VmmPtrs = {} /\ Uploaded = {} /\ Usable = {}
  BY <1>2 DEF VmmPtrs, Uploaded, Usable
<1> QED BY <1>1, <1>2, <1>3 DEF InterceptInit, WInv, BuffersInv, HoldsInv, SharedInv,
           TableInv, TableType

(* The table depends on what the application has done, not on memory.      *)
LEMMA SameTable ==
  ASSUME TableInv, UNCHANGED <<dedup, app, retired>>
  PROVE  TableInv'
  BY DEF TableInv, Uploaded, Serves, Has

(* A step that adds memory, and takes none away, changes no buffer.        *)
LEMMA GrownKeeps ==
  ASSUME AInv, HoldsInv, SharedInv, UNCHANGED <<entries_, app>>,
         \A x \in DOMAIN gpu.maps : x \in DOMAIN gpu'.maps /\ gpu'.maps[x] = gpu.maps[x],
         \A p \in DOMAIN app : p \in DOMAIN gpu'.maps => p \in DOMAIN gpu.maps,
         \A h \in DOMAIN gpu.mem : gpu'.mem[h] = gpu.mem[h]
  PROVE  HoldsInv' /\ SharedInv'
<1>1. Usable' = Usable /\ Uploaded' = Uploaded
  BY DEF Usable, Uploaded, Accessible
<1>2. \A p \in Usable : /\ Memory(p)' = Memory(p) /\ gpu'.maps[p] = gpu.maps[p]
                        /\ gpu'.mem[Memory(p)] = gpu.mem[Memory(p)]
  BY MemoryThere DEF Memory
<1>3. HoldsInv'
  BY <1>1, <1>2 DEF HoldsInv
<1>4. SharedInv'
  BY <1>1, <1>2 DEF SharedInv, HoldsInv, Same
<1> QED BY <1>3, <1>4

-----------------------------------------------------------------------------
(* Hook_Malloc.                                                            *)

(* There is a new buffer at va, with new memory h.                         *)
HasNewBuffer(va, h, size) ==
  /\ va \notin DOMAIN app /\ DOMAIN app' = DOMAIN app \cup {va}
  /\ app'[va].size = size /\ app'[va].data = Garbage
  /\ app'[va] \in [size : Sizes, data : Data \cup {Garbage}]
  /\ \A p \in DOMAIN app : app'[p] = app[p]
  /\ Memory(va)' = h /\ \A p \in DOMAIN app : Memory(p)' = Memory(p)
  /\ Usable' = Usable \cup {va} /\ gpu'.maps[va].handle = h
  /\ \A p \in Usable : /\ Memory(p) # h /\ gpu'.mem[Memory(p)] = gpu.mem[Memory(p)]
                        /\ gpu'.maps[p] = gpu.maps[p]
  /\ UNCHANGED <<dedup, retired>>

LEMMA NewBufferKeeps ==
  ASSUME WInv, NEW va, NEW h, NEW size, HasNewBuffer(va, h, size)
  PROVE  HoldsInv' /\ SharedInv' /\ TableInv'
<1>1. /\ Uploaded' = Uploaded /\ Uploaded \subseteq DOMAIN app
      /\ Usable \subseteq DOMAIN app /\ va \notin Uploaded /\ va \notin Usable
  BY DEF Uploaded, Usable, HasNewBuffer
<1>2. HoldsInv'
  <2>1. \A p \in Usable' : gpu'.maps[p].handle = Memory(p)'
    BY <1>1 DEF WInv, HoldsInv, HasNewBuffer
  <2>2. Uploaded' \subseteq Usable'
    BY <1>1 DEF WInv, HoldsInv, HasNewBuffer
  <2>3. \A p \in Uploaded' : gpu'.mem[Memory(p)'].data = app'[p].data
    BY <1>1 DEF WInv, HoldsInv, HasNewBuffer
  <2> QED BY <2>1, <2>2, <2>3 DEF HoldsInv
<1>3. \A p, q \in DOMAIN app : Same(p, q)' <=> Same(p, q)
  BY DEF Same, HasNewBuffer
<1>4. SharedInv'
  <2>1. ASSUME NEW p \in Usable', NEW q \in Usable', p # q, Memory(p)' = Memory(q)'
        PROVE  Same(p, q)' /\ app'[p].data # Garbage
    <3>1. p \in Usable /\ q \in Usable
      BY <1>1, <2>1 DEF HasNewBuffer
    <3>2. p \in DOMAIN app /\ q \in DOMAIN app /\ Memory(p) = Memory(q)
      BY <1>1, <2>1, <3>1 DEF HasNewBuffer
    <3>3. Same(p, q) /\ app[p].data # Garbage
      BY <2>1, <3>1, <3>2 DEF WInv, SharedInv
    <3> QED BY <1>3, <3>2, <3>3 DEF HasNewBuffer
  <2>2. \A p, q \in Uploaded' : Same(p, q)' => Memory(p)' = Memory(q)'
    BY <1>1, <1>3 DEF WInv, SharedInv, HasNewBuffer
  <2> QED BY <2>1, <2>2 DEF SharedInv
<1>5. ASSUME NEW d \in Data, NEW s, Serves(d, s)
      PROVE  Serves(d, s)'
  <2>1. \A p : Has(p, d, s) => Has(p, d, s)'
    BY DEF Has, HasNewBuffer
  <2> QED BY <1>5, <2>1 DEF Serves, HasNewBuffer
<1>6. TableInv'
  <2>1. TableType(dedup')
    BY DEF WInv, TableInv, HasNewBuffer
  <2> QED BY <1>1, <1>5, <2>1 DEF WInv, TableInv, HasNewBuffer
<1> QED BY <1>2, <1>4, <1>6

LEMMA HookMallocWInv ==
  ASSUME WInv, NEW size \in Sizes, size >= Granularity, Hook_Malloc(size)
  PROVE  WInv'
<1>1. /\ AInv /\ LinearsInv /\ BuffersInv /\ HoldsInv /\ SharedInv /\ TableInv
      /\ phase' = phase /\ retired' = retired /\ dedup' = dedup
  BY DEF WInv, Hook_Malloc
<1>2. ASSUME NEW va \in Vas, NEW h, AllocateVmm(size, CudaTag, va, h),
             app' = Put(app, va, Fresh(size))
      PROVE  WInv'
  <2>1. HasAllocated(size, CudaTag, va, h)
    BY <1>1, <1>2, AllocateVmmFacts
  <2>2. AInv' /\ LinearsInv'
    BY <1>1, <1>2, AllocateVmmAInv, AllocateVmmLinears, CudaTagAssumption
  <2>3. /\ va \notin DOMAIN app /\ DOMAIN app' = DOMAIN app \cup {va}
        /\ app'[va] = Fresh(size) /\ \A p \in DOMAIN app : app'[p] = app[p]
    BY <1>1, <1>2, <2>1 DEF HasAllocated, BuffersInv, Put
  <2>4. /\ app'[va].size = size /\ app'[va].data = Garbage
        /\ app'[va] \in [size : Sizes, data : Data \cup {Garbage}]
    BY <2>3 DEF Fresh
  <2>5. /\ Ptrs' = Ptrs \cup {va} /\ entries_'[va].is_vmm /\ entries_'[va].size = size
        /\ entries_'[va].physical_handle = h
        /\ \A p \in Ptrs : entries_'[p] = entries_[p]
    BY <2>1 DEF HasAllocated, Ptrs
  <2>6. BuffersInv'
    <3>1. VmmPtrs' = VmmPtrs \cup {va}
      BY <2>5 DEF VmmPtrs
    <3> QED BY <1>1, <2>3, <2>4, <2>5, <3>1 DEF BuffersInv
  <2>7. HasNewBuffer(va, h, size)
    <3>1. \A p \in Usable : p \in DOMAIN gpu.maps /\ Memory(p) \in DOMAIN gpu.mem
      BY <1>1, MemoryThere
    <3>2. \A p \in DOMAIN app : Memory(p)' = Memory(p)
      BY <1>1, <2>5 DEF BuffersInv, Memory
    <3>3. Memory(va)' = h
      BY <2>5 DEF Memory
    <3>4. Usable' = Usable \cup {va}
      BY <2>1, <2>3 DEF HasAllocated, Usable, Accessible
    <3> QED BY <1>1, <2>1, <2>3, <2>4, <3>1, <3>2, <3>3, <3>4 DEF HasAllocated, HasNewBuffer
  <2> QED BY <1>1, <2>2, <2>6, <2>7, NewBufferKeeps DEF WInv
<1>3. ASSUME NEW ptr \in Linears, AllocateFallback(size, ptr)
      PROVE  FALSE
  BY <1>3, SizesAssumption, GranularityAssumption DEF AllocateFallback
<1>4. ASSUME NEW va, AllocateVmmThrows(size, va), app' = app
      PROVE  WInv'
  <2>1. AInv' /\ LinearsInv'
    BY <1>1, <1>4, AllocateVmmThrowsAInv, AllocateVmmThrowsLinears
  <2>2. /\ va \in Vas \ va_held /\ entries_' = entries_
        /\ gpu' = gpu \/ \E h : HasGrown(va, AllocSize(size), h)
    BY <1>1, <1>4, AllocateVmmThrowsFacts
  <2>3. va \notin DOMAIN app
    BY <1>1, <2>2 DEF AInv, RangesInv, BuffersInv
  <2>4. HoldsInv' /\ SharedInv'
    <3>1. CASE gpu' = gpu
      BY <1>1, <1>4, <2>2, <3>1, GrownKeeps
    <3>2. CASE \E h : HasGrown(va, AllocSize(size), h)
      <4>1. PICK h : HasGrown(va, AllocSize(size), h)
        BY <3>2
      <4>2. /\ \A x \in DOMAIN gpu.maps : x \in DOMAIN gpu'.maps /\ gpu'.maps[x] = gpu.maps[x]
            /\ \A p \in DOMAIN app : p \in DOMAIN gpu'.maps => p \in DOMAIN gpu.maps
            /\ \A x \in DOMAIN gpu.mem : gpu'.mem[x] = gpu.mem[x]
        BY <2>3, <4>1 DEF HasGrown
      <4> QED BY <1>1, <1>4, <2>2, <4>2, GrownKeeps
    <3> QED BY <2>2, <3>1, <3>2
  <2>5. BuffersInv'
    BY <1>1, <1>4, <2>2 DEF BuffersInv, VmmPtrs, Ptrs
  <2>6. TableInv'
    BY <1>1, <1>4, SameTable
  <2> QED BY <1>1, <2>1, <2>4, <2>5, <2>6 DEF WInv
<1> QED BY <1>2, <1>3, <1>4 DEF Hook_Malloc

-----------------------------------------------------------------------------
(* Hook_Free.                                                              *)

(* p has lost its memory, if it had any; no other buffer has.              *)
HasLost(p) ==
  /\ \E u : HasUnbacked(u, p) /\ gpu'.mem = u.mem
  /\ \A q \in DOMAIN gpu.maps \ {p} : q \in DOMAIN gpu'.maps /\ gpu'.maps[q] = gpu.maps[q]
  /\ Usable' = Usable \ {p} /\ Uploaded' \subseteq Uploaded \ {p}
  /\ \A q \in DOMAIN app \ {p} : app'[q] = app[q] /\ Memory(q)' = Memory(q)

LEMMA LostKeepsMemory ==
  ASSUME AInv, HoldsInv, SharedInv, AInv', NEW p, HasLost(p)
  PROVE  HoldsInv' /\ SharedInv'
<1>1. PICK u : HasUnbacked(u, p) /\ gpu'.mem = u.mem
  BY DEF HasLost
<1>2. ASSUME NEW q \in Usable'
      PROVE  /\ q \in Usable /\ q # p /\ q \in DOMAIN app
             /\ app'[q] = app[q] /\ Memory(q)' = Memory(q)
             /\ gpu'.maps[q].handle = Memory(q)
             /\ gpu'.mem[Memory(q)].data = gpu.mem[Memory(q)].data
  <2>1. q \in Usable /\ q # p
    BY DEF HasLost
  <2>2. q \in DOMAIN app /\ q \in DOMAIN gpu.maps /\ gpu.maps[q].handle = Memory(q)
    BY <2>1, MemoryThere
  <2>3. q \in DOMAIN gpu'.maps /\ gpu'.maps[q].handle = Memory(q)
    BY <2>1, <2>2 DEF HasLost
  <2>4. Memory(q) \in DOMAIN u.mem
    BY <1>1, <2>3 DEF AInv, WellFormed
  <2>5. gpu'.mem[Memory(q)].data = gpu.mem[Memory(q)].data
    BY <1>1, <2>4 DEF HasUnbacked, Kept
  <2> QED BY <2>1, <2>2, <2>3, <2>5 DEF HasLost
<1>3. \A q \in Uploaded' : q \in Uploaded /\ q \in Usable'
  BY DEF HasLost, HoldsInv
<1>4. HoldsInv'
  BY <1>2, <1>3 DEF HoldsInv
<1>5. SharedInv'
  <2>1. \A q, r \in Usable' : Same(q, r)' <=> Same(q, r)
    BY <1>2 DEF Same
  <2> QED BY <1>2, <1>3, <2>1 DEF SharedInv
<1> QED BY <1>4, <1>5

(* p's upload is not counted any more; p is gone or what it holds retired, *)
(* and what others have in common with it is.                              *)
HasForgotten(p) ==
  /\ DOMAIN app \ {p} \subseteq DOMAIN app' /\ DOMAIN app' \subseteq DOMAIN app
  /\ \A q \in DOMAIN app' : app'[q] = app[q]
  /\ retired \subseteq retired' /\ retired' \subseteq Data
  /\ \A q \in DOMAIN app' :
       app[q].data = app[p].data /\ app[q].data # Garbage => app[q].data \in retired'
  /\ HasUnregistered(dedup, dedup', p)

LEMMA ForgottenKeepsTable ==
  ASSUME WInv, NEW p \in DOMAIN app, HasForgotten(p)
  PROVE  TableInv'
<1>1. TableInv
  BY DEF WInv
<1>2. TableType(dedup')
  BY DEF HasForgotten, HasUnregistered
<1>3. ASSUME NEW d \in Data, d \notin retired', NEW q, NEW s, q # p, Has(q, d, s)
      PROVE  app[p].data # d
  BY <1>3, GarbageAssumption DEF HasForgotten, Has
<1>4. \A q, d, s : q # p /\ Has(q, d, s) => Has(q, d, s)'
  BY DEF Has, HasForgotten
<1>5. ASSUME NEW q \in Uploaded', app'[q].data \notin retired'
      PROVE  Hash(app'[q].data, app'[q].size) \in DOMAIN dedup'
  <2> DEFINE d == app[q].data
             s == app[q].size
             x == Hash(d, s)
  <2>1. /\ q \in Uploaded /\ q \in DOMAIN app' /\ app'[q] = app[q]
        /\ d \notin retired /\ d \notin retired'
    BY <1>5 DEF Uploaded, HasForgotten
  <2>2. q \in DOMAIN app /\ d # Garbage
    BY <2>1 DEF Uploaded
  <2>3. d \in Data /\ s \in Sizes
    BY <2>2 DEF WInv, BuffersInv
  <2>4. x \in DOMAIN dedup /\ Serves(d, s) /\ Has(q, d, s)
    BY <1>1, <2>1, <2>2, <2>3 DEF TableInv, Has
  <2>5. app[p].data # d
    BY <2>1, <2>2 DEF HasForgotten
  <2>6. dedup[x].ptr # p
    BY <2>4, <2>5 DEF Serves, Has
  <2>7. x \in DOMAIN dedup'
    BY <2>4, <2>6 DEF HasForgotten, HasUnregistered
  <2> QED BY <2>1, <2>7
<1>6. ASSUME NEW d \in Data \ retired', NEW s \in Sizes, Hash(d, s) \in DOMAIN dedup'
      PROVE  Serves(d, s)'
  <2> DEFINE x == Hash(d, s)
  <2>1. /\ x \in DOMAIN dedup
        /\ dedup[x].ptr # p \/ dedup[x].ref_count # 1
        /\ dedup[x].ptr # p => dedup'[x] = dedup[x]
    BY <1>6 DEF HasForgotten, HasUnregistered
  <2>2. Serves(d, s)
    BY <1>1, <2>1 DEF TableInv, HasForgotten
  <2>3. dedup[x].ptr # p
    <3> SUFFICES ASSUME dedup[x].ptr = p PROVE FALSE
      OBVIOUS
    <3>1. app[p].data = d /\ \E q : q # p /\ Has(q, d, s)
      BY <2>1, <2>2 DEF Serves, Has
    <3> QED BY <1>3, <3>1
  <2>4. dedup'[x] = dedup[x] /\ Has(dedup[x].ptr, d, s)'
    BY <1>4, <2>1, <2>2, <2>3 DEF Serves
  <2>5. CASE dedup[x].ref_count = 1
    BY <2>4, <2>5 DEF Serves
  <2>6. CASE \E q, r : q # r /\ Has(q, d, s) /\ Has(r, d, s)
    <3>1. PICK q, r : q # r /\ Has(q, d, s) /\ Has(r, d, s)
      BY <2>6
    <3>2. q # p /\ r # p
      BY <1>3, <3>1 DEF Has
    <3>3. Has(q, d, s)' /\ Has(r, d, s)'
      BY <1>4, <3>1, <3>2
    <3> QED BY <2>4, <3>1, <3>3 DEF Serves
  <2> QED BY <2>2, <2>5, <2>6 DEF Serves
<1> QED BY <1>2, <1>5, <1>6 DEF TableInv

LEMMA HookFreeWInv ==
  ASSUME WInv, kind = "weights", NEW p \in DOMAIN app, Hook_Free(p)
  PROVE  WInv'
<1>1. /\ AInv /\ LinearsInv /\ BuffersInv /\ HoldsInv /\ SharedInv
      /\ phase' = phase /\ retired \subseteq Data /\ TableType(dedup)
  BY DEF WInv, Hook_Free, TableInv
<1>2. Deallocate(p) /\ p \in Ptrs /\ p \in VmmPtrs
  BY <1>1 DEF Hook_Free, DeallocateIgnores, BuffersInv
<1>3. /\ DOMAIN app' = DOMAIN app \ {p} /\ \A q \in DOMAIN app' : app'[q] = app[q]
      /\ dedup' = UnregisterPtr(dedup, p)
      /\ retired' = retired \cup Common(p)
  BY DEF Hook_Free, RestrictDomain, Restrict
<1>4. AInv' /\ LinearsInv'
  BY <1>1, <1>2, DeallocateAInv, DeallocateLinears
<1>5. /\ Ptrs' = Ptrs \ {p} /\ \A q \in Ptrs' : entries_'[q] = entries_[q]
      /\ gpu' = Unbacked(p)
  BY <1>2 DEF Deallocate, DeallocateVmm, DeallocateFallback, VmmPtrs,
              RestrictDomain, Restrict, Ptrs
<1>6. HasUnbacked(gpu', p)
  BY <1>1, <1>2, <1>5, UnbackedFacts
<1>7. BuffersInv'
  BY <1>1, <1>3, <1>5 DEF BuffersInv, VmmPtrs
<1>8. HasLost(p)
  <2>1. Usable' = Usable \ {p}
    BY <1>3, <1>6 DEF HasUnbacked, Usable, Accessible
  <2>2. Uploaded' \subseteq Uploaded \ {p}
    BY <1>3 DEF Uploaded
  <2>3. \A q \in DOMAIN app \ {p} : app'[q] = app[q] /\ Memory(q)' = Memory(q)
    BY <1>1, <1>3, <1>5 DEF BuffersInv, Memory
  <2> QED BY <1>6, <2>1, <2>2, <2>3 DEF HasUnbacked, HasLost
<1>9. HasForgotten(p)
  <2>1. retired' \subseteq Data
    BY <1>1, <1>3 DEF Common, BuffersInv
  <2>2. \A q \in DOMAIN app' :
          app[q].data = app[p].data /\ app[q].data # Garbage => app[q].data \in retired'
    BY <1>3 DEF Common
  <2> QED BY <1>1, <1>3, <2>1, <2>2, UnregisterFacts DEF HasForgotten
<1>10. HoldsInv' /\ SharedInv'
  BY <1>1, <1>4, <1>8, LostKeepsMemory
<1>11. TableInv'
  BY <1>9, ForgottenKeepsTable
<1> QED BY <1>1, <1>4, <1>7, <1>9, <1>10, <1>11 DEF WInv, HasForgotten

LEMMA HookFreeThrowsWInv ==
  ASSUME WInv, kind = "weights", NEW p \in DOMAIN app, Hook_FreeThrows(p)
  PROVE  WInv'
<1>1. /\ AInv /\ LinearsInv /\ BuffersInv /\ HoldsInv /\ SharedInv
      /\ phase' = phase /\ retired \subseteq Data /\ TableType(dedup)
  BY DEF WInv, Hook_FreeThrows, TableInv
<1>2. /\ UNCHANGED <<gpu, va_held, entries_, live_bytes, alive, app>>
      /\ dedup' = UnregisterPtr(dedup, p)
      /\ retired' = retired \cup ({app[p].data} \ {Garbage})
  BY DEF Hook_FreeThrows, DeallocateThrows, vars
<1>3. AInv' /\ LinearsInv'
  BY <1>1, <1>2, SameAInv DEF LinearsInv, Ptrs, AInv, TypeOK
<1>4. BuffersInv' /\ HoldsInv' /\ SharedInv'
  BY <1>1, <1>2 DEF BuffersInv, VmmPtrs, Ptrs, HoldsInv, SharedInv, Usable, Uploaded,
                    Memory, Same, Accessible
<1>5. HasForgotten(p)
  <2>1. retired' \subseteq Data
    BY <1>1, <1>2 DEF BuffersInv
  <2> QED BY <1>1, <1>2, <2>1, UnregisterFacts DEF HasForgotten
<1>6. TableInv'
  BY <1>5, ForgottenKeepsTable
<1> QED BY <1>1, <1>3, <1>4, <1>5, <1>6 DEF WInv, HasForgotten

-----------------------------------------------------------------------------
(* Hook_Memcpy.                                                            *)

(* d has been uploaded to dst, and registered.                             *)
HasUploaded(dst, d) ==
  /\ DOMAIN app' = DOMAIN app
  /\ app'[dst].size = app[dst].size /\ app'[dst].data = d
  /\ app'[dst] \in [size : Sizes, data : Data \cup {Garbage}]
  /\ \A p \in DOMAIN app : p # dst => app'[p] = app[p]
  /\ HasRegistered(dedup, dedup', Hash(d, app[dst].size), dst)
  /\ retired' = retired

LEMMA UploadedFacts ==
  ASSUME WInv, NEW dst \in DOMAIN app, NEW d \in Data,
         app' = [app EXCEPT ![dst].data = d], dedup' = Registered(dst, d),
         retired' = retired
  PROVE  HasUploaded(dst, d)
<1>1. app[dst] \in [size : Sizes, data : Data \cup {Garbage}] /\ TableType(dedup)
  BY DEF WInv, BuffersInv, TableInv
<1>2. app'[dst] = [app[dst] EXCEPT !.data = d]
  OBVIOUS
<1>3. /\ app'[dst].size = app[dst].size /\ app'[dst].data = d
      /\ app'[dst] \in [size : Sizes, data : Data \cup {Garbage}]
  BY <1>1, <1>2
<1>4. HasRegistered(dedup, dedup', Hash(d, app[dst].size), dst)
  BY <1>1, RegisterFacts DEF Registered
<1>5. DOMAIN app' = DOMAIN app /\ \A p \in DOMAIN app : p # dst => app'[p] = app[p]
  OBVIOUS
<1> QED BY <1>3, <1>4, <1>5 DEF HasUploaded

(* A content that is new is registered for dst; one that is known has an   *)
(* entry that is another buffer's.                                         *)
LEMMA UploadKeepsTable ==
  ASSUME WInv, NEW dst \in DOMAIN app, NEW d \in Data, HasUploaded(dst, d),
         app[dst].data = Garbage, d \notin retired
  PROVE  TableInv'
<1> DEFINE s == app[dst].size
           x == Hash(d, s)
<1>1. /\ TableInv /\ s \in Sizes
      /\ TableType(dedup')
      /\ DOMAIN dedup' = DOMAIN dedup \cup {x}
      /\ \A y \in DOMAIN dedup : y # x => dedup'[y] = dedup[y]
      /\ dedup'[x].ptr = IF x \in DOMAIN dedup THEN dedup[x].ptr ELSE dst
      /\ x \notin DOMAIN dedup => dedup'[x].ref_count = 1
  BY DEF WInv, BuffersInv, HasUploaded, HasRegistered
<1>2. \A c \in Data : \A n, p : Has(p, c, n) => p # dst /\ Has(p, c, n)'
  BY GarbageAssumption DEF Has, HasUploaded
<1>3. ASSUME NEW p \in Uploaded', app'[p].data \notin retired'
      PROVE  Hash(app'[p].data, app'[p].size) \in DOMAIN dedup'
  <2>1. CASE p = dst
    BY <1>1, <2>1 DEF HasUploaded
  <2>2. CASE p # dst
    <3>1. p \in Uploaded /\ app'[p] = app[p] /\ retired' = retired
      BY <2>2 DEF Uploaded, HasUploaded
    <3> QED BY <1>1, <1>3, <3>1 DEF TableInv
  <2> QED BY <2>1, <2>2
<1>4. ASSUME NEW c \in Data \ retired', NEW n \in Sizes, Hash(c, n) \in DOMAIN dedup'
      PROVE  Serves(c, n)'
  <2>1. CASE Hash(c, n) # x
    <3>1. /\ Hash(c, n) \in DOMAIN dedup /\ dedup'[Hash(c, n)] = dedup[Hash(c, n)]
          /\ Serves(c, n)
      BY <1>1, <1>4, <2>1 DEF TableInv, HasUploaded
    <3>2. Has(dedup[Hash(c, n)].ptr, c, n)'
      BY <1>2, <3>1 DEF Serves
    <3>3. CASE dedup[Hash(c, n)].ref_count = 1
      BY <3>1, <3>2, <3>3 DEF Serves
    <3>4. CASE \E p, q : p # q /\ Has(p, c, n) /\ Has(q, c, n)
      <4>1. \E p, q : p # q /\ Has(p, c, n)' /\ Has(q, c, n)'
        BY <1>2, <3>4
      <4> QED BY <3>1, <3>2, <4>1 DEF Serves
    <3> QED BY <3>1, <3>3, <3>4 DEF Serves
  <2>2. CASE Hash(c, n) = x
    <3>1. c = d /\ n = s
      BY <2>2 DEF Hash
    <3>2. Has(dst, c, n)'
      BY <3>1 DEF Has, HasUploaded
    <3>3. CASE x \in DOMAIN dedup
      <4>1. PICK src : src = dedup[x].ptr
        OBVIOUS
      <4>2. Has(src, c, n)
        BY <1>1, <1>4, <2>2, <3>3, <4>1 DEF TableInv, Serves, HasUploaded
      <4>3. src # dst /\ Has(src, c, n)' /\ dedup'[Hash(c, n)].ptr = src
        BY <1>1, <1>2, <1>4, <2>2, <3>3, <4>1, <4>2
      <4> QED BY <3>2, <4>3 DEF Serves
    <3>4. CASE x \notin DOMAIN dedup
      <4>1. dedup'[Hash(c, n)].ptr = dst /\ dedup'[Hash(c, n)].ref_count = 1
        BY <1>1, <2>2, <3>4
      <4> QED BY <3>2, <4>1 DEF Serves
    <3> QED BY <3>3, <3>4
  <2> QED BY <2>1, <2>2
<1> QED BY <1>1, <1>3, <1>4 DEF TableInv

(* The table has d: it names another buffer with d.                        *)
LEMMA ExistingFacts ==
  ASSUME WInv, NEW dst \in DOMAIN app, NEW d \in Data, app[dst].data = Garbage,
         d \notin retired, Existing(dst, d) # NullPtr
  PROVE  /\ Has(Existing(dst, d), d, app[dst].size)
         /\ dst \in VmmPtrs /\ Existing(dst, d) \in VmmPtrs
<1> DEFINE s == app[dst].size
           src == Existing(dst, d)
<1>1. BuffersInv /\ TableInv /\ TableType(dedup)
  BY DEF WInv, TableInv
<1>2. Hash(d, s) \in DOMAIN dedup /\ src = dedup[Hash(d, s)].ptr
  BY <1>1, LookupFacts DEF Existing
<1>3. Has(src, d, s)
  <2>1. s \in Sizes
    BY <1>1 DEF BuffersInv
  <2> QED BY <1>1, <1>2, <2>1 DEF TableInv, Serves
<1>4. dst \in VmmPtrs /\ src \in VmmPtrs
  BY <1>1, <1>3 DEF BuffersInv, Has
<1> QED BY <1>3, <1>4

(* dst gets the memory of src, which has d.                                *)
LEMMA HitKeepsMemory ==
  ASSUME WInv, NEW dst \in DOMAIN app, NEW d \in Data, HasUploaded(dst, d),
         app[dst].data = Garbage, NEW src, Has(src, d, app[dst].size),
         SharePhysical(dst, src)
  PROVE  BuffersInv' /\ HoldsInv' /\ SharedInv'
<1> DEFINE u == Unbacked(dst)
<1>1. AInv /\ BuffersInv /\ HoldsInv /\ SharedInv
  BY DEF WInv
<1>2. dst \in VmmPtrs /\ src \in VmmPtrs /\ dst \in Ptrs /\ src \in Ptrs
  BY DEF SharePhysical, VmmPtrs
<1>3. src \in DOMAIN app /\ src # dst /\ app[src].data = d /\ app[src].size = app[dst].size
      /\ d # Garbage
  BY GarbageAssumption DEF Has
<1>4. /\ HasUnbacked(u, dst) /\ gpu'.mem = u.mem
      /\ HasAssigned(entries_', dst, Memory(src))
      /\ DOMAIN gpu'.maps = DOMAIN u.maps \cup {dst}
      /\ gpu'.maps[dst].handle = Memory(src) /\ gpu'.maps[dst].access
      /\ \A x \in DOMAIN u.maps : x # dst => gpu'.maps[x] = u.maps[x]
  BY <1>1, <1>2, SharePhysicalFacts DEF HasMapped, Memory
<1> HIDE DEF u
<1>5. /\ Ptrs' = Ptrs /\ VmmPtrs' = VmmPtrs
      /\ \A p \in DOMAIN app : /\ p # dst => entries_'[p] = entries_[p]
                               /\ entries_'[p].size = entries_[p].size
      /\ entries_'[dst].physical_handle = Memory(src)
  BY <1>1, <1>4 DEF HasAssigned, Ptrs, VmmPtrs, BuffersInv
<1>6. /\ Memory(dst)' = Memory(src)
      /\ \A p \in DOMAIN app : p # dst => Memory(p)' = Memory(p)
  BY <1>5 DEF Memory
<1>7. Usable' = Usable \cup {dst} /\ Uploaded' = Uploaded \cup {dst}
  <2>1. \A p : p # dst => (Accessible(gpu', p) <=> Accessible(gpu, p))
    BY <1>4 DEF HasUnbacked, Accessible
  <2>2. Accessible(gpu', dst)
    BY <1>4 DEF Accessible
  <2>3. Usable' = Usable \cup {dst}
    BY <2>1, <2>2 DEF Usable, HasUploaded
  <2>4. Uploaded' = Uploaded \cup {dst}
    BY <1>3 DEF Uploaded, HasUploaded
  <2> QED BY <2>3, <2>4
<1>8. src \in Uploaded /\ src \in Usable
  BY <1>1, <1>3 DEF Uploaded, HoldsInv
<1>9. ASSUME NEW p \in Usable, p # dst
      PROVE  /\ gpu'.maps[p].handle = Memory(p)
             /\ gpu'.mem[Memory(p)].data = gpu.mem[Memory(p)].data
  <2>1. p \in DOMAIN gpu.maps /\ gpu.maps[p].handle = Memory(p)
    BY <1>1, MemoryThere
  <2>2. p \in DOMAIN u.maps /\ u.maps[p].handle = Memory(p)
    BY <1>4, <1>9, <2>1 DEF HasUnbacked
  <2>3. Memory(p) \in DOMAIN u.mem
    BY <1>4, <2>2 DEF HasUnbacked, WellFormed
  <2> QED BY <1>4, <1>9, <2>2, <2>3 DEF HasUnbacked, Kept
<1>10. BuffersInv'
  BY <1>1, <1>5 DEF BuffersInv, HasUploaded
<1>11. HoldsInv'
  <2>1. \A p \in Usable' : gpu'.maps[p].handle = Memory(p)'
    <3> SUFFICES ASSUME NEW p \in Usable' PROVE gpu'.maps[p].handle = Memory(p)'
      OBVIOUS
    <3>1. CASE p = dst
      BY <1>4, <1>6, <3>1
    <3>2. CASE p # dst
      <4>1. p \in Usable /\ p \in DOMAIN app
        BY <1>7, <3>2 DEF Usable
      <4> QED BY <1>6, <1>9, <3>2, <4>1
    <3> QED BY <3>1, <3>2
  <2>2. Uploaded' \subseteq Usable'
    BY <1>1, <1>7 DEF HoldsInv
  <2>3. ASSUME NEW p \in Uploaded'
        PROVE  gpu'.mem[Memory(p)'].data = app'[p].data
    <3>1. CASE p = dst
      BY <1>1, <1>3, <1>6, <1>8, <1>9, <3>1 DEF HoldsInv, HasUploaded
    <3>2. CASE p # dst
      <4>1. p \in Uploaded /\ p \in Usable /\ p \in DOMAIN app
        BY <1>1, <1>7, <3>2 DEF HoldsInv, Uploaded
      <4> QED BY <1>1, <1>6, <1>9, <3>2, <4>1 DEF HoldsInv, HasUploaded
    <3> QED BY <3>1, <3>2
  <2> QED BY <2>1, <2>2, <2>3 DEF HoldsInv
<1>12. SharedInv'
  <2>1. /\ \A p, q \in DOMAIN app : p # dst /\ q # dst => (Same(p, q)' <=> Same(p, q))
        /\ \A p \in DOMAIN app : p # dst => /\ Same(p, dst)' <=> Same(p, src)
                                            /\ Same(dst, p)' <=> Same(src, p)
        /\ Same(src, src)
    BY <1>3 DEF Same, HasUploaded
  <2>2. \A p \in Usable' : p \in DOMAIN app /\ (p # dst => p \in Usable)
    BY <1>7 DEF Usable
  <2>3. ASSUME NEW p \in Usable', NEW q \in Usable', p # q, Memory(p)' = Memory(q)'
        PROVE  Same(p, q)' /\ app'[p].data # Garbage
    <3>1. p \in DOMAIN app /\ q \in DOMAIN app
      BY <2>2
    <3>2. CASE p = dst
      <4>1. Memory(src) = Memory(q) /\ q \in Usable
        BY <1>6, <2>2, <2>3, <3>1, <3>2
      <4>2. Same(src, q)
        BY <1>1, <1>8, <2>1, <4>1 DEF SharedInv
      <4> QED BY <1>3, <2>1, <2>3, <3>1, <3>2, <4>2 DEF HasUploaded
    <3>3. CASE q = dst
      <4>1. Memory(src) = Memory(p) /\ p # dst /\ p \in Usable
        BY <1>6, <2>2, <2>3, <3>1, <3>3
      <4>2. Same(p, src)
        BY <1>1, <1>8, <2>1, <4>1 DEF SharedInv
      <4>3. app'[p].data # Garbage
        BY <1>3, <3>1, <4>1, <4>2 DEF Same, HasUploaded
      <4> QED BY <2>1, <3>1, <3>3, <4>1, <4>2, <4>3
    <3>4. CASE p # dst /\ q # dst
      BY <1>1, <1>6, <2>1, <2>2, <2>3, <3>1, <3>4 DEF SharedInv, HasUploaded
    <3> QED BY <3>2, <3>3, <3>4
  <2>4. ASSUME NEW p \in Uploaded', NEW q \in Uploaded', Same(p, q)'
        PROVE  Memory(p)' = Memory(q)'
    <3>1. /\ p \in DOMAIN app /\ q \in DOMAIN app
          /\ p # dst => p \in Uploaded
          /\ q # dst => q \in Uploaded
      BY <1>7 DEF Uploaded
    <3>2. CASE p = dst /\ q # dst
      BY <1>1, <1>6, <1>8, <2>1, <2>4, <3>1, <3>2 DEF SharedInv
    <3>3. CASE p # dst /\ q = dst
      BY <1>1, <1>6, <1>8, <2>1, <2>4, <3>1, <3>3 DEF SharedInv
    <3>4. CASE p # dst /\ q # dst
      BY <1>1, <1>6, <2>1, <2>4, <3>1, <3>4 DEF SharedInv
    <3> QED BY <3>2, <3>3, <3>4
  <2> QED BY <2>3, <2>4 DEF SharedInv
<1> QED BY <1>10, <1>11, <1>12

(* d is copied to dst, whose memory no other buffer has.                   *)
LEMMA MissKeepsMemory ==
  ASSUME WInv, NEW dst \in Usable, NEW d \in Data, HasUploaded(dst, d),
         app[dst].data = Garbage, d \notin retired,
         Hash(d, app[dst].size) \notin DOMAIN dedup,
         gpu' = Write(gpu, dst, d), entries_' = entries_
  PROVE  BuffersInv' /\ HoldsInv' /\ SharedInv'
<1>1. AInv /\ BuffersInv /\ HoldsInv /\ SharedInv /\ WellFormed(gpu)
  BY DEF WInv, AInv
<1>2. /\ dst \in DOMAIN app /\ Accessible(gpu, dst) /\ gpu.maps[dst].handle = Memory(dst)
  BY <1>1, MemoryThere DEF Usable
<1>3. /\ gpu'.maps = gpu.maps
      /\ \A h \in DOMAIN gpu.mem : h # Memory(dst) => gpu'.mem[h] = gpu.mem[h]
      /\ gpu'.mem[Memory(dst)].data = d
  BY <1>1, <1>2, WriteFacts
<1>4. /\ \A p \in DOMAIN app : Memory(p)' = Memory(p)
      /\ \A p \in Usable : Memory(p) \in DOMAIN gpu.mem
  BY <1>1, MemoryThere DEF Memory
<1>5. \A p \in Usable : p # dst => Memory(p) # Memory(dst)
  BY <1>1 DEF SharedInv, Same
<1>6. BuffersInv'
  BY <1>1 DEF BuffersInv, VmmPtrs, Ptrs, HasUploaded
<1>7. Usable' = Usable /\ Uploaded' = Uploaded \cup {dst} /\ \A p \in Uploaded' : p \in DOMAIN app
  BY <1>2, <1>3, GarbageAssumption DEF Usable, Accessible, Uploaded, HasUploaded
<1>8. HoldsInv'
  <2>1. ASSUME NEW p \in Uploaded'
        PROVE  gpu'.mem[Memory(p)'].data = app'[p].data
    <3>1. CASE p = dst
      BY <1>2, <1>3, <1>4, <3>1 DEF HasUploaded
    <3>2. CASE p # dst
      <4>1. p \in Uploaded /\ p \in Usable /\ p \in DOMAIN app
        BY <1>1, <1>7, <3>2 DEF HoldsInv
      <4> QED BY <1>1, <1>3, <1>4, <1>5, <3>2, <4>1 DEF HoldsInv, HasUploaded
    <3> QED BY <3>1, <3>2
  <2>2. \A p \in Usable' : gpu'.maps[p].handle = Memory(p)'
    BY <1>1, <1>3, <1>4, <1>7 DEF HoldsInv, Usable
  <2> QED BY <1>1, <1>7, <2>1, <2>2 DEF HoldsInv
<1>9. SharedInv'
  <2>1. \A p, q \in DOMAIN app : p # dst /\ q # dst => (Same(p, q)' <=> Same(p, q))
    BY DEF Same, HasUploaded
  <2>2. ASSUME NEW p \in Uploaded, p # dst
        PROVE  ~Same(p, dst)' /\ ~Same(dst, p)'
    <3>1. p \in DOMAIN app
      BY DEF Uploaded
    <3>2. ~(app[p].data = d /\ app[p].size = app[dst].size)
      BY DEF WInv, TableInv
    <3> QED BY <1>2, <2>2, <3>1, <3>2 DEF Same, HasUploaded
  <2>3. ASSUME NEW p \in Usable', NEW q \in Usable', p # q, Memory(p)' = Memory(q)'
        PROVE  Same(p, q)' /\ app'[p].data # Garbage
    <3>1. /\ p \in Usable /\ q \in Usable /\ p \in DOMAIN app /\ q \in DOMAIN app
          /\ Memory(p) = Memory(q)
      BY <1>4, <1>7, <2>3 DEF Usable
    <3>2. p # dst /\ q # dst
      BY <1>5, <2>3, <3>1
    <3> QED BY <1>1, <2>1, <2>3, <3>1, <3>2 DEF SharedInv, HasUploaded
  <2>4. ASSUME NEW p \in Uploaded', NEW q \in Uploaded', Same(p, q)'
        PROVE  Memory(p)' = Memory(q)'
    <3>1. p \in DOMAIN app /\ q \in DOMAIN app
      BY <1>7
    <3>2. CASE p # dst /\ q # dst
      BY <1>1, <1>4, <1>7, <2>1, <2>4, <3>1, <3>2 DEF SharedInv
    <3>3. CASE p = dst \/ q = dst
      BY <1>7, <2>2, <2>4, <3>3
    <3> QED BY <3>2, <3>3
  <2> QED BY <2>3, <2>4 DEF SharedInv
<1> QED BY <1>6, <1>8, <1>9

(* A share is refused: dst, to which nothing had been uploaded, has lost   *)
(* its memory and keeps its entry.                                         *)
LEMMA RefusedKeepsMemory ==
  ASSUME WInv, NEW dst \in DOMAIN app, app[dst].data = Garbage, NEW src,
         SharePhysicalThrows(dst, src), app' = app, AInv'
  PROVE  BuffersInv' /\ HoldsInv' /\ SharedInv'
<1> DEFINE u == Unbacked(dst)
<1>1. AInv /\ BuffersInv /\ HoldsInv /\ SharedInv
  BY DEF WInv
<1>2. dst \in Ptrs /\ src \in Ptrs
  BY DEF SharePhysicalThrows, VmmPtrs
<1>3. /\ HasUnbacked(u, dst) /\ entries_' = entries_
      /\ \/ gpu' = u
         \/ \E n, h : HasMapped(u, gpu', dst, n, h, FALSE)
  BY <1>1, <1>2, SharePhysicalThrowsFacts
<1> HIDE DEF u
<1>4. /\ gpu'.mem = u.mem /\ ~Accessible(gpu', dst)
      /\ \A x \in DOMAIN gpu'.maps \ {dst} : x \in DOMAIN gpu.maps
      /\ \A x \in DOMAIN gpu.maps \ {dst} :
           x \in DOMAIN gpu'.maps /\ gpu'.maps[x] = gpu.maps[x]
  BY <1>3 DEF HasUnbacked, HasMapped, Accessible
<1>5. HasLost(dst)
  <2>1. Usable' = Usable \ {dst}
    BY <1>4 DEF Usable, Accessible
  <2>2. Uploaded' \subseteq Uploaded \ {dst}
    BY DEF Uploaded
  <2>3. \A q \in DOMAIN app \ {dst} : app'[q] = app[q] /\ Memory(q)' = Memory(q)
    BY <1>3 DEF Memory
  <2>4. \E x : HasUnbacked(x, dst) /\ gpu'.mem = x.mem
    BY <1>3, <1>4
  <2> QED BY <1>4, <2>1, <2>2, <2>3, <2>4 DEF HasLost
<1>6. BuffersInv'
  BY <1>1, <1>3 DEF BuffersInv, VmmPtrs, Ptrs
<1> QED BY <1>1, <1>5, <1>6, LostKeepsMemory

LEMMA HookMemcpyWInv ==
  ASSUME WInv, NEW dst \in DOMAIN app, NEW d \in Data, app[dst].data = Garbage,
         d \notin retired, Hook_Memcpy(dst, d)
  PROVE  WInv'
<1>1. /\ AInv /\ LinearsInv /\ BuffersInv /\ TableInv /\ TableType(dedup)
      /\ app[dst].size \in Sizes
  BY DEF WInv, TableInv, BuffersInv
<1>2. CASE Hook_MemcpyHit(dst, d)
  <2>1. PICK src : src = Existing(dst, d)
    OBVIOUS
  <2>2. /\ src # NullPtr
        /\ SharePhysical(dst, src) \/ ShareIgnores(dst, src)
        /\ app' = [app EXCEPT ![dst].data = d] /\ dedup' = Registered(dst, d)
        /\ phase' = phase /\ retired' = retired
    BY <1>2, <2>1 DEF Hook_MemcpyHit
  <2>3. /\ src \in VmmPtrs /\ dst \in VmmPtrs /\ Has(src, d, app[dst].size)
    BY <2>1, <2>2, ExistingFacts
  <2>4. SharePhysical(dst, src) /\ src \in Ptrs /\ dst \in Ptrs
    BY <2>2, <2>3 DEF ShareIgnores, VmmPtrs
  <2>5. AInv' /\ LinearsInv'
    BY <1>1, <2>4, SharePhysicalAInv, PhysicalNextLinears DEF PhysicalNext
  <2>6. HasUploaded(dst, d)
    BY <2>2, UploadedFacts
  <2>7. BuffersInv' /\ HoldsInv' /\ SharedInv'
    BY <2>3, <2>4, <2>6, HitKeepsMemory
  <2>8. TableInv'
    BY <2>6, UploadKeepsTable
  <2> QED BY <2>2, <2>5, <2>7, <2>8 DEF WInv
<1>3. CASE Hook_MemcpyThrows(dst, d)
  <2>1. PICK src : /\ SharePhysicalThrows(dst, src)
                   /\ UNCHANGED <<dedup, phase, app, retired>>
    BY <1>3 DEF Hook_MemcpyThrows
  <2>2. src \in Ptrs /\ dst \in Ptrs
    BY <2>1 DEF SharePhysicalThrows, VmmPtrs
  <2>3. AInv' /\ LinearsInv'
    BY <1>1, <2>1, <2>2, SharePhysicalThrowsAInv, PhysicalNextLinears DEF PhysicalNext
  <2>4. BuffersInv' /\ HoldsInv' /\ SharedInv'
    BY <2>1, <2>3, RefusedKeepsMemory
  <2>5. TableInv'
    BY <1>1, <2>1, SameTable
  <2> QED BY <2>1, <2>3, <2>4, <2>5 DEF WInv
<1>4. CASE Hook_MemcpyMiss(dst, d)
  <2>1. /\ Existing(dst, d) = NullPtr /\ HasMemory(dst) /\ gpu' = Write(gpu, dst, d)
        /\ app' = [app EXCEPT ![dst].data = d] /\ dedup' = Registered(dst, d)
        /\ phase' = phase /\ retired' = retired
        /\ UNCHANGED <<va_held, entries_, live_bytes, alive>>
    BY <1>4 DEF Hook_MemcpyMiss
  <2>2. Hash(d, app[dst].size) \notin DOMAIN dedup
    <3> SUFFICES ASSUME Hash(d, app[dst].size) \in DOMAIN dedup PROVE FALSE
      OBVIOUS
    <3>1. dedup[Hash(d, app[dst].size)].ptr = NullPtr
      BY <1>1, <2>1, LookupFacts DEF Existing
    <3>2. NullPtr \in DOMAIN app
      BY <1>1, <3>1 DEF TableInv, Serves, Has
    <3> QED BY <1>1, <3>2, NullPtrAssumption DEF BuffersInv, AInv, TypeOK
  <2>3. dst \in Usable
    <3>1. dst \notin DOMAIN gpu.linear
      BY <1>1, PointersAssumption DEF LinearsInv, BuffersInv, VmmPtrs, AInv, TypeOK
    <3> QED BY <2>1, <3>1 DEF HasMemory, Usable
  <2>4. HasUploaded(dst, d)
    BY <2>1, UploadedFacts
  <2>5. AInv' /\ LinearsInv'
    <3>1. DOMAIN gpu'.linear = DOMAIN gpu.linear
      BY <1>1, <2>1, WriteFacts DEF AInv
    <3> QED BY <1>1, <2>1, <3>1, WriteAInv DEF LinearsInv, Ptrs
  <2>6. BuffersInv' /\ HoldsInv' /\ SharedInv'
    BY <2>1, <2>2, <2>3, <2>4, MissKeepsMemory
  <2>7. TableInv'
    BY <2>4, UploadKeepsTable
  <2> QED BY <2>1, <2>5, <2>6, <2>7 DEF WInv
<1> QED BY <1>2, <1>3, <1>4 DEF Hook_Memcpy

-----------------------------------------------------------------------------
(* live_bytes: memory that buffers share is counted for each of them, so   *)
(* that it is bounded by the addresses in use and not by the memory.       *)

(* Buffers at all of the pool's ranges, and all the memory there is, are   *)
(* together fewer bytes than a std::size_t counts.                         *)
RangesCountable ==
  \A S \in SUBSET Vas :
    IsFiniteSet(S) => \A f \in [S -> Sizes] : SumFunctionOnSet(f, S) + Vram < SizeMod

(* The hooks never release the memory of a buffer they keep.               *)
AllResident == \A p \in Ptrs : Resident(p)

CountsInv == Exact /\ (phase # "off" => MeterInv /\ AllResident)

LEMMA HooksCountable ==
  ASSUME RangesCountable, AInv, MeterInv
  PROVE  Countable
<1> DEFINE V == Residents \cap Vas
           f == [p \in V |-> entries_[p].size]
<1>1. Residents \in SUBSET Ptrs /\ V \in SUBSET Ptrs /\ V \in SUBSET Vas
  BY DEF Residents
<1>2. IsFiniteSet(V) /\ BytesOf(V) \in Nat /\ BytesOf(Residents) \in Nat
  BY <1>1, SizesTotal
<1>3. f \in [V -> Sizes]
  BY <1>1, EntryFacts
<1>4. BytesOf(V) = SumFunctionOnSet(f, V)
  BY DEF BytesOf, SumFunction
<1> HIDE DEF f
<1>5. BytesOf(V) + Vram < SizeMod
  BY <1>1, <1>2, <1>3, <1>4 DEF RangesCountable
<1>6. BytesOf(Residents) <= BytesOf(V) + Bytes(gpu.linear)
  BY ResidentBytes
<1>7. Bytes(gpu.linear) \in Nat /\ Bytes(gpu.linear) <= Vram
  <2>1. /\ HasSizes(gpu.mem) /\ HasSizes(gpu.linear)
        /\ Bytes(gpu.mem) + Bytes(gpu.linear) <= Vram
    BY DEF MeterInv, MemoryFits
  <2>2. Bytes(gpu.mem) \in Nat /\ Bytes(gpu.linear) \in Nat
    BY <2>1, BytesNat
  <2> QED BY <2>1, <2>2, VramAssumption
<1> HIDE DEF V
<1>8. BytesOf(Residents) < SizeMod
  BY <1>2, <1>5, <1>6, <1>7, VramAssumption, SizeModAssumption
<1> QED BY <1>8 DEF Countable

LEMMA HooksCountableNext ==
  ASSUME RangesCountable
  PROVE  AInv' /\ MeterInv' => Countable'
<1>1. AInv /\ MeterInv => Countable
  BY HooksCountable
<1> QED BY <1>1, PTL

LEMMA InitCounts == InterceptInit => CountsInv
<1> SUFFICES ASSUME InterceptInit PROVE CountsInv
  OBVIOUS
<1>1. Init /\ Ptrs = {}
  BY DEF InterceptInit, Init, Ptrs
<1> QED BY <1>1, InitExact, InitMeter DEF CountsInv, AllResident

LEMMA HookMallocCounts ==
  ASSUME RangesCountable, LeakInv, LeakInv', CountsInv, NEW size \in Sizes, Hook_Malloc(size)
  PROVE  CountsInv'
<1>1. phase = "on" /\ phase' = "on" /\ AInv /\ AInv' /\ MeterInv /\ AllResident /\ Exact
  BY DEF Hook_Malloc, LeakInv, CountsInv
<1>2. ASSUME NEW va, NEW h, AllocateVmm(size, CudaTag, va, h)
      PROVE  CountsInv'
  <2>1. HasAllocated(size, CudaTag, va, h)
    BY <1>1, <1>2, AllocateVmmFacts
  <2>2. AllResident'
    BY <1>1, <2>1, HandlesAssumption DEF HasAllocated, AllResident, Resident, Ptrs
  <2>3. MeterInv'
    BY <1>1, <1>2, AllocateVmmMeter
  <2>4. Countable'
    BY <1>1, <2>3, HooksCountableNext
  <2>5. Exact'
    BY <1>1, <1>2, <2>4, AllocateVmmExact
  <2> QED BY <2>2, <2>3, <2>5 DEF CountsInv
<1>3. ASSUME NEW ptr \in Linears, AllocateFallback(size, ptr)
      PROVE  CountsInv'
  <2>1. HasFallback(size, ptr)
    BY <1>1, <1>3, AllocateFallbackFacts
  <2>2. AllResident'
    BY <1>1, <2>1 DEF HasFallback, FallbackEntry, AllResident, Resident
  <2>3. MeterInv'
    BY <1>1, <1>3, AllocateFallbackMeter
  <2>4. Countable'
    BY <1>1, <2>3, HooksCountableNext
  <2>5. Exact'
    BY <1>1, <1>3, <2>4, AllocateFallbackExact
  <2> QED BY <2>2, <2>3, <2>5 DEF CountsInv
<1>4. ASSUME NEW va, AllocateVmmThrows(size, va)
      PROVE  CountsInv'
  <2>1. UNCHANGED <<entries_, live_bytes>>
    BY <1>4 DEF AllocateVmmThrows
  <2>2. MeterInv'
    BY <1>1, <1>4, AllocateVmmThrowsMeter
  <2> QED BY <1>1, <2>1, <2>2, SameExact DEF CountsInv, AllResident, Resident, Ptrs
<1> QED BY <1>2, <1>3, <1>4 DEF Hook_Malloc

LEMMA HookFreeCounts ==
  ASSUME LeakInv, CountsInv, NEW p, Hook_Free(p) \/ Hook_FreeThrows(p)
  PROVE  CountsInv'
<1>1. phase = "on" /\ phase' = "on" /\ AInv /\ MeterInv /\ AllResident /\ Exact
  BY DEF Hook_Free, Hook_FreeThrows, LeakInv, CountsInv
<1>2. CASE Deallocate(p)
  <2>1. p \in Ptrs /\ Resident(p)
    BY <1>1, <1>2 DEF Deallocate, AllResident
  <2>2. Ptrs' = Ptrs \ {p} /\ \A q \in Ptrs' : entries_'[q] = entries_[q]
    BY <1>2 DEF Deallocate, RestrictDomain, Restrict, Ptrs
  <2>3. AllResident'
    BY <1>1, <2>2 DEF AllResident, Resident
  <2> QED BY <1>1, <1>2, <2>1, <2>3, DeallocateMeter, DeallocateExact DEF CountsInv
<1>3. CASE DeallocateIgnores(p) \/ DeallocateThrows
  <2>1. UNCHANGED <<gpu, entries_, live_bytes>>
    BY <1>3 DEF DeallocateIgnores, DeallocateThrows, allocator, vars
  <2> QED BY <1>1, <2>1, SameMeter, SameExact DEF CountsInv, AllResident, Resident, Ptrs
<1> QED BY <1>2, <1>3 DEF Hook_Free, Hook_FreeThrows

(* An upload shares memory or is copied; no buffer has more or less of it. *)
LEMMA HookMemcpyCounts ==
  ASSUME LeakInv, CountsInv, NEW dst, NEW d, Hook_Memcpy(dst, d)
  PROVE  CountsInv'
<1>1. phase = "on" /\ phase' = "on" /\ AInv /\ MeterInv /\ AllResident /\ Exact
  BY DEF Hook_Memcpy, Hook_MemcpyHit, Hook_MemcpyThrows, Hook_MemcpyMiss, LeakInv, CountsInv
<1> DEFINE src == Existing(dst, d)
<1>2. CASE SharePhysical(dst, src)
  <2> HIDE DEF src
  <2>1. /\ dst \in VmmPtrs /\ src \in VmmPtrs /\ dst \in Ptrs /\ src \in Ptrs
        /\ Resident(dst) /\ Resident(src)
    BY <1>1, <1>2 DEF SharePhysical, VmmPtrs, AllResident
  <2>2. HasAssigned(entries_', dst, entries_[src].physical_handle)
    BY <1>1, <1>2, <2>1, SharePhysicalFacts
  <2>3. entries_[src].physical_handle # NoHandle
    BY <2>1 DEF VmmPtrs, Resident
  <2>4. AllResident'
    BY <1>1, <2>2, <2>3 DEF HasAssigned, AllResident, Resident, Ptrs
  <2> QED BY <1>1, <1>2, <2>1, <2>4, SharePhysicalMeter, SharePhysicalExact DEF CountsInv
<1>3. CASE SharePhysicalThrows(dst, src)
  <2> HIDE DEF src
  <2>1. dst \in Ptrs /\ src \in Ptrs /\ UNCHANGED <<entries_, live_bytes>>
    BY <1>3 DEF SharePhysicalThrows, VmmPtrs
  <2> QED BY <1>1, <1>3, <2>1, SharePhysicalMeter, SameExact
          DEF CountsInv, AllResident, Resident, Ptrs
<1>4. CASE ShareIgnores(dst, src)
  <2>1. UNCHANGED <<gpu, entries_, live_bytes>>
    BY <1>4 DEF ShareIgnores, allocator
  <2> QED BY <1>1, <2>1, SameMeter, SameExact DEF CountsInv, AllResident, Resident, Ptrs
<1>5. CASE Hook_MemcpyMiss(dst, d)
  <2>1. gpu' = Write(gpu, dst, d) /\ UNCHANGED <<entries_, live_bytes>>
    BY <1>5 DEF Hook_MemcpyMiss
  <2> QED BY <1>1, <2>1, WriteMeter, SameExact DEF CountsInv, AllResident, Resident, Ptrs
<1> QED BY <1>2, <1>3, <1>4, <1>5 DEF Hook_Memcpy, Hook_MemcpyHit, Hook_MemcpyThrows

(* Without hooks nothing is counted, and once they have gone the counter   *)
(* and the entries stay as they are.                                       *)
LEMMA RealCounts ==
  ASSUME LeakInv, CountsInv,
         \/ \E size \in Sizes : RealMalloc(size)
         \/ \E p : RealFree(p) \/ \E d : Hook_Launch(p, d)
  PROVE  CountsInv'
<1>1. UNCHANGED <<entries_, live_bytes, phase>> /\ Exact
  BY DEF RealMalloc, RealFree, Hook_Launch, CountsInv
<1>2. Exact' /\ (AllResident => AllResident')
  BY <1>1, SameExact DEF AllResident, Resident, Ptrs
<1>3. ASSUME phase # "off"
      PROVE  MeterInv' /\ AllResident'
  <2>1. AInv /\ MeterInv /\ AllResident /\ WellFormed(gpu)
    BY <1>3 DEF LeakInv, CountsInv
  <2>2. ASSUME NEW p, NEW d, Hook_Launch(p, d)
        PROVE  MeterInv'
    BY <1>1, <2>1, <2>2, WriteMeter DEF Hook_Launch
  <2>3. ASSUME phase = "before"
        PROVE  Ptrs = {} /\ Ptrs' = {}
    BY <1>1, <2>3 DEF LeakInv, Ptrs
  <2>4. ASSUME NEW size \in Sizes, RealMalloc(size)
        PROVE  MeterInv'
    <3>1. phase = "before" /\ Room(gpu, size) /\ size \in Nat
      BY <1>3, <2>4, SizesAssumption DEF RealMalloc, LeakInv
    <3>2. PICK ptr : ptr \notin DOMAIN gpu.linear /\ gpu' = CuMemAlloc(gpu, ptr, size)
      BY <2>4 DEF RealMalloc
    <3>3. MemoryFits'
      BY <2>1, <3>1, <3>2, LinearCreated DEF MeterInv
    <3> QED BY <2>3, <3>1, <3>3, FS_EmptySet DEF MeterInv, FallbackSizes
  <2>5. ASSUME NEW p, RealFree(p)
        PROVE  MeterInv'
    <3>1. phase = "before" /\ gpu' = CuMemFree(gpu, p) /\ 0 \in Nat
      BY <1>3, <2>5 DEF RealFree, LeakInv
    <3>2. LET r == CuMemFree(gpu, p)
          IN /\ r.mem = gpu.mem /\ DOMAIN r.linear = DOMAIN gpu.linear \ {p}
             /\ \A q \in DOMAIN r.linear : r.linear[q] = gpu.linear[q]
      BY <2>1, <3>1, LinearFacts, Zenon
    <3>3. MemoryFits'
      BY <2>1, <3>1, <3>2, MemoryKept DEF MeterInv
    <3> QED BY <2>3, <3>1, <3>3, FS_EmptySet DEF MeterInv, FallbackSizes
  <2> QED BY <1>2, <2>1, <2>2, <2>4, <2>5
<1> QED BY <1>1, <1>2, <1>3 DEF CountsInv

LEMMA NextCounts ==
  ASSUME RangesCountable
  PROVE  LeakInv /\ LeakInv' /\ CountsInv /\ [InterceptNext]_interceptVars => CountsInv'
<1> SUFFICES ASSUME LeakInv, LeakInv', CountsInv, [InterceptNext]_interceptVars
             PROVE  CountsInv'
  OBVIOUS
<1>1. ASSUME UNCHANGED allocator, phase' # "off" => phase # "off"
      PROVE  CountsInv'
  <2>1. UNCHANGED <<gpu, entries_, live_bytes>>
    BY <1>1 DEF allocator
  <2> QED BY <1>1, <2>1, SameMeter, SameExact DEF CountsInv, AllResident, Resident, Ptrs
<1>2. CASE InitializeIntercept \/ ShutdownIntercept \/ UNCHANGED interceptVars
  BY <1>1, <1>2 DEF InitializeIntercept, ShutdownIntercept, interceptVars
<1> QED BY <1>2, HookMallocCounts, HookFreeCounts, HookMemcpyCounts, RealCounts
        DEF InterceptNext

-----------------------------------------------------------------------------
(* Every step keeps the invariants.                                        *)

IInv == LeakInv /\ (kind = "weights" => WInv)

LEMMA NextWInv ==
  ASSUME WInv, kind = "weights", [InterceptNext]_interceptVars
  PROVE  WInv'
<1>1. ASSUME UNCHANGED <<allocator, dedup, app, retired>>, phase' # "off"
      PROVE  WInv'
  <2>1. UNCHANGED <<gpu, va_held, entries_, live_bytes, alive>>
    BY <1>1 DEF allocator
  <2>2. AInv'
    BY <2>1, SameAInv DEF WInv, AInv, TypeOK
  <2>3. LinearsInv' /\ BuffersInv'
    BY <1>1, <2>1 DEF WInv, LinearsInv, BuffersInv, VmmPtrs, Ptrs
  <2>4. HoldsInv' /\ SharedInv'
    BY <1>1, <2>1 DEF WInv, HoldsInv, SharedInv, Memory, Same, Uploaded, Usable, Accessible
  <2>5. TableInv'
    BY <1>1, SameTable DEF WInv
  <2> QED BY <1>1, <2>2, <2>3, <2>4, <2>5 DEF WInv
<1>2. CASE InitializeIntercept
  BY <1>1, <1>2 DEF InitializeIntercept
<1>3. CASE UNCHANGED interceptVars
  BY <1>1, <1>3 DEF interceptVars, WInv
<1>4. CASE \E size \in Sizes : MayAllocate(size) /\ Hook_Malloc(size)
  <2>1. PICK size \in Sizes : MayAllocate(size) /\ Hook_Malloc(size)
    BY <1>4
  <2>2. size >= Granularity
    BY <2>1 DEF MayAllocate
  <2> QED BY <2>1, <2>2, HookMallocWInv
<1>5. CASE \E p \in DOMAIN app, d \in Data : MayUpload(p, d) /\ Hook_Memcpy(p, d)
  BY <1>5, HookMemcpyWInv DEF MayUpload
<1>6. CASE \E p \in DOMAIN app : Hook_Free(p) \/ Hook_FreeThrows(p)
  BY <1>6, HookFreeWInv, HookFreeThrowsWInv
<1> QED BY <1>2, <1>3, <1>4, <1>5, <1>6 DEF InterceptNext

LEMMA KindStays == [InterceptNext]_interceptVars => kind' = kind
  BY DEF InterceptNext, InitializeIntercept, Hook_Malloc, Hook_Memcpy, Hook_MemcpyHit,
         Hook_MemcpyThrows, Hook_MemcpyMiss, Hook_Free, Hook_FreeThrows,
         ShutdownIntercept, RealMalloc, RealFree, Hook_Launch, interceptVars

LEMMA InterceptInvariance == InterceptSpec => []IInv
<1>1. InterceptInit => IInv
  BY InitLeakInv, InitWInv DEF IInv
<1>2. IInv /\ [InterceptNext]_interceptVars => IInv'
  BY NextLeakInv, NextWInv, KindStays DEF IInv
<1> QED BY <1>1, <1>2, PTL DEF InterceptSpec

-----------------------------------------------------------------------------
(* The theorems.                                                           *)

(* Whatever an application calls, with the hooks, before they are there    *)
(* and after they have gone, and wherever a call throws: no memory of a    *)
(* buffer is lost, and no call that returns loses any.  A hook loses       *)
(* memory or a range by throwing only, and no more than it has created and *)
(* been given itself.                                                      *)
THEOREM HooksLoseByThrows == InterceptSpec => HooksOnlyThrowsLose
<1>1. IInv /\ [InterceptNext]_interceptVars => [OnlyThrowsLose]_interceptVars
  BY NextLeakInv DEF IInv
<1> QED BY <1>1, InterceptInvariance, PTL DEF InterceptSpec, HooksOnlyThrowsLose

(* For an application that uploads to each buffer once, and uploads no     *)
(* content again once it has freed one of several buffers with it, or      *)
(* failed to free one: every buffer holds what was uploaded to it, copied  *)
(* or shared, until it is freed, and wherever a call for another throws.   *)
THEOREM WeightsStayIntact == InterceptSpec => []WeightsIntact
<1>1. IInv => WeightsIntact
  <2> SUFFICES ASSUME IInv, kind = "weights", NEW p \in Uploaded
               PROVE  Contents(gpu, p) = app[p].data
    BY DEF WeightsIntact, UploadsIntact
  <2>1. p \in Usable /\ AInv /\ HoldsInv
    BY DEF IInv, WInv, HoldsInv
  <2> QED BY <2>1, MemoryThere DEF HoldsInv
<1> QED BY <1>1, InterceptInvariance, PTL

(* And buffers with the same content have the same memory: an upload that  *)
(* can be shared is never copied.                                          *)
THEOREM WeightsAreShared == InterceptSpec => []Deduplicated
<1>1. IInv => Deduplicated
  <2> SUFFICES ASSUME IInv, kind = "weights", NEW p \in Uploaded, NEW q \in Uploaded,
                      app[p] = app[q]
               PROVE  gpu.maps[p].handle = gpu.maps[q].handle
    BY DEF Deduplicated
  <2>1. p \in Usable /\ q \in Usable /\ WInv /\ Same(p, q)
    BY DEF IInv, WInv, HoldsInv, Same
  <2>2. Memory(p) = Memory(q)
    BY <2>1 DEF WInv, SharedInv
  <2> QED BY <2>1, <2>2, MemoryThere DEF WInv
<1> QED BY <1>1, InterceptInvariance, PTL

(* Whatever an application calls and whatever throws, before the hooks are *)
(* there, with them and after they have gone: live_bytes is the sum of the *)
(* sizes of the buffers that the allocator has entries for, each counted   *)
(* once, whether its memory is its own or shared.                          *)
THEOREM HooksCountBytes ==
  ASSUME RangesCountable
  PROVE  InterceptSpec => []LiveBytesExact
<1>1. InterceptInit => CountsInv
  BY InitCounts
<1>2. IInv /\ IInv' /\ CountsInv /\ [InterceptNext]_interceptVars => CountsInv'
  BY NextCounts DEF IInv
<1>3. CountsInv => LiveBytesExact
  BY ExactFact DEF CountsInv
<1> QED BY <1>1, <1>2, <1>3, InterceptInvariance, PTL DEF InterceptSpec

=============================================================================
