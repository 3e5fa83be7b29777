----------------------------- MODULE CudaDriver -----------------------------
(***************************************************************************)
(* The part of the CUDA driver API that src/ uses for device memory, as    *)
(* functions on the state g of one GPU.  The driver is not part of the     *)
(* repository: it is modelled from how src/ calls it.                      *)
(*                                                                         *)
(*   g.mem     physical memory: from the handles that cuMemCreate returned *)
(*             to [open, size, data].  A handle is open until cuMemRelease *)
(*             is called for it; its memory lives on while it is mapped.   *)
(*   g.maps    cuMemMap: from virtual addresses to [handle, size, access]; *)
(*             access once cuMemSetAccess has been called for the address  *)
(*   g.linear  cuMemAlloc: from pointers to [size, data]                   *)
(*                                                                         *)
(* data is what the memory holds: one value for a whole buffer.  Which     *)
(* calls the driver refuses is left to the modules that make them.         *)
(***************************************************************************)
EXTENDS Integers, Functions, Maps

CONSTANTS
  Handles,    \* values cuMemCreate can return
  NoHandle,   \* a CUmemGenericAllocationHandle{} that no memory has
  Vram,       \* bytes of device memory
  Garbage     \* the contents of memory nobody has written

ASSUME HandlesAssumption == NoHandle \notin Handles
ASSUME VramAssumption == Vram \in Nat

NoMemory == [mem |-> << >>, maps |-> << >>, linear |-> << >>]

(* The bytes of all the memory in g.mem, or in g.linear.                   *)
Bytes(f) == SumFunction([x \in DOMAIN f |-> f[x].size])

(* Is there room for n more bytes?                                         *)
Room(g, n) == Bytes(g.mem) + Bytes(g.linear) + n <= Vram

(* The driver may return the value of a handle whose memory is gone.       *)
FreshHandles(g) == Handles \ DOMAIN g.mem

Mapped(g, h) == \E va \in DOMAIN g.maps : g.maps[va].handle = h

(* Memory that is neither open nor mapped is freed.                        *)
Reap(g) ==
  [g EXCEPT !.mem = RestrictDomain(@, LAMBDA h : @[h].open \/ Mapped(g, h))]

(* cuMemCreate, given that there is room.                                  *)
CuMemCreate(g, h, n) ==
  [g EXCEPT !.mem = Put(@, h, [open |-> TRUE, size |-> n, data |-> Garbage])]

(* Errors of cuMemRelease and cuMemUnmap are ignored by every caller.      *)
CuMemRelease(g, h) ==
  IF h \in DOMAIN g.mem THEN Reap([g EXCEPT !.mem[h].open = FALSE]) ELSE g

CuMemUnmap(g, va, n) ==
  IF va \in DOMAIN g.maps /\ g.maps[va].size = n
    THEN Reap([g EXCEPT !.maps = Restrict(@, DOMAIN @ \ {va})])
    ELSE g

(* cuMemMap succeeds for an open handle, large enough, at an address where *)
(* nothing is mapped.                                                      *)
CanMap(g, va, n, h) ==
  /\ h \in DOMAIN g.mem
  /\ g.mem[h].open
  /\ n <= g.mem[h].size
  /\ va \notin DOMAIN g.maps

CuMemMap(g, va, n, h) ==
  [g EXCEPT !.maps = Put(@, va, [handle |-> h, size |-> n, access |-> FALSE])]

CuMemSetAccess(g, va) == [g EXCEPT !.maps[va].access = TRUE]

(* Can the memory mapped at va be read and written?                        *)
Accessible(g, va) == va \in DOMAIN g.maps /\ g.maps[va].access

CuMemAlloc(g, ptr, n) ==
  [g EXCEPT !.linear = Put(@, ptr, [size |-> n, data |-> Garbage])]

CuMemFree(g, ptr) ==
  [g EXCEPT !.linear = Restrict(@, DOMAIN @ \ {ptr})]

(* What cuMemcpyDtoH finds at ptr: nothing, if nothing is there.           *)
Contents(g, ptr) ==
  IF Accessible(g, ptr) THEN g.mem[g.maps[ptr].handle].data
  ELSE IF ptr \in DOMAIN g.linear THEN g.linear[ptr].data
  ELSE Garbage

(* cuMemcpyHtoD and cuMemsetD8 over the whole buffer at ptr.               *)
Write(g, ptr, d) ==
  IF Accessible(g, ptr) THEN [g EXCEPT !.mem[g.maps[ptr].handle].data = d]
  ELSE IF ptr \in DOMAIN g.linear THEN [g EXCEPT !.linear[ptr].data = d]
  ELSE g

=============================================================================
