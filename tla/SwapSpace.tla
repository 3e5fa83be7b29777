----------------------------- MODULE SwapSpace -----------------------------
(***************************************************************************)
(* What src/swap/swap_manager.h promises of buffers that are swapped, as   *)
(* an abstract state machine: "Save all GPU allocations with the given tag *)
(* to pinned host memory, then release GPU physical backing" and "Restore  *)
(* GPU allocations for the given tag from pinned host memory".             *)
(*                                                                         *)
(* A buffer keeps its name, its tag and its data wherever it is; a swap    *)
(* moves the buffers of its tag one by one, returns when all of them have  *)
(* been moved, and throws only while some are left to be swapped in, or    *)
(* when it has none to move at all.                                        *)
(***************************************************************************)
EXTENDS Maps

CONSTANTS
  Buffers,      \* names of buffers
  Tags,         \* the tags they can have
  Data,         \* what can be written to them
  Unwritten     \* what a new buffer holds

VARIABLES
  store,        \* from buffers to [tag, data, on_gpu]
  moving        \* the swap under way: its [op, tag]; Still or Thrown

vars == <<store, moving>>

Still == [op |-> "none"]
Thrown == [op |-> "thrown"]

AtRest == moving \in {Still, Thrown}

Init == store = << >> /\ moving = Still

Allocate(b, tag) ==
  /\ AtRest
  /\ b \notin DOMAIN store
  /\ store' = Put(store, b, [tag |-> tag, data |-> Unwritten, on_gpu |-> TRUE])
  /\ UNCHANGED moving

Write(b, d) ==
  /\ AtRest
  /\ store[b].on_gpu
  /\ store' = [store EXCEPT ![b].data = d]
  /\ UNCHANGED moving

Free(b) ==
  /\ AtRest
  /\ store[b].on_gpu
  /\ store' = [c \in DOMAIN store \ {b} |-> store[c]]
  /\ UNCHANGED moving

Begin ==
  /\ AtRest
  /\ moving'.op \in {"out", "in"}
  /\ UNCHANGED store

Left == {b \in DOMAIN store : /\ store[b].tag = moving.tag
                              /\ store[b].on_gpu <=> moving.op = "out"}

Move ==
  /\ ~AtRest
  /\ \E b \in Left : store' = [store EXCEPT ![b].on_gpu = ~@]
  /\ UNCHANGED moving

Return == ~AtRest /\ Left = {} /\ moving' = Still /\ UNCHANGED store

(* (The tag of the buffers below the granularity, which are not looked at  *)
(* here, has none.)                                                        *)
Throw ==
  /\ ~AtRest
  /\ \/ moving.op = "in" /\ Left # {}
     \/ \A b \in DOMAIN store : store[b].tag # moving.tag
  /\ moving' = Thrown
  /\ UNCHANGED store

Next ==
  \/ \E b \in Buffers, tag \in Tags : Allocate(b, tag)
  \/ \E b \in DOMAIN store : Free(b) \/ \E d \in Data : Write(b, d)
  \/ Begin \/ Move \/ Return \/ Throw

Spec == Init /\ [][Next]_vars

=============================================================================
