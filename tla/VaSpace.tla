------------------------------ MODULE VaSpace ------------------------------
(***************************************************************************)
(* What VmmPool promises its client, VmmAllocator: a stock of GPU virtual  *)
(* addresses that grows by whole reservations, and disjoint spans taken    *)
(* from it and given back to it.  How the stock is searched, split and     *)
(* merged is left open.                                                    *)
(*                                                                         *)
(* A span is a half-open interval lo .. hi - 1 of addresses.               *)
(***************************************************************************)
EXTENDS Integers

CONSTANT Address        \* the virtual addresses, and the ends of spans

VARIABLES
  reserved,             \* addresses obtained from cuMemAddressReserve
  available,            \* reserved addresses that nobody holds
  spans                 \* the spans handed out: records [start, end]

vars == <<reserved, available, spans>>

Span(lo, hi) == lo .. (hi - 1)

Init ==
  /\ reserved = {}
  /\ available = {}
  /\ spans = {}

(* The driver reserves addresses that were not reserved before.            *)
Reserve(lo, hi) ==
  /\ Span(lo, hi) \cap reserved = {}
  /\ reserved' = reserved \cup Span(lo, hi)
  /\ available' = available \cup Span(lo, hi)
  /\ UNCHANGED spans

(* A span is handed out, wholly from addresses that nobody holds.          *)
Allocate(lo, hi) ==
  /\ Span(lo, hi) \subseteq available
  /\ available' = available \ Span(lo, hi)
  /\ spans' = spans \cup {[start |-> lo, end |-> hi]}
  /\ UNCHANGED reserved

(* A span that was handed out comes back whole.                            *)
Release(lo, hi) ==
  /\ [start |-> lo, end |-> hi] \in spans
  /\ available' = available \cup Span(lo, hi)
  /\ spans' = spans \ {[start |-> lo, end |-> hi]}
  /\ UNCHANGED reserved

Next ==
  \E lo, hi \in Address :
    /\ lo < hi
    /\ Reserve(lo, hi) \/ Allocate(lo, hi) \/ Release(lo, hi)

Spec == Init /\ [][Next]_vars

=============================================================================
