------------------------------ MODULE VmmDedup ------------------------------
(***************************************************************************)
(* The table of src/vmm/vmm_dedup.{h,cc}, as functions on its entries_: a  *)
(* function from hashes of contents to the address that first got the      *)
(* content, and the number of uploads counted for it.                      *)
(*                                                                         *)
(* Hash is FNV-1a, 64 bits, of the bytes uploaded.  The table compares     *)
(* nothing but hashes; contents that collide are not modelled.             *)
(***************************************************************************)
EXTENDS Integers, Functions, Maps

CONSTANT NullPtr      \* nullptr

EmptyTable == << >>

(* Contents of different sizes are different contents.                     *)
Hash(data, size) == <<data, size>>

(* Mutant: only content that has been shared already is found.             *)
LookupShared(t, h) ==
  IF h \in DOMAIN t /\ t[h].ref_count > 1 THEN t[h].ptr ELSE NullPtr

Lookup(t, h) ==
  IF h \in DOMAIN t /\ t[h].ref_count > 0 THEN t[h].ptr ELSE NullPtr

Register(t, h, ptr) ==
  IF h \in DOMAIN t
    THEN [t EXCEPT ![h].ref_count = @ + 1]
    ELSE Put(t, h, [ptr |-> ptr, ref_count |-> 1])

(* Mutant: an entry is erased only when its count is below 0.              *)
UnregisterPtrKeeps(t, ptr) ==
  LET counted == [h \in DOMAIN t |-> IF t[h].ptr = ptr
                                       THEN [t[h] EXCEPT !.ref_count = @ - 1]
                                       ELSE t[h]]
  IN RestrictDomain(counted, LAMBDA h : counted[h].ref_count >= 0)

(* One is taken off the count of every entry that has ptr, and those that  *)
(* drop to 0 are erased.                                                   *)
UnregisterPtr(t, ptr) ==
  LET counted == [h \in DOMAIN t |-> IF t[h].ptr = ptr
                                       THEN [t[h] EXCEPT !.ref_count = @ - 1]
                                       ELSE t[h]]
  IN RestrictDomain(counted, LAMBDA h : counted[h].ref_count > 0)

=============================================================================
