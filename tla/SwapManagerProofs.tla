------------------------- MODULE SwapManagerProofs -------------------------
(***************************************************************************)
(* The swap manager loses no data of a client that swaps each tag out      *)
(* once, implements SwapSpace, and nothing but the driver stops its        *)
(* SwapIn.  Of every client: the counter of bytes is right, and only calls *)
(* that throw lose memory.  What else a client that swaps a tag out again  *)
(* meets is left to TLC: SwapTwice.cfg.                                    *)
(***************************************************************************)
EXTENDS SwapManager, VmmAllocatorProofs, SequenceTheorems, FiniteSetTheorems

-----------------------------------------------------------------------------
(* The inductive invariant, first what it says of the memory.              *)

(* No two addresses share memory: the client does not deduplicate.         *)
Unshared ==
  \A x, y \in DOMAIN gpu.maps : gpu.maps[x].handle = gpu.maps[y].handle => x = y

(* A VMM buffer that has memory holds what the client wrote to it, between *)
(* calls and during them.                                                  *)
Holds ==
  \A p \in VmmPtrs :
    p \in DOMAIN client /\ (Resident(p) => Contents(gpu, p) = client[p].data)

(* The buffers of cuMemAlloc have a tag of their own.                      *)
TagsInv == \A p \in Ptrs : entries_[p].is_vmm <=> entries_[p].tag # FallbackTag

MemoryInv ==
  /\ AInv /\ Mirrored /\ Unshared /\ Holds /\ TagsInv
  /\ IsFiniteSet(Ptrs)

-----------------------------------------------------------------------------
(* Then of the lists of saved buffers, and of where the calls stand.       *)

IsSeq(s) == s \in Seq({s[i] : i \in DOMAIN s})

OutCall(c) ==
  /\ c = [op |-> "out", tag |-> c.tag, next |-> c.next, entries |-> c.entries]
  /\ c.next \in Nat \ {0}

InCall(c) ==
  /\ c = [op |-> "in", tag |-> c.tag, next |-> c.next, copy |-> c.copy,
          entries |-> c.entries]
  /\ c.next \in Nat \ {0}

CallType == AtRest \/ OutCall(call) \/ InCall(call)

(* The tags whose buffers are listed in a context, or in a SwapOut that    *)
(* will be one.  Entries(t) is the list.                                   *)
Stored == {contexts_[i].tag : i \in DOMAIN contexts_}
Listed == Stored \cup (IF call.op = "out" THEN {call.tag} ELSE {})

ContextsInv ==
  /\ IsSeq(contexts_)
  /\ \A i, j \in DOMAIN contexts_ : contexts_[i].tag = contexts_[j].tag => i = j

(* The list of a tag has each buffer once, and buffers of one kind only.   *)
ListOk(t, es) ==
  /\ IsSeq(es)
  /\ \A j \in DOMAIN es : /\ es[j].original_ptr \in Pointers
                          /\ es[j].size \in Sizes
                          /\ es[j].is_vmm \in BOOLEAN
                          /\ es[j].is_vmm <=> es[j].original_ptr \in Vas
                          /\ es[j].is_vmm <=> t # FallbackTag
  /\ \A i, j \in DOMAIN es : es[i].original_ptr = es[j].original_ptr => i = j

ListsInv == \A t \in Listed : ListOk(t, Entries(t))

HasEntry(es, p, d) == \E j \in DOMAIN es : es[j].original_ptr = p /\ es[j].data = d

(* What the client wrote to a buffer that is away is in the list of the    *)
(* buffer's tag.                                                           *)
AwayInv ==
  \A p \in VmmPtrs :
    ~Resident(p) => /\ entries_[p].tag \in Listed
                    /\ HasEntry(Entries(entries_[p].tag), p, client[p].data)

(* A list's VMM buffers are still allocated, with the tag and the size     *)
(* they had.                                                               *)
Owned(t, es) ==
  \A j \in DOMAIN es :
    es[j].is_vmm => /\ es[j].original_ptr \in VmmPtrs
                    /\ entries_[es[j].original_ptr].tag = t
                    /\ entries_[es[j].original_ptr].size = es[j].size

(* SwapOut's list has all buffers of the tag with their data, and those    *)
(* before next are away.                                                   *)
OutInv ==
  call.op = "out" =>
    /\ call.tag \notin Stored
    /\ Len(contexts_) < kContexts
    /\ Owned(call.tag, call.entries)
    /\ \A j \in DOMAIN call.entries :
         call.entries[j].is_vmm =>
           /\ Resident(call.entries[j].original_ptr) <=> j >= call.next
           /\ call.entries[j].data = client[call.entries[j].original_ptr].data
    /\ \A p \in VmmPtrs :
         entries_[p].tag = call.tag
           => \E j \in DOMAIN call.entries : call.entries[j].original_ptr = p

(* SwapIn has the list of a tag that is out, and the buffers before next   *)
(* are back.                                                               *)
InInv ==
  call.op = "in" =>
    /\ call.tag \in out
    /\ call.entries = Entries(call.tag)
    /\ call.copy # NoPtr => /\ call.copy \in Linears
                            /\ call.next <= Len(call.entries)
                            /\ ~call.entries[call.next].is_vmm
    /\ \A j \in DOMAIN call.entries :
         call.entries[j].is_vmm /\ j < call.next => Resident(call.entries[j].original_ptr)

(* How far the SwapIn of a tag has come.                                   *)
Reach(t) == IF call.op = "in" /\ call.tag = t THEN call.next ELSE 1

Gone(es, j) == es[j].is_vmm /\ ~Resident(es[j].original_ptr)

(* The buffers of a list that are away are its last ones, and if VMM       *)
(* buffers are left for SwapIn to go through then some of them are away:   *)
(* all of them, for a client that does not try again.                      *)
Awaits(es, k) ==
  /\ \A i, j \in DOMAIN es : i < j /\ es[j].is_vmm /\ Gone(es, i) => Gone(es, j)
  /\ \A j \in DOMAIN es : es[j].is_vmm /\ j >= k => \E i \in DOMAIN es : i >= k /\ Gone(es, i)
  /\ manner = "once" => \A j \in DOMAIN es : es[j].is_vmm /\ j >= k => Gone(es, j)

WaitInv ==
  /\ out \subseteq Stored
  /\ \A t \in out : Owned(t, Entries(t)) /\ Awaits(Entries(t), Reach(t))

ListInv ==
  CallType /\ ContextsInv /\ ListsInv /\ AwayInv /\ OutInv /\ InInv /\ WaitInv

SInv ==
  /\ manner \in {"once", "again", "retry"}
  /\ manner # "again" => MemoryInv /\ ListInv

(* The buffers as SwapSpace sees them.                                     *)
Cell(p) == [tag    |-> entries_[p].tag,
            data   |-> client[p].data,
            on_gpu |-> Resident(p)]
Cells == [p \in VmmPtrs |-> Cell(p)]

-----------------------------------------------------------------------------
(* Sequences, and the lists.                                               *)

LEMMA OwnSeq ==
  ASSUME NEW S, NEW s \in Seq(S)
  PROVE  IsSeq(s)
<1>1. s \in [1 .. Len(s) -> S] /\ Len(s) \in Nat /\ DOMAIN s = 1 .. Len(s)
  BY LenProperties
<1>2. s = [i \in 1 .. Len(s) |-> s[i]]
  BY <1>1
<1>3. s \in [1 .. Len(s) -> {s[i] : i \in DOMAIN s}]
  BY <1>1
<1> QED BY <1>1, <1>3, SeqDef DEF IsSeq

LEMMA SeqFacts ==
  ASSUME NEW s, IsSeq(s)
  PROVE  Len(s) \in Nat /\ DOMAIN s = 1 .. Len(s)
  BY LenProperties DEF IsSeq

LEMMA AppendFacts ==
  ASSUME NEW s, IsSeq(s), NEW x
  PROVE  /\ IsSeq(Append(s, x))
         /\ DOMAIN Append(s, x) = DOMAIN s \cup {Len(s) + 1}
         /\ Len(s) + 1 \notin DOMAIN s
         /\ Append(s, x)[Len(s) + 1] = x
         /\ \A i \in DOMAIN s : Append(s, x)[i] = s[i]
<1> DEFINE S == {s[i] : i \in DOMAIN s} \cup {x}
<1>1. s \in Seq(S) /\ x \in S
  <2>1. s \in [1 .. Len(s) -> S] /\ Len(s) \in Nat
    BY SeqFacts, LenProperties DEF IsSeq
  <2> QED BY <2>1, SeqDef
<1> HIDE DEF S
<1>2. /\ Append(s, x) \in Seq(S) /\ Len(Append(s, x)) = Len(s) + 1
      /\ \A i \in 1 .. Len(s) : Append(s, x)[i] = s[i]
      /\ Append(s, x)[Len(s) + 1] = x
  BY <1>1, AppendProperties
<1>3. DOMAIN Append(s, x) = 1 .. Len(s) + 1 /\ Len(s) \in Nat /\ DOMAIN s = 1 .. Len(s)
  BY <1>1, <1>2, LenProperties
<1>4. IsSeq(Append(s, x))
  BY <1>2, OwnSeq
<1> QED BY <1>2, <1>3, <1>4

LEMMA CallShape ==
  ASSUME CallType
  PROVE  /\ AtRest => call.op \notin {"out", "in"}
         /\ call.op = "out" => OutCall(call)
         /\ call.op = "in" => InCall(call)
<1>1. Idle.op = "none" /\ Thrown.op = "thrown"
  BY DEF Idle, Thrown
<1>2. AtRest => call.op \notin {"out", "in"}
  BY <1>1 DEF AtRest
<1>3. ASSUME NEW c, OutCall(c) PROVE c.op = "out"
  BY <1>3 DEF OutCall
<1>4. ASSUME NEW c, InCall(c) PROVE c.op = "in"
  BY <1>4 DEF InCall
<1> QED BY <1>2, <1>3, <1>4 DEF CallType

(* The list of a stored tag, before a step and after it.                   *)
LEMMA FoundEntries ==
  ASSUME ContextsInv, NEW i \in DOMAIN contexts_, NEW t, contexts_[i].tag = t,
         ~(call.op = "out" /\ call.tag = t)
  PROVE  Found(t, i) /\ Entries(t) = contexts_[i].entries
<1>1. Len(contexts_) \in Nat /\ DOMAIN contexts_ = 1 .. Len(contexts_)
  BY SeqFacts DEF ContextsInv
<1>2. Found(t, i)
  <2>1. \A j \in 1 .. i - 1 : j \in DOMAIN contexts_ /\ j # i
    BY <1>1
  <2> QED BY <2>1 DEF Found, ContextsInv
<1> DEFINE k == CHOOSE k \in DOMAIN contexts_ : Found(t, k)
<1>3. k \in DOMAIN contexts_ /\ Found(t, k)
  BY <1>2
<1>4. Entries(t) = contexts_[k].entries
  BY DEF Entries
<1> HIDE DEF k
<1>5. k = i
  BY <1>3 DEF Found, ContextsInv
<1> QED BY <1>2, <1>4, <1>5

LEMMA FoundEntriesNext ==
  ASSUME ContextsInv', NEW i, i \in DOMAIN contexts_', NEW t, contexts_'[i].tag = t,
         call'.op # "out"
  PROVE  Entries(t)' = contexts_'[i].entries
<1> DEFINE P(k) == /\ k \in DOMAIN contexts_'
                   /\ contexts_'[k].tag = t
                   /\ \A j \in 1 .. k - 1 : contexts_'[j].tag # t
           k == CHOOSE k \in DOMAIN contexts_' : P(k)
<1>1. Len(contexts_') \in Nat /\ DOMAIN contexts_' = 1 .. Len(contexts_')
  BY SeqFacts DEF ContextsInv
<1>2. P(i)
  <2>1. \A j \in 1 .. i - 1 : j \in DOMAIN contexts_' /\ j # i
    BY <1>1
  <2> QED BY <2>1 DEF ContextsInv
<1>3. k \in DOMAIN contexts_' /\ P(k)
  BY <1>2
<1>4. Entries(t)' = contexts_'[k].entries
  BY DEF Entries, Found
<1> HIDE DEF k
<1>5. k = i
  BY <1>3 DEF ContextsInv
<1> QED BY <1>4, <1>5

(* The lists are the same after a step that neither stores a context nor   *)
(* begins or ends a SwapOut.                                               *)
LEMMA ListsSame ==
  ASSUME contexts_' = contexts_,
         \/ call.op # "out" /\ call'.op # "out"
         \/ /\ call.op = "out" /\ call'.op = "out"
            /\ call'.tag = call.tag /\ call'.entries = call.entries
  PROVE  /\ Stored' = Stored /\ Listed' = Listed
         /\ \A t : Entries(t)' = Entries(t)
<1>1. Stored' = Stored /\ Listed' = Listed
  BY DEF Stored, Listed
<1>2. ASSUME NEW t PROVE Entries(t)' = Entries(t)
  BY DEF Entries, Found
<1> QED BY <1>1, <1>2
LEMMA ListsStored ==
  ASSUME ContextsInv, call.op = "out", call.tag \notin Stored,
         contexts_' = Append(contexts_, [tag |-> call.tag, entries |-> call.entries]),
         call' = Idle
  PROVE  /\ ContextsInv' /\ Stored' = Listed /\ Listed' = Listed
         /\ \A t \in Listed : Entries(t)' = Entries(t)
<1> DEFINE c == [tag |-> call.tag, entries |-> call.entries]
           n == Len(contexts_) + 1
<1>1. /\ IsSeq(contexts_') /\ DOMAIN contexts_' = DOMAIN contexts_ \cup {n}
      /\ n \notin DOMAIN contexts_ /\ contexts_'[n] = c
      /\ \A i \in DOMAIN contexts_ : contexts_'[i] = contexts_[i]
  BY AppendFacts DEF ContextsInv
<1>2. c.tag = call.tag /\ c.entries = call.entries
  OBVIOUS
<1>3. call'.op # "out"
  BY DEF Idle
<1> HIDE DEF c, n
<1>4. ContextsInv'
  BY <1>1, <1>2 DEF ContextsInv, Stored
<1>5. Stored' = Listed /\ Listed' = Listed
  BY <1>1, <1>2, <1>3 DEF Stored, Listed
<1>6. ASSUME NEW t \in Listed PROVE Entries(t)' = Entries(t)
  <2>1. CASE t = call.tag
    <3>1. Entries(t)' = contexts_'[n].entries
      BY <1>1, <1>2, <1>3, <1>4, <2>1, FoundEntriesNext
    <3> QED BY <1>1, <1>2, <2>1, <3>1 DEF Entries
  <2>2. CASE t # call.tag
    <3>1. PICK i \in DOMAIN contexts_ : contexts_[i].tag = t
      BY <2>2 DEF Listed, Stored
    <3>2. Entries(t) = contexts_[i].entries
      BY <2>2, <3>1, FoundEntries
    <3>3. i \in DOMAIN contexts_' /\ contexts_'[i].tag = t
      BY <1>1, <3>1
    <3>4. Entries(t)' = contexts_'[i].entries
      BY <1>3, <1>4, <3>3, FoundEntriesNext
    <3> QED BY <1>1, <3>2, <3>4
  <2> QED BY <2>1, <2>2
<1> QED BY <1>4, <1>5, <1>6

LEMMA ListsBegun ==
  ASSUME call.op # "out", NEW tag, tag \notin Stored, call'.op = "out", call'.tag = tag,
         contexts_' = contexts_
  PROVE  /\ Stored' = Stored /\ Listed = Stored /\ Listed' = Stored \cup {tag}
         /\ \A t \in Listed : Entries(t)' = Entries(t)
         /\ Entries(tag)' = call'.entries
<1>1. Stored' = Stored /\ Listed' = Stored \cup {tag} /\ Listed = Stored
  BY DEF Stored, Listed
<1>2. ASSUME NEW t \in Listed PROVE Entries(t)' = Entries(t)
  BY <1>1 DEF Entries, Found
<1>3. Entries(tag)' = call'.entries
  BY DEF Entries
<1> QED BY <1>1, <1>2, <1>3
-----------------------------------------------------------------------------
(* The steps of the client and of the calls, and the lists.                *)

LEMMA InitListInv == SwapInit => ListInv
<1> SUFFICES ASSUME SwapInit PROVE ListInv
  OBVIOUS
<1>1. contexts_ = << >> /\ call = Idle /\ out = {} /\ entries_ = << >>
  BY DEF SwapInit, Init
<1>2. IsSeq(contexts_) /\ DOMAIN contexts_ = {} /\ VmmPtrs = {}
  BY <1>1, EmptySeq DEF IsSeq, VmmPtrs, Ptrs
<1>3. call.op # "out" /\ call.op # "in" /\ AtRest
  BY <1>1 DEF Idle, AtRest
<1>4. Stored = {} /\ Listed = {}
  BY <1>2, <1>3 DEF Stored, Listed
<1> QED BY <1>1, <1>2, <1>3, <1>4
        DEF ListInv, CallType, ContextsInv, ListsInv, AwayInv, OutInv, InInv, WaitInv

(* A buffer of a list of a tag that is out.                                *)
Awaited(p) ==
  \E t \in out : \E j \in DOMAIN Entries(t) :
    Entries(t)[j].is_vmm /\ Entries(t)[j].original_ptr = p

(* Between calls the client allocates, writes what is on the GPU, and      *)
(* frees what SwapIn does not await.                                       *)
LEMMA RestListInv ==
  ASSUME ListInv, AtRest, UNCHANGED <<contexts_, call, out, manner>>,
         \A p \in VmmPtrs' :
           ~Resident(p)' => /\ p \in VmmPtrs /\ entries_'[p] = entries_[p]
                            /\ client'[p].data = client[p].data,
         \A p \in VmmPtrs : Awaited(p) => p \in VmmPtrs' /\ entries_'[p] = entries_[p]
  PROVE  ListInv'
<1>1. /\ Stored' = Stored /\ Listed' = Listed
      /\ \A t : Entries(t)' = Entries(t)
  BY ListsSame
<1>2. call.op # "out" /\ call.op # "in"
  BY CallShape DEF ListInv
<1>3. CallType' /\ ContextsInv' /\ OutInv' /\ InInv'
  BY <1>2 DEF ListInv, CallType, AtRest, ContextsInv, OutInv, InInv
<1>4. ListsInv'
  BY <1>1 DEF ListInv, ListsInv
<1>5. AwayInv'
  <2> SUFFICES ASSUME NEW p \in VmmPtrs', ~Resident(p)'
               PROVE  (/\ entries_[p].tag \in Listed
                       /\ HasEntry(Entries(entries_[p].tag), p, client[p].data))'
    BY DEF AwayInv
  <2>1. /\ p \in VmmPtrs /\ entries_'[p] = entries_[p]
        /\ client'[p].data = client[p].data
    OBVIOUS
  <2>2. ~Resident(p)
    BY <2>1 DEF Resident
  <2>3. PICK t : t = entries_[p].tag /\ t = entries_'[p].tag
    BY <2>1
  <2>4. t \in Listed /\ HasEntry(Entries(t), p, client[p].data)
    BY <2>1, <2>2, <2>3 DEF ListInv, AwayInv
  <2>5. t \in Listed' /\ HasEntry(Entries(t), p, client[p].data)'
    BY <1>1, <2>1, <2>4 DEF HasEntry
  <2> QED BY <2>3, <2>5
<1>6. WaitInv'
  <2> SUFFICES ASSUME NEW t \in out
               PROVE  (Owned(t, Entries(t)) /\ Awaits(Entries(t), Reach(t)))'
    BY <1>1 DEF WaitInv, ListInv
  <2>1. Owned(t, Entries(t)) /\ Awaits(Entries(t), Reach(t))
    BY DEF WaitInv, ListInv
  <2>2. PICK es : es = Entries(t) /\ es = Entries(t)'
    BY <1>1
  <2>3. PICK k : k = Reach(t) /\ k = Reach(t)'
    BY DEF Reach
  <2>4. \A j \in DOMAIN es :
          es[j].is_vmm => /\ es[j].original_ptr \in VmmPtrs'
                          /\ entries_'[es[j].original_ptr] = entries_[es[j].original_ptr]
    BY <2>1, <2>2 DEF Awaited, Owned
  <2>5. Owned(t, es) /\ Awaits(es, k)
    BY <2>1, <2>2, <2>3
  <2>6. Owned(t, es)'
    BY <2>4, <2>5 DEF Owned
  <2>7. Awaits(es, k)'
    BY <2>4, <2>5 DEF Awaits, Gone, Resident
  <2> QED BY <2>2, <2>3, <2>6, <2>7
<1> QED BY <1>3, <1>4, <1>5, <1>6 DEF ListInv
(* A turn of SwapOut's loop takes the memory of the buffer it is for.      *)
LEMMA OutTurnListInv ==
  ASSUME ListInv, call.op = "out", call.next <= Len(call.entries),
         call' = [call EXCEPT !.next = @ + 1],
         UNCHANGED <<contexts_, client, out, manner>>,
         VmmPtrs' = VmmPtrs,
         \A q \in VmmPtrs :
           /\ entries_'[q].tag = entries_[q].tag
           /\ entries_'[q].size = entries_[q].size
           /\ Resident(q)' <=> Resident(q) /\ ~(Turn.is_vmm /\ q = Turn.original_ptr)
  PROVE  ListInv'
<1> PICK es, k, t0 : es = call.entries /\ k = call.next /\ t0 = call.tag
  OBVIOUS
<1>1. OutCall(call) /\ OutCall(call') /\ k \in Nat \ {0}
      /\ call'.op = "out" /\ call'.tag = t0 /\ call'.next = k + 1 /\ call'.entries = es
  <2>1. OutCall(call)
    BY CallShape DEF ListInv
  <2> QED BY <2>1 DEF OutCall
<1>2. /\ Stored' = Stored /\ Listed' = Listed
      /\ \A t : Entries(t)' = Entries(t)
  BY <1>1, ListsSame
<1>3. t0 \in Listed /\ t0 \notin Stored /\ Entries(t0) = es /\ ListOk(t0, es)
  <2>1. t0 \in Listed /\ Entries(t0) = es
    BY DEF Listed, Entries
  <2> QED BY <2>1 DEF ListInv, ListsInv, OutInv
<1>4. k \in DOMAIN es /\ DOMAIN es \subseteq Int /\ Turn = es[k]
  BY <1>1, <1>3, SeqFacts DEF ListOk, Turn
<1>5. /\ Owned(t0, es) /\ Len(contexts_) < kContexts
      /\ \A j \in DOMAIN es :
           es[j].is_vmm => /\ Resident(es[j].original_ptr) <=> j >= k
                           /\ es[j].data = client[es[j].original_ptr].data
      /\ \A p \in VmmPtrs :
           entries_[p].tag = t0 => \E j \in DOMAIN es : es[j].original_ptr = p
  BY DEF ListInv, OutInv
<1>6. CallType' /\ ContextsInv' /\ InInv'
  BY <1>1 DEF ListInv, CallType, ContextsInv, InInv
<1>7. ListsInv'
  BY <1>2 DEF ListInv, ListsInv
<1>8. AwayInv'
  <2> SUFFICES ASSUME NEW p \in VmmPtrs, ~Resident(p)'
               PROVE  (/\ entries_[p].tag \in Listed
                       /\ HasEntry(Entries(entries_[p].tag), p, client[p].data))'
    BY DEF AwayInv
  <2>1. PICK t : t = entries_[p].tag /\ t = entries_'[p].tag
    OBVIOUS
  <2>2. t \in Listed /\ HasEntry(Entries(t), p, client[p].data)
    <3>1. CASE ~Resident(p)
      BY <2>1, <3>1 DEF ListInv, AwayInv
    <3>2. CASE Resident(p)
      <4>1. es[k].is_vmm /\ p = es[k].original_ptr
        BY <1>4, <3>2
      <4>2. t = t0 /\ es[k].data = client[p].data
        BY <1>4, <1>5, <2>1, <4>1 DEF Owned
      <4> QED BY <1>3, <1>4, <4>1, <4>2 DEF HasEntry
    <3> QED BY <3>1, <3>2
  <2>3. t \in Listed' /\ HasEntry(Entries(t), p, client[p].data)'
    BY <1>2, <2>2 DEF HasEntry
  <2> QED BY <2>1, <2>3
<1>9. OutInv'
  <2>1. Owned(t0, es)'
    BY <1>5 DEF Owned
  <2>2. ASSUME NEW j \in DOMAIN es, es[j].is_vmm
        PROVE  Resident(es[j].original_ptr)' <=> j >= k + 1
    <3>1. es[j].original_ptr \in VmmPtrs /\ (Resident(es[j].original_ptr) <=> j >= k)
      BY <1>5, <2>2 DEF Owned
    <3>2. es[j].original_ptr = es[k].original_ptr <=> j = k
      BY <1>3, <1>4 DEF ListOk
    <3>3. Resident(es[j].original_ptr)' <=> j >= k /\ j # k
      BY <1>4, <2>2, <3>1, <3>2
    <3> QED BY <1>1, <1>4, <3>3
  <2> QED BY <1>1, <1>2, <1>3, <1>5, <2>1, <2>2 DEF OutInv
<1>10. WaitInv'
  <2> SUFFICES ASSUME NEW t \in out
               PROVE  (Owned(t, Entries(t)) /\ Awaits(Entries(t), Reach(t)))'
    BY <1>2 DEF WaitInv, ListInv
  <2>1. t # t0 /\ Owned(t, Entries(t)) /\ Awaits(Entries(t), Reach(t))
    BY <1>3 DEF WaitInv, ListInv
  <2>2. PICK l : l = Entries(t) /\ l = Entries(t)'
    BY <1>2
  <2>3. Reach(t) = 1 /\ Reach(t)' = 1
    BY <1>1 DEF Reach
  <2>4. Owned(t, l) /\ Awaits(l, 1)
    BY <2>1, <2>2, <2>3
  <2>5. \A j \in DOMAIN l :
          l[j].is_vmm => /\ l[j].original_ptr \in VmmPtrs
                         /\ Resident(l[j].original_ptr)' <=> Resident(l[j].original_ptr)
    BY <1>4, <1>5, <2>1, <2>4 DEF Owned
  <2>6. Owned(t, l)'
    BY <2>4 DEF Owned
  <2>7. Awaits(l, 1)'
    BY <2>4, <2>5 DEF Awaits, Gone
  <2> QED BY <2>2, <2>3, <2>6, <2>7
<1> QED BY <1>6, <1>7, <1>8, <1>9, <1>10 DEF ListInv
(* The list that SwapOut makes: every buffer of the tag once.              *)
HasSaved(es, tag) ==
  /\ IsSeq(es)
  /\ \A j \in DOMAIN es :
       es[j].original_ptr \in GetAllocationsByTag(tag) /\ es[j] = Saved(es[j].original_ptr)
  /\ \A i, j \in DOMAIN es : es[i].original_ptr = es[j].original_ptr => i = j
  /\ \A p \in GetAllocationsByTag(tag) : \E j \in DOMAIN es : es[j].original_ptr = p

LEMMA SavedFacts ==
  ASSUME IsFiniteSet(Ptrs), NEW tag,
         NEW order \in SetToSeqs(GetAllocationsByTag(tag))
  PROVE  HasSaved([i \in DOMAIN order |-> Saved(order[i])], tag)
<1> DEFINE G == GetAllocationsByTag(tag)
           n == Cardinality(G)
           es == [i \in DOMAIN order |-> Saved(order[i])]
<1>1. IsFiniteSet(G) /\ n \in Nat
  BY FS_Subset, FS_CardinalityType DEF GetAllocationsByTag
<1>2. order \in [1 .. n -> G] /\ \A i, j \in 1 .. n : i # j => order[i] # order[j]
  BY DEF SetToSeqs
<1> HIDE DEF G
<1>3. \A p \in G : \E i \in 1 .. n : order[i] = p
  <2>1. order \in Injection(1 .. n, G)
    BY <1>2 DEF Injection, IsInjective
  <2>2. IsFiniteSet(1 .. n) /\ Cardinality(1 .. n) = n
    BY <1>1, FS_Interval
  <2>3. order \in Surjection(1 .. n, G)
    BY <1>1, <2>1, <2>2, FS_Injection
  <2> QED BY <2>3 DEF Surjection
<1>4. DOMAIN es = 1 .. n /\ \A i \in 1 .. n : es[i] = Saved(order[i])
  BY <1>2
<1>5. \A p : Saved(p).original_ptr = p
  BY DEF Saved
<1>6. IsSeq(es)
  <2>1. es \in [1 .. n -> {Saved(p) : p \in G}]
    BY <1>2
  <2>2. es \in Seq({Saved(p) : p \in G})
    BY <1>1, <2>1, SeqDef
  <2> QED BY <2>2, OwnSeq
<1> HIDE DEF es
<1>7. HasSaved(es, tag)
  BY <1>2, <1>3, <1>4, <1>5, <1>6 DEF HasSaved, G
<1> QED BY <1>7 DEF es
(* A step that changes no buffer leaves what is away in its list.          *)
LEMMA AwaySame ==
  ASSUME AwayInv, UNCHANGED <<entries_, client>>, Listed \subseteq Listed',
         \A t \in Listed : Entries(t)' = Entries(t)
  PROVE  AwayInv'
<1> SUFFICES ASSUME NEW p \in VmmPtrs, ~Resident(p)
             PROVE  (/\ entries_[p].tag \in Listed
                     /\ HasEntry(Entries(entries_[p].tag), p, client[p].data))'
  BY DEF AwayInv, VmmPtrs, Ptrs, Resident
<1>1. PICK t : t = entries_[p].tag /\ t = entries_'[p].tag
  OBVIOUS
<1>2. t \in Listed /\ HasEntry(Entries(t), p, client[p].data)
  BY <1>1 DEF AwayInv
<1>3. t \in Listed' /\ HasEntry(Entries(t), p, client[p].data)'
  BY <1>2 DEF HasEntry
<1> QED BY <1>1, <1>3

LEMMA OutBeginsListInv ==
  ASSUME ListInv, AInv, Holds, TagsInv, IsFiniteSet(Ptrs), manner # "again",
         NEW tag, ClientSwapOut(tag)
  PROVE  ListInv'
<1>1. /\ AtRest /\ tag \notin out /\ Len(contexts_) < kContexts /\ tag \notin Stored
      /\ \A p \in GetAllocationsByTag(tag) : Resident(p)
      /\ UNCHANGED <<gpu, va_held, entries_, live_bytes, alive, contexts_, client, out, manner>>
  BY DEF ClientSwapOut, SwapOut, allocatorVars, Stored
<1>2. PICK order \in SetToSeqs(GetAllocationsByTag(tag)) :
        call' = [op |-> "out", tag |-> tag, next |-> 1,
                 entries |-> [i \in DOMAIN order |-> Saved(order[i])]]
  BY DEF ClientSwapOut, SwapOut
<1>3. PICK es : es = [i \in DOMAIN order |-> Saved(order[i])]
  OBVIOUS
<1>4. HasSaved(es, tag)
  BY <1>3, SavedFacts
<1>5. /\ call' = [op |-> "out", tag |-> tag, next |-> 1, entries |-> es]
      /\ call'.op = "out" /\ call'.tag = tag /\ call'.next = 1 /\ call'.entries = es
  BY <1>2, <1>3
<1>6. call.op # "out" /\ call.op # "in"
  BY <1>1, CallShape DEF ListInv
<1>7. /\ Stored' = Stored /\ Listed = Stored /\ Listed' = Stored \cup {tag}
      /\ \A t \in Listed : Entries(t)' = Entries(t)
      /\ Entries(tag)' = es
  BY <1>1, <1>5, <1>6, ListsBegun
<1>8. \A j \in DOMAIN es :
        LET p == es[j].original_ptr
        IN /\ p \in Ptrs /\ entries_[p].tag = tag /\ Resident(p)
           /\ es[j].size = entries_[p].size /\ es[j].is_vmm = entries_[p].is_vmm
           /\ es[j].data = Contents(gpu, p)
  <2> SUFFICES ASSUME NEW j \in DOMAIN es, NEW p, p = es[j].original_ptr
               PROVE  /\ p \in Ptrs /\ entries_[p].tag = tag /\ Resident(p)
                      /\ es[j].size = entries_[p].size /\ es[j].is_vmm = entries_[p].is_vmm
                      /\ es[j].data = Contents(gpu, p)
    OBVIOUS
  <2>1. p \in GetAllocationsByTag(tag) /\ es[j] = Saved(p)
    BY <1>4 DEF HasSaved
  <2> QED BY <1>1, <2>1 DEF Saved, GetAllocationsByTag
<1>9. CallType' /\ ContextsInv' /\ InInv'
  BY <1>1, <1>5 DEF CallType, OutCall, ListInv, ContextsInv, InInv
<1>10. ListOk(tag, es)
  <2> SUFFICES ASSUME NEW j \in DOMAIN es
               PROVE  /\ es[j].original_ptr \in Pointers
                      /\ es[j].size \in Sizes
                      /\ es[j].is_vmm \in BOOLEAN
                      /\ es[j].is_vmm <=> es[j].original_ptr \in Vas
                      /\ es[j].is_vmm <=> tag # FallbackTag
    BY <1>4 DEF ListOk, HasSaved
  <2>1. PICK p \in Ptrs : /\ p = es[j].original_ptr /\ entries_[p].tag = tag
                          /\ es[j].size = entries_[p].size
                          /\ es[j].is_vmm = entries_[p].is_vmm
    BY <1>8
  <2>2. p \in Pointers /\ (entries_[p].is_vmm <=> tag # FallbackTag)
    BY <2>1 DEF AInv, TypeOK, TagsInv
  <2> QED BY <2>1, <2>2, EntryFacts
<1>11. ListsInv'
  <2> SUFFICES ASSUME NEW t \in Listed' PROVE ListOk(t, Entries(t))'
    BY DEF ListsInv
  <2>1. CASE t = tag
    BY <1>7, <1>10, <2>1 DEF ListOk
  <2>2. CASE t # tag
    <3>1. PICK l : l = Entries(t) /\ l = Entries(t)'
      BY <1>7, <2>2
    <3>2. ListOk(t, l)
      BY <1>7, <2>2, <3>1 DEF ListInv, ListsInv
    <3> QED BY <3>1, <3>2 DEF ListOk
  <2> QED BY <2>1, <2>2
<1>12. AwayInv'
  BY <1>1, <1>7, AwaySame DEF ListInv
<1>13. OutInv'
  <2>1. Owned(tag, es)'
    BY <1>1, <1>8 DEF Owned, VmmPtrs, Ptrs
  <2>2. ASSUME NEW j \in DOMAIN es, es[j].is_vmm
        PROVE  /\ Resident(es[j].original_ptr)' <=> j >= 1
               /\ es[j].data = client[es[j].original_ptr].data
    <3>1. es[j].original_ptr \in VmmPtrs /\ Resident(es[j].original_ptr)
      BY <1>8, <2>2 DEF VmmPtrs
    <3>2. es[j].data = client[es[j].original_ptr].data
      BY <1>8, <3>1 DEF Holds
    <3>3. Resident(es[j].original_ptr)' /\ j >= 1
      BY <1>1, <1>4, <3>1, SeqFacts DEF Resident, HasSaved
    <3> QED BY <3>2, <3>3
  <2>3. \A p \in VmmPtrs' :
          entries_'[p].tag = tag => \E j \in DOMAIN es : es[j].original_ptr = p
    BY <1>1, <1>4 DEF HasSaved, GetAllocationsByTag, VmmPtrs, Ptrs
  <2> QED BY <1>1, <1>5, <1>7, <2>1, <2>2, <2>3 DEF OutInv
<1>14. WaitInv'
  <2> SUFFICES ASSUME NEW t \in out
               PROVE  (Owned(t, Entries(t)) /\ Awaits(Entries(t), Reach(t)))'
    BY <1>1, <1>7 DEF WaitInv, ListInv
  <2>1. Owned(t, Entries(t)) /\ Awaits(Entries(t), Reach(t)) /\ t \in Listed
    BY <1>7 DEF WaitInv, ListInv
  <2>2. PICK l : l = Entries(t) /\ l = Entries(t)'
    BY <1>7, <2>1
  <2>3. Reach(t) = 1 /\ Reach(t)' = 1
    BY <1>5, <1>6 DEF Reach
  <2>4. Owned(t, l) /\ Awaits(l, 1)
    BY <2>1, <2>2, <2>3
  <2>5. Owned(t, l)' /\ Awaits(l, 1)'
    BY <1>1, <2>4 DEF Owned, Awaits, Gone, Resident, VmmPtrs, Ptrs
  <2> QED BY <2>2, <2>3, <2>5
<1> QED BY <1>9, <1>11, <1>12, <1>13, <1>14 DEF ListInv

LEMMA OutStoresListInv ==
  ASSUME ListInv, SwapOutStore
  PROVE  ListInv'
<1> PICK es, t0 : es = call.entries /\ t0 = call.tag
  OBVIOUS
<1>1. /\ call.op = "out" /\ call.next > Len(es) /\ call' = Idle /\ out' = out \cup {t0}
      /\ contexts_' = Append(contexts_, [tag |-> call.tag, entries |-> call.entries])
      /\ UNCHANGED <<entries_, client, manner>>
  BY DEF SwapOutStore, allocatorVars
<1>2. call'.op # "out" /\ call'.op # "in" /\ AtRest'
  BY <1>1 DEF Idle, AtRest
<1>3. t0 \notin Stored /\ t0 \in Listed /\ Entries(t0) = es
  BY <1>1 DEF ListInv, OutInv, Listed, Entries
<1>4. /\ ContextsInv' /\ Stored' = Listed /\ Listed' = Listed
      /\ \A t \in Listed : Entries(t)' = Entries(t)
  BY <1>1, <1>3, ListsStored DEF ListInv
<1>5. CallType' /\ InInv' /\ OutInv'
  BY <1>2 DEF CallType, InInv, OutInv
<1>6. ListsInv'
  BY <1>4 DEF ListInv, ListsInv
<1>7. AwayInv'
  BY <1>1, <1>4, AwaySame DEF ListInv
<1>8. WaitInv'
  <2> SUFFICES ASSUME NEW t \in out'
               PROVE  (Owned(t, Entries(t)) /\ Awaits(Entries(t), Reach(t)))'
    BY <1>1, <1>3, <1>4 DEF WaitInv, ListInv, Listed
  <2>1. t \in Listed
    BY <1>1, <1>3 DEF WaitInv, ListInv, Listed
  <2>2. PICK l : l = Entries(t) /\ l = Entries(t)'
    BY <1>4, <2>1
  <2>3. Reach(t) = 1 /\ Reach(t)' = 1
    BY <1>1, <1>2 DEF Reach
  <2>4. Owned(t, l) /\ Awaits(l, 1)
    <3>1. CASE t = t0
      <4>1. /\ Owned(t0, es) /\ OutCall(call)
            /\ \A j \in DOMAIN es :
                 es[j].is_vmm => (Resident(es[j].original_ptr) <=> j >= call.next)
        BY <1>1, CallShape DEF ListInv, OutInv
      <4>2. ListOk(t0, es) /\ Len(es) \in Nat /\ DOMAIN es = 1 .. Len(es)
        BY <1>3, SeqFacts DEF ListInv, ListsInv, ListOk
      <4>3. \A j \in DOMAIN es : es[j].is_vmm => Gone(es, j)
        BY <1>1, <4>1, <4>2 DEF Gone, OutCall
      <4> QED BY <1>3, <2>2, <3>1, <4>1, <4>3 DEF Awaits
    <3>2. CASE t \in out
      BY <2>2, <2>3, <3>2 DEF WaitInv, ListInv
    <3> QED BY <1>1, <3>1, <3>2
  <2>5. Owned(t, l)' /\ Awaits(l, 1)'
    BY <1>1, <2>4 DEF Owned, Awaits, Gone, Resident, VmmPtrs, Ptrs
  <2> QED BY <2>2, <2>3, <2>5
<1> QED BY <1>4, <1>5, <1>6, <1>7, <1>8 DEF ListInv
(* SwapOut throws: its list is lost, which is not one of VMM buffers.      *)
LEMMA OutThrowsListInv ==
  ASSUME ListInv, call.op = "out", call' = Thrown,
         UNCHANGED <<entries_, contexts_, client, out, manner>>,
         \A p \in VmmPtrs : entries_[p].tag # call.tag
  PROVE  ListInv'
<1>1. call'.op # "in" /\ call'.op # "out" /\ AtRest'
  BY DEF Thrown, AtRest
<1>2. call.tag \notin Stored /\ Stored' = Stored /\ Listed' = Stored
      /\ Listed = Stored \cup {call.tag}
  BY <1>1 DEF Stored, Listed, ListInv, OutInv
<1>3. ASSUME NEW t \in Stored PROVE Entries(t)' = Entries(t)
  BY <1>1, <1>2, <1>3 DEF Entries, Found
<1>4. CallType' /\ ContextsInv' /\ OutInv' /\ InInv'
  BY <1>1 DEF ListInv, CallType, ContextsInv, OutInv, InInv
<1>5. ListsInv'
  <2> SUFFICES ASSUME NEW t \in Stored PROVE ListOk(t, Entries(t))'
    BY <1>2 DEF ListsInv
  <2>1. PICK l : l = Entries(t) /\ l = Entries(t)'
    BY <1>3
  <2>2. ListOk(t, l)
    BY <1>2, <2>1 DEF ListInv, ListsInv
  <2> QED BY <2>1, <2>2 DEF ListOk
<1>6. AwayInv'
  <2> SUFFICES ASSUME NEW p \in VmmPtrs, ~Resident(p)
               PROVE  (/\ entries_[p].tag \in Listed
                       /\ HasEntry(Entries(entries_[p].tag), p, client[p].data))'
    BY DEF AwayInv, VmmPtrs, Ptrs, Resident
  <2>1. PICK t : t = entries_[p].tag /\ t = entries_'[p].tag
    OBVIOUS
  <2>2. t \in Stored /\ HasEntry(Entries(t), p, client[p].data)
    BY <1>2, <2>1 DEF ListInv, AwayInv
  <2>3. t \in Listed' /\ HasEntry(Entries(t), p, client[p].data)'
    BY <1>2, <1>3, <2>2 DEF HasEntry
  <2> QED BY <2>1, <2>3
<1>7. WaitInv'
  <2> SUFFICES ASSUME NEW t \in out
               PROVE  (Owned(t, Entries(t)) /\ Awaits(Entries(t), Reach(t)))'
    BY <1>2 DEF WaitInv, ListInv
  <2>1. PICK l : l = Entries(t) /\ l = Entries(t)'
    BY <1>3 DEF WaitInv, ListInv
  <2>2. Reach(t) = 1 /\ Reach(t)' = 1
    BY <1>1 DEF Reach
  <2>3. Owned(t, l) /\ Awaits(l, 1)
    BY <2>1, <2>2 DEF WaitInv, ListInv
  <2>4. Owned(t, l)' /\ Awaits(l, 1)'
    BY <2>3 DEF Owned, Awaits, Gone, Resident, VmmPtrs, Ptrs
  <2> QED BY <2>1, <2>2, <2>4
<1> QED BY <1>4, <1>5, <1>6, <1>7 DEF ListInv

LEMMA InBeginsListInv ==
  ASSUME ListInv, NEW tag, ClientSwapIn(tag)
  PROVE  ListInv'
<1>1. /\ AtRest /\ tag \in out
      /\ UNCHANGED <<entries_, contexts_, client, out, manner>>
  BY DEF ClientSwapIn, SwapIn, allocatorVars
<1>2. PICK i \in DOMAIN contexts_ :
        /\ Found(tag, i)
        /\ call' = [op |-> "in", tag |-> tag, next |-> 1, copy |-> NoPtr,
                    entries |-> contexts_[i].entries]
  BY DEF ClientSwapIn, SwapIn
<1>3. /\ call'.op = "in" /\ call'.tag = tag /\ call'.next = 1 /\ call'.copy = NoPtr
      /\ call'.entries = contexts_[i].entries
  BY <1>2
<1>4. call.op # "out" /\ call.op # "in"
  BY <1>1, CallShape DEF ListInv
<1>5. /\ Stored' = Stored /\ Listed' = Listed
      /\ \A t : Entries(t)' = Entries(t)
  BY <1>1, <1>3, <1>4, ListsSame
<1>6. Entries(tag) = contexts_[i].entries
  BY <1>2, <1>4, FoundEntries DEF Found, ListInv
<1>7. CallType' /\ ContextsInv' /\ OutInv'
  BY <1>1, <1>2, <1>3 DEF ListInv, CallType, InCall, ContextsInv, OutInv
<1>8. ListsInv'
  BY <1>5 DEF ListInv, ListsInv
<1>9. AwayInv'
  BY <1>1, <1>5, AwaySame DEF ListInv
<1>10. InInv'
  <2>1. PICK es : es = contexts_[i].entries /\ es = Entries(tag)'
    BY <1>5, <1>6
  <2>2. ListOk(tag, es)
    <3>1. tag \in Listed
      BY <1>2 DEF Found, Listed, Stored
    <3> QED BY <1>6, <2>1, <3>1 DEF ListInv, ListsInv
  <2>3. \A j \in DOMAIN es : ~(j < 1)
    BY <2>2, SeqFacts DEF ListOk
  <2> QED BY <1>1, <1>3, <2>1, <2>3 DEF InInv
<1>11. WaitInv'
  <2> SUFFICES ASSUME NEW t \in out
               PROVE  (Owned(t, Entries(t)) /\ Awaits(Entries(t), Reach(t)))'
    BY <1>1, <1>5 DEF WaitInv, ListInv
  <2>1. PICK l : l = Entries(t) /\ l = Entries(t)'
    BY <1>5
  <2>2. Reach(t) = 1 /\ Reach(t)' = 1
    BY <1>3, <1>4 DEF Reach
  <2>3. Owned(t, l) /\ Awaits(l, 1)
    BY <2>1, <2>2 DEF WaitInv, ListInv
  <2>4. Owned(t, l)' /\ Awaits(l, 1)'
    BY <1>1, <2>3 DEF Owned, Awaits, Gone, Resident, VmmPtrs, Ptrs
  <2> QED BY <2>1, <2>2, <2>4
<1> QED BY <1>7, <1>8, <1>9, <1>10, <1>11 DEF ListInv
(* A turn of SwapIn's loop gives the buffer it is for its memory back, if  *)
(* that is a VMM buffer.                                                   *)
LEMMA InTurnListInv ==
  ASSUME ListInv, call.op = "in", call.next <= Len(call.entries),
         call' = [op |-> "in", tag |-> call.tag, next |-> call.next + 1,
                  copy |-> NoPtr, entries |-> call.entries],
         UNCHANGED <<contexts_, client, out, manner>>,
         VmmPtrs' = VmmPtrs,
         Turn.is_vmm => ~Resident(Turn.original_ptr),
         \A q \in VmmPtrs :
           /\ entries_'[q].tag = entries_[q].tag
           /\ entries_'[q].size = entries_[q].size
           /\ Resident(q)' <=> Resident(q) \/ (Turn.is_vmm /\ q = Turn.original_ptr)
  PROVE  ListInv'
<1> PICK es, k, t0 : es = call.entries /\ k = call.next /\ t0 = call.tag
  OBVIOUS
<1>1. /\ call'.op = "in" /\ call'.tag = t0 /\ call'.next = k + 1
      /\ call'.copy = NoPtr /\ call'.entries = es
  OBVIOUS
<1>2. k \in Nat \ {0} /\ InCall(call')
  <2>1. InCall(call)
    BY CallShape DEF ListInv
  <2> QED BY <1>1, <2>1 DEF InCall
<1>3. /\ Stored' = Stored /\ Listed' = Listed
      /\ \A t : Entries(t)' = Entries(t)
  BY <1>1, ListsSame
<1>4. t0 \in out /\ t0 \in Listed /\ Entries(t0) = es /\ ListOk(t0, es)
  <2>1. t0 \in out /\ Entries(t0) = es
    BY DEF ListInv, InInv
  <2>2. t0 \in Listed
    BY <2>1 DEF ListInv, WaitInv, Listed
  <2> QED BY <2>1, <2>2 DEF ListInv, ListsInv
<1>5. k \in DOMAIN es /\ DOMAIN es \subseteq Int /\ Turn = es[k]
  BY <1>2, <1>4, SeqFacts DEF ListOk, Turn
<1>6. /\ Owned(t0, es) /\ Awaits(es, k)
      /\ \A j \in DOMAIN es :
           es[j].is_vmm /\ j < k => Resident(es[j].original_ptr)
  BY <1>4 DEF ListInv, InInv, WaitInv, Reach
<1>7. CallType' /\ ContextsInv' /\ OutInv'
  BY <1>1, <1>2 DEF ListInv, CallType, ContextsInv, OutInv
<1>8. ListsInv'
  BY <1>3 DEF ListInv, ListsInv
<1>9. AwayInv'
  <2> SUFFICES ASSUME NEW p \in VmmPtrs, ~Resident(p)'
               PROVE  (/\ entries_[p].tag \in Listed
                       /\ HasEntry(Entries(entries_[p].tag), p, client[p].data))'
    BY DEF AwayInv
  <2>1. PICK t : t = entries_[p].tag /\ t = entries_'[p].tag
    OBVIOUS
  <2>2. t \in Listed /\ HasEntry(Entries(t), p, client[p].data)
    BY <2>1 DEF ListInv, AwayInv
  <2>3. t \in Listed' /\ HasEntry(Entries(t), p, client[p].data)'
    BY <1>3, <2>2 DEF HasEntry
  <2> QED BY <2>1, <2>3
<1>10. InInv'
  <2>1. ASSUME NEW j \in DOMAIN es, es[j].is_vmm, j < k + 1
        PROVE  Resident(es[j].original_ptr)'
    BY <1>2, <1>5, <1>6, <2>1 DEF Owned
  <2>2. PICK l : l = Entries(t0)' /\ l = es
    BY <1>3, <1>4
  <2> QED BY <1>1, <1>4, <2>1, <2>2 DEF InInv
<1>11. WaitInv'
  <2> SUFFICES ASSUME NEW t \in out
               PROVE  (Owned(t, Entries(t)) /\ Awaits(Entries(t), Reach(t)))'
    BY <1>3 DEF WaitInv, ListInv
  <2>1. PICK l : l = Entries(t) /\ l = Entries(t)'
    BY <1>3
  <2>2. Owned(t, l) /\ Awaits(l, Reach(t))
    BY <2>1 DEF WaitInv, ListInv
  <2>3. Owned(t, l)'
    BY <2>2 DEF Owned
  <2>4. CASE t # t0
    <3>1. Reach(t) = 1 /\ Reach(t)' = 1
      BY <1>1, <2>4 DEF Reach
    <3>2. \A j \in DOMAIN l :
            l[j].is_vmm => (Resident(l[j].original_ptr)' <=> Resident(l[j].original_ptr))
      BY <1>5, <1>6, <2>2, <2>4 DEF Owned
    <3>3. Awaits(l, 1)
      BY <2>2, <3>1
    <3>4. Awaits(l, 1)'
      BY <3>2, <3>3 DEF Awaits, Gone
    <3> QED BY <2>1, <2>3, <3>1, <3>4
  <2>5. CASE t = t0
    <3>1. l = es /\ Reach(t)' = k + 1
      BY <1>1, <1>4, <2>1, <2>5 DEF Reach
    <3>2. ASSUME NEW j \in DOMAIN es
          PROVE  Gone(es, j)' <=> Gone(es, j) /\ ~(j = k /\ es[k].is_vmm)
      BY <1>4, <1>5, <1>6 DEF Gone, Owned, ListOk
    <3>3. es[k].is_vmm \in BOOLEAN /\ (es[k].is_vmm => Gone(es, k))
      BY <1>4, <1>5 DEF ListOk, Gone
    <3>4. \A i \in DOMAIN es : Gone(es, i) => es[i].is_vmm /\ i >= k
      BY <1>2, <1>5, <1>6 DEF Gone
    <3>5. Awaits(es, k + 1)'
      <4>1. ASSUME NEW i \in DOMAIN es, NEW j \in DOMAIN es, i < j, es[j].is_vmm, Gone(es, i)'
            PROVE  Gone(es, j)'
        BY <1>2, <1>5, <1>6, <3>2, <3>4, <4>1 DEF Awaits
      <4>2. ASSUME NEW j \in DOMAIN es, es[j].is_vmm, j >= k + 1
            PROVE  \E i \in DOMAIN es : i >= k + 1 /\ Gone(es, i)'
        <5>1. CASE es[k].is_vmm
          BY <1>2, <1>5, <1>6, <3>2, <3>3, <4>2, <5>1 DEF Awaits
        <5>2. CASE ~es[k].is_vmm
          BY <1>2, <1>5, <1>6, <3>2, <3>4, <4>2, <5>2 DEF Awaits
        <5> QED BY <3>3, <5>1, <5>2
      <4>3. ASSUME manner = "once", NEW j \in DOMAIN es, es[j].is_vmm, j >= k + 1
            PROVE  Gone(es, j)'
        BY <1>2, <1>5, <1>6, <3>2, <4>3 DEF Awaits
      <4> QED BY <4>1, <4>2, <4>3 DEF Awaits
    <3> QED BY <2>1, <2>3, <3>1, <3>5
  <2> QED BY <2>4, <2>5
<1> QED BY <1>7, <1>8, <1>9, <1>10, <1>11 DEF ListInv
(* Allocate for a fallback buffer changes no list and no VMM buffer.       *)
LEMMA InReallocatesListInv ==
  ASSUME ListInv, InTurn, ~Turn.is_vmm,
         NEW ptr \in Linears, call' = [call EXCEPT !.copy = ptr],
         UNCHANGED <<contexts_, client, out, manner>>,
         VmmPtrs' = VmmPtrs,
         \A q \in VmmPtrs : entries_'[q] = entries_[q]
  PROVE  ListInv'
<1>1. call.op = "in" /\ InCall(call) /\ call.next <= Len(call.entries)
  BY CallShape DEF InTurn, ListInv
<1>2. /\ call'.op = "in" /\ call'.tag = call.tag /\ call'.next = call.next
      /\ call'.copy = ptr /\ call'.entries = call.entries /\ InCall(call')
  BY <1>1 DEF InCall
<1>3. /\ Stored' = Stored /\ Listed' = Listed
      /\ \A t : Entries(t)' = Entries(t)
  BY <1>1, <1>2, ListsSame
<1>4. CallType' /\ ContextsInv' /\ OutInv'
  BY <1>2 DEF ListInv, CallType, ContextsInv, OutInv
<1>5. ListsInv'
  BY <1>3 DEF ListInv, ListsInv
<1>6. AwayInv'
  <2> SUFFICES ASSUME NEW p \in VmmPtrs, ~Resident(p)
               PROVE  (/\ entries_[p].tag \in Listed
                       /\ HasEntry(Entries(entries_[p].tag), p, client[p].data))'
    BY DEF AwayInv, Resident
  <2>1. PICK t : t = entries_[p].tag /\ t = entries_'[p].tag
    OBVIOUS
  <2>2. t \in Listed /\ HasEntry(Entries(t), p, client[p].data)
    BY <2>1 DEF ListInv, AwayInv
  <2>3. t \in Listed' /\ HasEntry(Entries(t), p, client[p].data)'
    BY <1>3, <2>2 DEF HasEntry
  <2> QED BY <2>1, <2>3
<1>7. InInv'
  <2>1. PICK es, k, t0 : es = call.entries /\ k = call.next /\ t0 = call.tag
    OBVIOUS
  <2>2. /\ t0 \in out /\ es = Entries(t0) /\ Owned(t0, es)
        /\ \A j \in DOMAIN es : es[j].is_vmm /\ j < k => Resident(es[j].original_ptr)
    BY <1>1, <2>1 DEF ListInv, InInv, WaitInv
  <2>3. es = Entries(t0)'
    BY <1>3, <2>2
  <2>4. \A j \in DOMAIN es : es[j].is_vmm /\ j < k => Resident(es[j].original_ptr)'
    BY <2>2 DEF Owned, Resident
  <2>5. k <= Len(es) /\ ~es[k].is_vmm
    BY <1>1, <2>1 DEF Turn
  <2> QED BY <1>2, <2>1, <2>2, <2>3, <2>4, <2>5 DEF InInv
<1>8. WaitInv'
  <2> SUFFICES ASSUME NEW t \in out
               PROVE  (Owned(t, Entries(t)) /\ Awaits(Entries(t), Reach(t)))'
    BY <1>3 DEF WaitInv, ListInv
  <2>1. PICK l : l = Entries(t) /\ l = Entries(t)'
    BY <1>3
  <2>2. PICK k : k = Reach(t) /\ k = Reach(t)'
    BY <1>1, <1>2 DEF Reach
  <2>3. Owned(t, l) /\ Awaits(l, k)
    BY <2>1, <2>2 DEF WaitInv, ListInv
  <2>4. Owned(t, l)'
    BY <2>3 DEF Owned
  <2>5. Awaits(l, k)'
    BY <2>3 DEF Owned, Awaits, Gone, Resident
  <2> QED BY <2>1, <2>2, <2>4, <2>5
<1> QED BY <1>4, <1>5, <1>6, <1>7, <1>8 DEF ListInv

(* SwapIn returns, or it throws; the client that keeps the tag then for    *)
(* another try is not the one that swaps each tag in once.                 *)
LEMMA InEndsListInv ==
  ASSUME ListInv, call.op = "in", call' \in {Idle, Thrown},
         UNCHANGED <<entries_, contexts_, client, manner>>,
         \/ out' = out \ {call.tag}
         \/ out' = out /\ manner # "once" /\ call.next <= Len(call.entries)
  PROVE  ListInv'
<1>1. call'.op # "in" /\ call'.op # "out" /\ AtRest'
  BY DEF Idle, Thrown, AtRest
<1>2. /\ Stored' = Stored /\ Listed' = Listed
      /\ \A t : Entries(t)' = Entries(t)
  BY <1>1, ListsSame
<1>3. CallType' /\ ContextsInv' /\ OutInv' /\ InInv'
  BY <1>1 DEF ListInv, CallType, ContextsInv, OutInv, InInv
<1>4. ListsInv'
  BY <1>2 DEF ListInv, ListsInv
<1>5. AwayInv'
  BY <1>2, AwaySame DEF ListInv
<1>6. WaitInv'
  <2> SUFFICES ASSUME NEW t \in out'
               PROVE  (Owned(t, Entries(t)) /\ Awaits(Entries(t), Reach(t)))'
    BY <1>2 DEF WaitInv, ListInv
  <2>1. t \in out
    OBVIOUS
  <2>2. PICK l : l = Entries(t) /\ l = Entries(t)'
    BY <1>2
  <2>3. Owned(t, l) /\ Awaits(l, Reach(t)) /\ Reach(t)' = 1
    BY <1>1, <2>1, <2>2 DEF WaitInv, ListInv, Reach
  <2>4. Awaits(l, 1)
    <3>1. CASE t # call.tag
      BY <2>3, <3>1 DEF Reach
    <3>2. CASE t = call.tag
      <4> PICK k : k = call.next
        OBVIOUS
      <4>1. manner # "once" /\ k <= Len(l) /\ k \in Nat \ {0} /\ Reach(t) = k
        <5>1. InCall(call) /\ l = call.entries
          BY <2>2, <3>2, CallShape DEF ListInv, InInv
        <5> QED BY <3>2, <5>1 DEF InCall, Reach
      <4>2. ListOk(t, l)
        BY <2>1, <2>2 DEF ListInv, ListsInv, WaitInv, Listed
      <4>3. k \in DOMAIN l /\ DOMAIN l \subseteq Int /\ DOMAIN l = 1 .. Len(l)
        BY <4>1, <4>2, SeqFacts DEF ListOk
      <4>4. CASE l[k].is_vmm
        <5>1. \E i \in DOMAIN l : i >= 1 /\ Gone(l, i)
          BY <2>3, <4>1, <4>3, <4>4 DEF Awaits
        <5> QED BY <2>3, <4>1, <5>1 DEF Awaits
      <4>5. CASE ~l[k].is_vmm
        <5>1. \A j \in DOMAIN l : ~l[j].is_vmm
          BY <4>2, <4>3, <4>5 DEF ListOk
        <5> QED BY <5>1 DEF Awaits
      <4> QED BY <4>4, <4>5
    <3> QED BY <3>1, <3>2
  <2>5. Owned(t, l)' /\ Awaits(l, 1)'
    BY <2>3, <2>4 DEF Owned, Awaits, Gone, Resident, VmmPtrs, Ptrs
  <2> QED BY <2>2, <2>3, <2>5
<1> QED BY <1>3, <1>4, <1>5, <1>6 DEF ListInv
-----------------------------------------------------------------------------
(* The steps of the client and of the calls, and the memory.               *)

LEMMA InitMemoryInv == SwapInit => MemoryInv
<1> SUFFICES ASSUME SwapInit PROVE MemoryInv
  OBVIOUS
<1>1. Init /\ AInv /\ Mirrored
  BY InitAInv, InitMirrored DEF SwapInit
<1>2. gpu.maps = << >> /\ Ptrs = {} /\ VmmPtrs = {} /\ DOMAIN << >> = {}
  BY <1>1 DEF Init, NoMemory, Ptrs, VmmPtrs
<1>3. IsFiniteSet(Ptrs)
  BY <1>2, FS_EmptySet
<1> QED BY <1>1, <1>2, <1>3 DEF MemoryInv, Unshared, Holds, TagsInv

(* The contents of a buffer that a step does not touch.                    *)
LEMMA StillHolds ==
  ASSUME MemoryInv, AInv', Mirrored', KeepsContents,
         NEW p \in VmmPtrs, p \in VmmPtrs', Resident(p), entries_'[p] = entries_[p]
  PROVE  Contents(gpu', p) = client[p].data
<1>1. Contents(gpu', p) = Contents(gpu, p)
  BY ContentsKept DEF MemoryInv, VmmPtrs
<1> QED BY <1>1 DEF MemoryInv, Holds

LEMMA AllocateVmmMemoryInv ==
  ASSUME MemoryInv, NEW bytes \in Sizes, NEW tag \in Tags, NEW va, NEW h,
         AllocateVmm(bytes, tag, va, h),
         client' = Put(client, va, [tag |-> tag, data |-> Garbage]), manner' = manner
  PROVE  MemoryInv'
<1>1. AInv' /\ Mirrored' /\ KeepsContents
  BY AllocateVmmAInv, AllocateVmmMirrored, AllocateVmmContents DEF MemoryInv
<1>2. HasAllocated(bytes, tag, va, h)
  BY AllocateVmmFacts DEF MemoryInv
<1>3. /\ Ptrs' = Ptrs \cup {va} /\ va \notin Ptrs /\ VmmPtrs' = VmmPtrs \cup {va}
      /\ \A p \in Ptrs : entries_'[p] = entries_[p]
  BY <1>2 DEF HasAllocated, Ptrs, VmmPtrs
<1>4. /\ DOMAIN client' = DOMAIN client \cup {va} /\ client'[va].data = Garbage
      /\ \A p \in DOMAIN client : p # va => client'[p] = client[p]
  BY DEF Put
<1>5. Unshared'
  <2>1. \A x \in DOMAIN gpu.maps : gpu.maps[x].handle \in DOMAIN gpu.mem
    BY DEF MemoryInv, AInv, WellFormed
  <2> QED BY <1>2, <2>1 DEF HasAllocated, MemoryInv, Unshared
<1>6. Holds'
  <2>1. Contents(gpu', va) = Garbage
    BY <1>2 DEF HasAllocated, Contents, Accessible
  <2>2. ASSUME NEW p \in VmmPtrs
        PROVE  p \in DOMAIN client' /\ (Resident(p)' => Contents(gpu', p) = client'[p].data)
    <3>1. p \in DOMAIN client /\ p # va /\ entries_'[p] = entries_[p] /\ p \in VmmPtrs'
      BY <1>3 DEF MemoryInv, Holds, VmmPtrs
    <3> QED BY <1>1, <1>4, <3>1, StillHolds DEF Resident
  <2> QED BY <1>3, <1>4, <2>1, <2>2 DEF Holds
<1>7. IsFiniteSet(Ptrs')
  BY <1>3, FS_AddElement DEF MemoryInv
<1>8. TagsInv'
  <2>1. entries_'[va].is_vmm /\ entries_'[va].tag # FallbackTag
    BY <1>2, FallbackTagAssumption DEF HasAllocated
  <2> QED BY <1>3, <2>1 DEF MemoryInv, TagsInv
<1> QED BY <1>1, <1>5, <1>6, <1>7, <1>8 DEF MemoryInv

LEMMA AllocateFallbackMemoryInv ==
  ASSUME MemoryInv, NEW bytes \in Sizes, NEW ptr \in Linears, AllocateFallback(bytes, ptr),
         \A p \in VmmPtrs : p \in DOMAIN client' /\ client'[p].data = client[p].data,
         manner' = manner
  PROVE  /\ MemoryInv' /\ VmmPtrs' = VmmPtrs
         /\ \A p \in VmmPtrs : entries_'[p] = entries_[p]
<1>1. AInv' /\ Mirrored' /\ KeepsContents
  BY AllocateFallbackAInv, AllocateFallbackMirrored, AllocateFallbackContents DEF MemoryInv
<1>2. HasFallback(bytes, ptr)
  BY AllocateFallbackFacts DEF MemoryInv
<1>3. /\ Ptrs' = Ptrs \cup {ptr} /\ VmmPtrs' = VmmPtrs /\ gpu'.maps = gpu.maps
      /\ \A p \in Ptrs : entries_'[p] = entries_[p]
  BY <1>2 DEF HasFallback, VmmPtrs
<1>4. Unshared'
  BY <1>3 DEF MemoryInv, Unshared
<1>5. Holds'
  <2> SUFFICES ASSUME NEW p \in VmmPtrs
               PROVE  p \in DOMAIN client' /\ (Resident(p)' => Contents(gpu', p) = client'[p].data)
    BY <1>3 DEF Holds
  <2>1. p \in VmmPtrs' /\ entries_'[p] = entries_[p]
    BY <1>3 DEF VmmPtrs
  <2> QED BY <1>1, <2>1, StillHolds DEF Resident
<1>6. IsFiniteSet(Ptrs')
  BY <1>3, FS_AddElement DEF MemoryInv
<1>7. TagsInv'
  <2>1. ~entries_'[ptr].is_vmm /\ entries_'[ptr].tag = FallbackTag
    BY <1>2 DEF HasFallback, FallbackEntry
  <2> QED BY <1>3, <2>1 DEF MemoryInv, TagsInv
<1> QED BY <1>1, <1>3, <1>4, <1>5, <1>6, <1>7 DEF MemoryInv, VmmPtrs

(* Nothing happens to the buffers.                                         *)
LEMMA SameMemoryInv ==
  ASSUME MemoryInv, AInv', UNCHANGED <<gpu, entries_, client, manner>>
  PROVE  MemoryInv'
<1>1. Mirrored' /\ Unshared' /\ Holds'
  BY SameMirrored DEF MemoryInv, Unshared, Holds, VmmPtrs, Ptrs, Resident
<1>2. IsFiniteSet(Ptrs') /\ TagsInv'
  BY DEF MemoryInv, TagsInv, Ptrs
<1> QED BY <1>1, <1>2 DEF MemoryInv

(* New memory has a handle that is mapped nowhere else.                    *)
LEMMA UnsharedGrown ==
  ASSUME AInv, Unshared, NEW va, NEW n, NEW h, HasGrown(va, n, h)
  PROVE  Unshared'
<1>1. \A x \in DOMAIN gpu.maps : gpu.maps[x].handle \in DOMAIN gpu.mem
  BY DEF AInv, TypeOK
<1> QED BY <1>1 DEF Unshared, HasGrown

(* AllocateVmm throws, or RestorePhysical: new memory is left behind.      *)
LEMMA ThrowsMemoryInv ==
  ASSUME MemoryInv, AInv', Mirrored', gpu' = gpu \/ \E va, n, h : HasGrown(va, n, h),
         UNCHANGED <<entries_, client, manner>>
  PROVE  MemoryInv'
<1>1. KeepsContents /\ Unshared'
  <2>1. CASE gpu' = gpu
    BY <2>1 DEF KeepsContents, MemoryInv, Unshared
  <2>2. CASE \E va, n, h : HasGrown(va, n, h)
    <3>1. KeepsContents
      BY <2>2 DEF HasGrown, KeepsContents
    <3> QED BY <2>2, <3>1, UnsharedGrown DEF MemoryInv
  <2> QED BY <2>1, <2>2
<1>2. Holds'
  <2> SUFFICES ASSUME NEW q \in VmmPtrs, Resident(q)
               PROVE  Contents(gpu', q) = client[q].data
    BY DEF MemoryInv, Holds, VmmPtrs, Ptrs, Resident
  <2>1. q \in VmmPtrs' /\ entries_'[q] = entries_[q]
    BY DEF VmmPtrs, Ptrs
  <2> QED BY <1>1, <2>1, StillHolds
<1>3. IsFiniteSet(Ptrs') /\ TagsInv'
  BY DEF MemoryInv, TagsInv, Ptrs
<1> QED BY <1>1, <1>2, <1>3 DEF MemoryInv

(* The client writes a buffer, or SwapIn the copy of a fallback buffer.    *)
LEMMA WriteMemoryInv ==
  ASSUME MemoryInv, NEW ptr, NEW d, gpu' = Write(gpu, ptr, d),
         UNCHANGED <<va_held, entries_, live_bytes, alive, manner>>,
         \A p \in VmmPtrs : /\ p \in DOMAIN client'
                            /\ client'[p].data = IF p = ptr THEN d ELSE client[p].data
  PROVE  MemoryInv'
<1>1. /\ gpu'.maps = gpu.maps /\ DOMAIN gpu'.mem = DOMAIN gpu.mem
      /\ \A h \in DOMAIN gpu.mem :
           ~(Accessible(gpu, ptr) /\ gpu.maps[ptr].handle = h) => gpu'.mem[h] = gpu.mem[h]
      /\ Accessible(gpu, ptr) => gpu'.mem[gpu.maps[ptr].handle].data = d
  BY WriteFacts DEF MemoryInv, AInv
<1>2. AInv'
  BY WriteAInv DEF MemoryInv
<1>3. Mirrored' /\ Unshared'
  BY <1>1 DEF MemoryInv, Mirrored, Unshared, VmmPtrs, Ptrs, Resident, Accessible
<1>4. Holds'
  <2> SUFFICES ASSUME NEW p \in VmmPtrs, Resident(p)
               PROVE  Contents(gpu', p) = client'[p].data
    BY DEF Holds, VmmPtrs, Ptrs, Resident
  <2>1. /\ Accessible(gpu, p) /\ Contents(gpu, p) = client[p].data
        /\ gpu.maps[p].handle \in DOMAIN gpu.mem
    BY DEF MemoryInv, Mirrored, Holds, AInv, TypeOK, Accessible
  <2>2. Contents(gpu, p) = gpu.mem[gpu.maps[p].handle].data
    BY <2>1 DEF Contents
  <2>3. Contents(gpu', p) = gpu'.mem[gpu.maps[p].handle].data
    BY <1>1, <2>1 DEF Contents, Accessible
  <2>4. CASE p = ptr
    BY <1>1, <2>1, <2>3, <2>4
  <2>5. CASE p # ptr
    <3>1. ~(Accessible(gpu, ptr) /\ gpu.maps[ptr].handle = gpu.maps[p].handle)
      BY <2>1, <2>5 DEF MemoryInv, Unshared, Accessible
    <3> QED BY <1>1, <2>1, <2>2, <2>3, <2>5, <3>1
  <2> QED BY <2>4, <2>5
<1>5. TagsInv'
  BY DEF MemoryInv, TagsInv, Ptrs
<1>6. IsFiniteSet(Ptrs')
  BY DEF MemoryInv, Ptrs
<1> QED BY <1>2, <1>3, <1>4, <1>5, <1>6 DEF MemoryInv

(* The client, or SwapOut, frees a buffer.                                 *)
LEMMA DeallocateMaps ==
  ASSUME AInv, NEW p \in Ptrs, Deallocate(p)
  PROVE  /\ DOMAIN gpu'.maps \subseteq DOMAIN gpu.maps
         /\ \A x \in DOMAIN gpu'.maps : gpu'.maps[x] = gpu.maps[x]
<1>1. CASE DeallocateVmm(p)
  <2>1. HasUnbacked(gpu', p)
    BY <1>1, UnbackedFacts DEF DeallocateVmm, VmmPtrs
  <2> QED BY <2>1 DEF HasUnbacked
<1>2. CASE DeallocateFallback(p)
  <2>1. gpu' = CuMemFree(gpu, p) /\ WellFormed(gpu) /\ 0 \in Nat
    BY <1>2 DEF DeallocateFallback, AInv
  <2>2. CuMemFree(gpu, p).maps = gpu.maps
    BY <2>1, LinearFacts, Zenon
  <2> QED BY <2>1, <2>2
<1> QED BY <1>1, <1>2 DEF Deallocate

LEMMA DeallocateMemoryInv ==
  ASSUME MemoryInv, NEW p \in Ptrs, Deallocate(p),
         \A q \in VmmPtrs :
           q # p => q \in DOMAIN client' /\ client'[q].data = client[q].data,
         manner' = manner
  PROVE  /\ MemoryInv' /\ VmmPtrs' = VmmPtrs \ {p}
         /\ \A q \in VmmPtrs' : entries_'[q] = entries_[q]
<1>1. AInv' /\ Mirrored' /\ KeepsContents
  BY DeallocateAInv, DeallocateMirrored, DeallocateContents DEF MemoryInv
<1>2. Ptrs' = Ptrs \ {p} /\ \A q \in Ptrs' : entries_'[q] = entries_[q]
  BY DEF Deallocate, RestrictDomain, Restrict, Ptrs
<1>3. VmmPtrs' = VmmPtrs \ {p}
  BY <1>2 DEF VmmPtrs
<1>4. /\ DOMAIN gpu'.maps \subseteq DOMAIN gpu.maps
      /\ \A x \in DOMAIN gpu'.maps : gpu'.maps[x] = gpu.maps[x]
  BY DeallocateMaps DEF MemoryInv
<1>5. Unshared'
  BY <1>4 DEF MemoryInv, Unshared
<1>6. Holds'
  <2> SUFFICES ASSUME NEW q \in VmmPtrs'
               PROVE  q \in DOMAIN client' /\ (Resident(q)' => Contents(gpu', q) = client'[q].data)
    BY DEF Holds
  <2>1. q \in VmmPtrs /\ q # p /\ entries_'[q] = entries_[q]
    BY <1>2, <1>3 DEF VmmPtrs
  <2> QED BY <1>1, <2>1, StillHolds DEF Resident
<1>7. IsFiniteSet(Ptrs')
  BY <1>2, FS_Subset DEF MemoryInv
<1>8. TagsInv'
  BY <1>2 DEF MemoryInv, TagsInv
<1> QED BY <1>1, <1>2, <1>3, <1>5, <1>6, <1>7, <1>8 DEF MemoryInv, VmmPtrs

LEMMA ReleaseMemoryInv ==
  ASSUME MemoryInv, NEW p \in Ptrs, ReleasePhysical(p), client' = client, manner' = manner
  PROVE  /\ MemoryInv' /\ VmmPtrs' = VmmPtrs /\ ~Resident(p)'
         /\ \A q \in VmmPtrs : /\ entries_'[q].tag = entries_[q].tag
                               /\ entries_'[q].size = entries_[q].size
                               /\ q # p => entries_'[q] = entries_[q]
<1>1. AInv' /\ Mirrored'
  BY ReleasePhysicalAInv, ReleasePhysicalMirrored DEF MemoryInv
<1>2. p \in VmmPtrs /\ HasUnbacked(gpu', p) /\ HasAssigned(entries_', p, NoHandle)
  BY ReleasePhysicalFacts DEF MemoryInv
<1>3. KeepsContents
  BY <1>2 DEF HasUnbacked, Kept, KeepsContents
<1>4. /\ Ptrs' = Ptrs /\ VmmPtrs' = VmmPtrs
      /\ \A q \in Ptrs : /\ entries_'[q].tag = entries_[q].tag
                         /\ entries_'[q].size = entries_[q].size
                         /\ q # p => entries_'[q] = entries_[q]
      /\ ~Resident(p)'
  BY <1>2 DEF HasAssigned, Ptrs, VmmPtrs, Resident
<1>5. Unshared'
  BY <1>2 DEF MemoryInv, Unshared, HasUnbacked
<1>6. Holds'
  <2> SUFFICES ASSUME NEW q \in VmmPtrs
               PROVE  q \in DOMAIN client' /\ (Resident(q)' => Contents(gpu', q) = client'[q].data)
    BY <1>4 DEF Holds
  <2>1. q \in DOMAIN client /\ q \in VmmPtrs'
    BY <1>4 DEF MemoryInv, Holds
  <2>2. CASE q # p
    <3>1. entries_'[q] = entries_[q]
      BY <1>4, <2>2 DEF VmmPtrs
    <3> QED BY <1>1, <1>3, <2>1, <3>1, StillHolds DEF Resident
  <2> QED BY <1>4, <2>1, <2>2
<1>7. IsFiniteSet(Ptrs')
  BY <1>4 DEF MemoryInv
<1>8. TagsInv'
  BY <1>2 DEF MemoryInv, TagsInv, HasAssigned, Ptrs
<1> QED BY <1>1, <1>4, <1>5, <1>6, <1>7, <1>8 DEF MemoryInv, VmmPtrs
LEMMA RestoreMemoryInv ==
  ASSUME MemoryInv, NEW p \in Ptrs, NEW h, NEW d, RestorePhysical(p, h, d),
         d = client[p].data, client' = client, manner' = manner
  PROVE  /\ MemoryInv' /\ VmmPtrs' = VmmPtrs
         /\ p \in VmmPtrs /\ ~Resident(p) /\ Resident(p)'
         /\ \A q \in VmmPtrs : /\ entries_'[q].tag = entries_[q].tag
                               /\ entries_'[q].size = entries_[q].size
                               /\ q # p => entries_'[q] = entries_[q]
<1>1. AInv' /\ Mirrored'
  BY RestorePhysicalAInv, RestorePhysicalMirrored DEF MemoryInv
<1>2. /\ p \in VmmPtrs /\ HasRestored(p, h) /\ HasAssigned(entries_', p, h)
      /\ gpu'.mem[h].data = d
  BY RestorePhysicalFacts DEF MemoryInv
<1>3. KeepsContents
  BY <1>2 DEF HasRestored, KeepsContents
<1>4. /\ Ptrs' = Ptrs /\ VmmPtrs' = VmmPtrs
      /\ \A q \in Ptrs : /\ entries_'[q].tag = entries_[q].tag
                         /\ entries_'[q].size = entries_[q].size
                         /\ q # p => entries_'[q] = entries_[q]
      /\ Resident(p)'
  BY <1>2, HandlesAssumption DEF HasAssigned, HasRestored, Ptrs, VmmPtrs, Resident
<1>5. Unshared'
  <2>1. \A x \in DOMAIN gpu.maps : gpu.maps[x].handle \in DOMAIN gpu.mem
    BY DEF MemoryInv, AInv, WellFormed
  <2> QED BY <1>2, <2>1 DEF MemoryInv, Unshared, HasRestored
<1>6. Holds'
  <2> SUFFICES ASSUME NEW q \in VmmPtrs
               PROVE  q \in DOMAIN client' /\ (Resident(q)' => Contents(gpu', q) = client'[q].data)
    BY <1>4 DEF Holds
  <2>1. q \in DOMAIN client /\ q \in VmmPtrs'
    BY <1>4 DEF MemoryInv, Holds
  <2>2. CASE q # p
    <3>1. entries_'[q] = entries_[q]
      BY <1>4, <2>2 DEF VmmPtrs
    <3> QED BY <1>1, <1>3, <2>1, <3>1, StillHolds DEF Resident
  <2>3. CASE q = p
    BY <1>2, <2>1, <2>3 DEF HasRestored, Contents, Accessible
  <2> QED BY <2>2, <2>3
<1>7. IsFiniteSet(Ptrs')
  BY <1>4 DEF MemoryInv
<1>8. TagsInv'
  BY <1>2 DEF MemoryInv, TagsInv, HasAssigned, Ptrs
<1>9. ~Resident(p)
  BY RestorePhysicalHadNone DEF MemoryInv
<1> QED BY <1>1, <1>2, <1>4, <1>5, <1>6, <1>7, <1>8, <1>9 DEF MemoryInv, VmmPtrs

LEMMA RestoreThrowsMemoryInv ==
  ASSUME MemoryInv, NEW p \in Ptrs, RestorePhysicalThrows(p),
         client' = client, manner' = manner
  PROVE  MemoryInv' /\ entries_' = entries_
<1>1. AInv' /\ Mirrored'
  BY RestorePhysicalThrowsAInv, RestorePhysicalThrowsMirrored DEF MemoryInv
<1>2. /\ entries_' = entries_
      /\ gpu' = gpu \/ \E h : HasGrown(p, AllocSize(entries_[p].size), h)
  BY RestorePhysicalThrowsFacts DEF MemoryInv
<1> QED BY <1>1, <1>2, ThrowsMemoryInv

-----------------------------------------------------------------------------
(* The actions: each keeps the invariant, and does to the buffers what an  *)
(* action of SwapSpace does, or nothing.                                   *)

SwapKept == MemoryInv' /\ ListInv'

(* Whether a buffer has memory is a Boolean.                               *)
LEMMA CellFacts ==
  ASSUME NEW p
  PROVE  /\ Cell(p).tag = entries_[p].tag /\ Cell(p).data = client[p].data
         /\ Cell(p).on_gpu = Resident(p) /\ Resident(p) \in BOOLEAN
         /\ Cell(p)' = [tag    |-> entries_'[p].tag,
                        data   |-> client'[p].data,
                        on_gpu |-> Resident(p)']
  BY DEF Cell, Resident

LEMMA SameCells ==
  ASSUME VmmPtrs' = VmmPtrs,
         \A p \in VmmPtrs : entries_'[p] = entries_[p] /\ client'[p].data = client[p].data
  PROVE  Cells' = Cells
<1>1. \A p \in VmmPtrs : Cell(p)' = Cell(p)
  BY DEF Cell, Resident
<1> QED BY <1>1 DEF Cells

LEMMA RestStep ==
  ASSUME MemoryInv, UNCHANGED <<gpu, va_held, entries_, live_bytes, alive, client, manner>>
  PROVE  MemoryInv' /\ Cells' = Cells
<1>1. alive' \in BOOLEAN
  BY DEF MemoryInv, AInv, TypeOK
<1>2. AInv'
  BY <1>1, SameAInv DEF MemoryInv
<1> QED BY <1>2, SameMemoryInv, SameCells DEF VmmPtrs, Ptrs

LEMMA AllocateStep ==
  ASSUME MemoryInv, ListInv, NEW bytes \in Sizes, NEW tag \in Tags,
         ClientAllocate(bytes, tag)
  PROVE  /\ SwapKept
         /\ \/ Cells' = Cells
            \/ \E va \in Vas \ VmmPtrs :
                 Cells' = Put(Cells, va, [tag |-> tag, data |-> Garbage, on_gpu |-> TRUE])
<1>1. AtRest /\ UNCHANGED <<contexts_, call, out, manner>>
  BY DEF ClientAllocate
<1>2. \A p \in VmmPtrs : p \in DOMAIN client
  BY DEF MemoryInv, Holds
<1>3. ASSUME NEW va \in Vas, NEW h \in Handles, AllocateVmm(bytes, tag, va, h),
             client' = Put(client, va, [tag |-> tag, data |-> Garbage])
      PROVE  /\ SwapKept
             /\ va \in Vas \ VmmPtrs
             /\ Cells' = Put(Cells, va, [tag |-> tag, data |-> Garbage, on_gpu |-> TRUE])
  <2>1. MemoryInv'
    BY <1>1, <1>3, AllocateVmmMemoryInv
  <2>2. HasAllocated(bytes, tag, va, h)
    BY <1>3, AllocateVmmFacts DEF MemoryInv
  <2>3. /\ va \notin Ptrs /\ VmmPtrs' = VmmPtrs \cup {va}
        /\ \A p \in VmmPtrs : entries_'[p] = entries_[p]
        /\ Resident(va)' /\ entries_'[va].tag = tag
    BY <2>2, HandlesAssumption DEF HasAllocated, Ptrs, VmmPtrs, Resident
  <2>4. /\ client'[va].data = Garbage
        /\ \A p \in VmmPtrs : client'[p] = client[p]
    BY <1>2, <1>3, <2>3 DEF Put, VmmPtrs
  <2>5. ListInv'
    BY <1>1, <2>3, <2>4, RestListInv
  <2>6. Cells' = Put(Cells, va, [tag |-> tag, data |-> Garbage, on_gpu |-> TRUE])
    <3> DEFINE c == [tag |-> tag, data |-> Garbage, on_gpu |-> TRUE]
    <3>1. \A p \in VmmPtrs : Cell(p)' = Cell(p) /\ p # va
      BY <2>3, <2>4 DEF Cell, Resident, VmmPtrs
    <3>2. Cell(va)' = c
      BY <2>3, <2>4, CellFacts
    <3> HIDE DEF c
    <3>3. Cells' = Put(Cells, va, c)
      BY <2>3, <3>1, <3>2 DEF Cells, Put
    <3> QED BY <3>3 DEF c
  <2> QED BY <2>1, <2>3, <2>5, <2>6 DEF SwapKept, VmmPtrs
<1>4. ASSUME NEW ptr \in Linears, AllocateFallback(bytes, ptr),
             client' = Put(client, ptr, [tag |-> tag, data |-> Garbage])
      PROVE  SwapKept /\ Cells' = Cells
  <2>1. \A p \in VmmPtrs : p \in DOMAIN client' /\ client'[p] = client[p]
    <3>1. ptr \notin VmmPtrs
      BY PointersAssumption DEF MemoryInv, AInv, TypeOK, VmmPtrs
    <3> QED BY <1>2, <1>4, <3>1 DEF Put
  <2>2. /\ MemoryInv' /\ VmmPtrs' = VmmPtrs
        /\ \A p \in VmmPtrs : entries_'[p] = entries_[p]
    BY <1>1, <1>4, <2>1, AllocateFallbackMemoryInv
  <2>3. ListInv'
    BY <1>1, <2>1, <2>2, RestListInv
  <2> QED BY <2>1, <2>2, <2>3, SameCells DEF SwapKept
<1>5. ASSUME NEW va \in Vas, AllocateVmmThrows(bytes, va), UNCHANGED client
      PROVE  SwapKept /\ Cells' = Cells
  <2>1. /\ entries_' = entries_
        /\ gpu' = gpu \/ \E h : HasGrown(va, AllocSize(bytes), h)
    BY <1>5, AllocateVmmThrowsFacts DEF MemoryInv
  <2>2. AInv' /\ Mirrored'
    BY <1>5, AllocateVmmThrowsAInv, AllocateVmmThrowsMirrored DEF MemoryInv
  <2>3. MemoryInv' /\ VmmPtrs' = VmmPtrs
    BY <1>1, <1>5, <2>1, <2>2, ThrowsMemoryInv DEF VmmPtrs, Ptrs
  <2>4. ListInv'
    BY <1>1, <1>5, <2>1, <2>3, RestListInv
  <2> QED BY <1>5, <2>1, <2>3, <2>4, SameCells DEF SwapKept
<1> QED BY <1>3, <1>4, <1>5 DEF ClientAllocate

LEMMA WriteStep ==
  ASSUME MemoryInv, ListInv, NEW p, NEW d, ClientWrite(p, d)
  PROVE  /\ SwapKept
         /\ \/ Cells' = Cells
            \/ /\ p \in VmmPtrs /\ Resident(p)
               /\ Cells' = [Cells EXCEPT ![p].data = d]
<1>1. /\ AtRest /\ p \in DOMAIN client /\ Resident(p)
      /\ gpu' = Write(gpu, p, d) /\ client' = [client EXCEPT ![p].data = d]
      /\ UNCHANGED <<va_held, entries_, live_bytes, alive, contexts_, call, out, manner>>
  BY DEF ClientWrite
<1>2. \A q \in VmmPtrs : q \in DOMAIN client
  BY DEF MemoryInv, Holds
<1>3. \A q \in VmmPtrs : q \in DOMAIN client' /\ (q # p => client'[q] = client[q])
  BY <1>1, <1>2
<1>4. client'[p].data = d
  <2>1. client'[p] = [client[p] EXCEPT !.data = d]
    BY <1>1
  <2> QED BY <2>1
<1>5. MemoryInv'
  BY <1>1, <1>3, <1>4, WriteMemoryInv
<1>6. VmmPtrs' = VmmPtrs
  BY <1>1 DEF VmmPtrs, Ptrs
<1>7. ListInv'
  <2>1. \A q \in VmmPtrs : ~Resident(q)' => q # p
    BY <1>1 DEF Resident
  <2> QED BY <1>1, <1>3, <1>6, <2>1, RestListInv
<1>8. CASE p \in VmmPtrs
  <2>1. \A q \in VmmPtrs : q # p => Cell(q)' = Cell(q)
    BY <1>1, <1>3 DEF Cell, Resident
  <2>2. Cell(p)' = [Cell(p) EXCEPT !.data = d]
    BY <1>1, <1>4 DEF Cell, Resident
  <2>3. Cells' = [Cells EXCEPT ![p].data = d]
    BY <1>6, <1>8, <2>1, <2>2 DEF Cells
  <2> QED BY <1>1, <1>5, <1>7, <1>8, <2>3 DEF SwapKept
<1>9. CASE p \notin VmmPtrs
  BY <1>1, <1>3, <1>5, <1>6, <1>7, <1>9, SameCells DEF SwapKept
<1> QED BY <1>8, <1>9

LEMMA FreeStep ==
  ASSUME MemoryInv, ListInv, manner \in {"once", "retry"}, NEW p, ClientDeallocate(p)
  PROVE  /\ SwapKept
         /\ \/ Cells' = Cells
            \/ /\ p \in VmmPtrs /\ Resident(p)
               /\ Cells' = [q \in DOMAIN Cells \ {p} |-> Cells[q]]
<1>1. /\ AtRest /\ p \in Ptrs /\ Resident(p) /\ Deallocate(p)
      /\ manner = "retry" => entries_[p].tag \notin out
      /\ client' = RestrictDomain(client, LAMBDA q : q # p)
      /\ UNCHANGED <<contexts_, call, out, manner>>
  BY DEF ClientDeallocate
<1>2. \A q \in VmmPtrs : q \in DOMAIN client
  BY DEF MemoryInv, Holds
<1>3. \A q \in VmmPtrs : q # p => q \in DOMAIN client' /\ client'[q] = client[q]
  BY <1>1, <1>2 DEF RestrictDomain, Restrict
<1>4. /\ MemoryInv' /\ VmmPtrs' = VmmPtrs \ {p}
      /\ \A q \in VmmPtrs' : entries_'[q] = entries_[q]
  BY <1>1, <1>3, DeallocateMemoryInv
<1>5. ~Awaited(p)
  <2> SUFFICES ASSUME NEW t \in out, NEW j \in DOMAIN Entries(t),
                      Entries(t)[j].is_vmm, Entries(t)[j].original_ptr = p
               PROVE  FALSE
    BY DEF Awaited
  <2>1. Owned(t, Entries(t)) /\ Awaits(Entries(t), Reach(t)) /\ ListOk(t, Entries(t))
    BY DEF ListInv, WaitInv, ListsInv, Listed
  <2>2. manner = "once" /\ Reach(t) = 1
    <3>1. call.op # "in"
      BY <1>1, CallShape DEF ListInv
    <3> QED BY <1>1, <2>1, <3>1 DEF Owned, Reach
  <2>3. j >= 1
    BY <2>1, SeqFacts DEF ListOk
  <2> QED BY <1>1, <2>1, <2>2, <2>3 DEF Awaits, Gone
<1>6. ListInv'
  BY <1>1, <1>3, <1>4, <1>5, RestListInv
<1>7. CASE p \in VmmPtrs
  <2>1. \A q \in VmmPtrs' : Cell(q)' = Cell(q)
    BY <1>3, <1>4 DEF Cell, Resident
  <2>2. Cells' = [q \in DOMAIN Cells \ {p} |-> Cells[q]]
    BY <1>4, <2>1 DEF Cells
  <2> QED BY <1>1, <1>4, <1>6, <1>7, <2>2 DEF SwapKept
<1>8. CASE p \notin VmmPtrs
  BY <1>3, <1>4, <1>6, <1>8, SameCells DEF SwapKept
<1> QED BY <1>7, <1>8
(* A buffer of the tag moves: out, if the call is a SwapOut, or in.        *)
Moved ==
  \E p \in VmmPtrs :
    /\ entries_[p].tag = call.tag
    /\ Resident(p) <=> call.op = "out"
    /\ Cells' = [Cells EXCEPT ![p].on_gpu = ~@]

LEMMA MovedCells ==
  ASSUME NEW p \in VmmPtrs, VmmPtrs' = VmmPtrs, client' = client,
         \A q \in VmmPtrs : /\ entries_'[q].tag = entries_[q].tag
                            /\ entries_'[q].size = entries_[q].size
                            /\ q # p => entries_'[q] = entries_[q],
         Resident(p)' <=> ~Resident(p)
  PROVE  Cells' = [Cells EXCEPT ![p].on_gpu = ~@]
<1>1. \A q \in VmmPtrs : q # p => Cell(q)' = Cell(q)
  BY DEF Cell, Resident
<1>2. Cell(p)' = [Cell(p) EXCEPT !.on_gpu = ~@]
  <2>1. Resident(p)' = ~Resident(p)
    <3>1. Resident(p)' \in BOOLEAN
      BY DEF Resident
    <3> QED BY <3>1
  <2>2. [Cell(p) EXCEPT !.on_gpu = ~@]
          = [tag |-> entries_[p].tag, data |-> client[p].data, on_gpu |-> ~Resident(p)]
    BY DEF Cell
  <2> QED BY <2>1, <2>2, CellFacts
<1> QED BY <1>1, <1>2 DEF Cells

NoneTagged(t) == \A q \in VmmPtrs : entries_[q].tag # t

LEMMA NoneIsFallback == TagsInv => NoneTagged(FallbackTag)
  BY DEF TagsInv, NoneTagged, VmmPtrs

(* The buffer of a turn: where it is not a VMM buffer, none of the tag is. *)
LEMMA OutTurnFacts ==
  ASSUME ListInv, call.op = "out", call.next <= Len(call.entries)
  PROVE  /\ Turn.original_ptr \in Vas <=> Turn.is_vmm
         /\ Turn.is_vmm => LET p == Turn.original_ptr
                           IN p \in VmmPtrs /\ entries_[p].tag = call.tag /\ Resident(p)
         /\ Turn.is_vmm \/ call.tag = FallbackTag
<1> PICK es, k, t0 : es = call.entries /\ k = call.next /\ t0 = call.tag
  OBVIOUS
<1>1. k \in Nat \ {0}
  BY CallShape DEF ListInv, OutCall
<1>2. ListOk(t0, es)
  <2>1. t0 \in Listed /\ Entries(t0) = es
    BY DEF Listed, Entries
  <2> QED BY <2>1 DEF ListInv, ListsInv
<1>3. k \in DOMAIN es /\ Turn = es[k]
  BY <1>1, <1>2, SeqFacts DEF ListOk, Turn
<1> QED BY <1>1, <1>2, <1>3 DEF ListOk, ListInv, OutInv, Owned

LEMMA InTurnFacts ==
  ASSUME ListInv, call.op = "in", call.next <= Len(call.entries)
  PROVE  LET p == Turn.original_ptr
         IN /\ p \in Vas <=> Turn.is_vmm
            /\ Turn.size \in Sizes
            /\ Turn.is_vmm \/ call.tag = FallbackTag
            /\ Turn.is_vmm => /\ p \in VmmPtrs /\ entries_[p].tag = call.tag
                              /\ ~Resident(p) => HostData = client[p].data
                              /\ manner = "once" => ~Resident(p)
                              /\ \E q \in VmmPtrs : /\ entries_[q].tag = call.tag
                                                    /\ ~Resident(q)
<1> PICK es, k, t0 : es = call.entries /\ k = call.next /\ t0 = call.tag
  OBVIOUS
<1>1. k \in Nat \ {0}
  BY CallShape DEF ListInv, InCall
<1>2. t0 \in out /\ t0 \in Listed /\ Entries(t0) = es /\ ListOk(t0, es)
  <2>1. t0 \in out /\ Entries(t0) = es
    BY DEF ListInv, InInv
  <2>2. t0 \in Listed
    BY <2>1 DEF ListInv, WaitInv, Listed
  <2> QED BY <2>1, <2>2 DEF ListInv, ListsInv
<1>3. k \in DOMAIN es /\ DOMAIN es \subseteq Int /\ Turn = es[k] /\ HostData = es[k].data
  BY <1>1, <1>2, SeqFacts DEF ListOk, Turn, HostData
<1>4. Owned(t0, es) /\ Awaits(es, k)
  BY <1>2 DEF ListInv, WaitInv, Reach
<1>5. ASSUME es[k].is_vmm
      PROVE  LET p == es[k].original_ptr
             IN /\ p \in VmmPtrs /\ entries_[p].tag = t0
                /\ ~Resident(p) => es[k].data = client[p].data
                /\ manner = "once" => ~Resident(p)
                /\ \E q \in VmmPtrs : entries_[q].tag = t0 /\ ~Resident(q)
  <2> PICK p : p = es[k].original_ptr
    OBVIOUS
  <2>1. p \in VmmPtrs /\ entries_[p].tag = t0
    BY <1>3, <1>4, <1>5 DEF Owned
  <2>2. ASSUME ~Resident(p) PROVE es[k].data = client[p].data
    <3>1. HasEntry(es, p, client[p].data)
      BY <1>2, <2>1, <2>2 DEF ListInv, AwayInv
    <3> QED BY <1>2, <1>3, <3>1 DEF HasEntry, ListOk
  <2>3. manner = "once" => ~Resident(p)
    BY <1>1, <1>3, <1>4, <1>5 DEF Awaits, Gone
  <2>4. PICK i \in DOMAIN es : Gone(es, i)
    BY <1>1, <1>3, <1>4, <1>5 DEF Awaits
  <2>5. es[i].original_ptr \in VmmPtrs /\ entries_[es[i].original_ptr].tag = t0
    BY <1>4, <2>4 DEF Owned, Gone
  <2> QED BY <2>1, <2>2, <2>3, <2>4, <2>5 DEF Gone
<1> QED BY <1>2, <1>3, <1>5 DEF ListOk

(* SwapOut.                                                                *)
LEMMA OutBeginsStep ==
  ASSUME MemoryInv, ListInv, manner # "again", NEW tag, ClientSwapOut(tag)
  PROVE  SwapKept /\ Cells' = Cells /\ AtRest /\ OutCall(call')
<1>1. AtRest /\ UNCHANGED <<gpu, va_held, entries_, live_bytes, alive, client, manner>>
  BY DEF ClientSwapOut, SwapOut, allocatorVars
<1>2. MemoryInv' /\ Cells' = Cells
  BY <1>1, RestStep
<1>3. ListInv'
  BY OutBeginsListInv DEF MemoryInv
<1>4. OutCall(call')
  <2>1. PICK es : call' = [op |-> "out", tag |-> tag, next |-> 1, entries |-> es]
    BY DEF ClientSwapOut, SwapOut
  <2> QED BY <2>1 DEF OutCall
<1> QED BY <1>1, <1>2, <1>3, <1>4 DEF SwapKept

LEMMA ReleaseStep ==
  ASSUME MemoryInv, ListInv, SwapOutRelease
  PROVE  SwapKept /\ (Cells' = Cells \/ Moved) /\ call'.op = call.op /\ call'.tag = call.tag
         /\ OutCall(call')
<1> PICK p : p = Turn.original_ptr
  OBVIOUS
<1>1. /\ call.op = "out" /\ call.next <= Len(call.entries)
      /\ call' = [call EXCEPT !.next = @ + 1]
      /\ UNCHANGED <<contexts_, client, out, manner>>
      /\ \/ Turn.is_vmm /\ ReleasePhysical(p)
         \/ ~Turn.is_vmm /\ Deallocate(p)
  BY DEF SwapOutRelease
<1>2. /\ p \in Vas <=> Turn.is_vmm
      /\ Turn.is_vmm => p \in VmmPtrs /\ entries_[p].tag = call.tag /\ Resident(p)
  BY <1>1, OutTurnFacts
<1>3. OutCall(call') /\ call'.op = call.op /\ call'.tag = call.tag
  <2>1. OutCall(call)
    BY <1>1, CallShape DEF ListInv
  <2> QED BY <1>1, <2>1 DEF OutCall
<1>4. CASE Turn.is_vmm
  <2>1. ReleasePhysical(p) /\ p \in VmmPtrs /\ p \in Ptrs
    BY <1>1, <1>2, <1>4 DEF VmmPtrs
  <2>2. /\ MemoryInv' /\ VmmPtrs' = VmmPtrs /\ ~Resident(p)'
        /\ \A q \in VmmPtrs : /\ entries_'[q].tag = entries_[q].tag
                              /\ entries_'[q].size = entries_[q].size
                              /\ q # p => entries_'[q] = entries_[q]
    BY <1>1, <2>1, ReleaseMemoryInv
  <2>3. \A q \in VmmPtrs :
          /\ entries_'[q].tag = entries_[q].tag
          /\ entries_'[q].size = entries_[q].size
          /\ Resident(q)' <=> Resident(q) /\ ~(Turn.is_vmm /\ q = Turn.original_ptr)
    BY <1>4, <2>2 DEF Resident
  <2>4. ListInv'
    BY <1>1, <2>2, <2>3, OutTurnListInv
  <2>5. Cells' = [Cells EXCEPT ![p].on_gpu = ~@]
    BY <1>1, <1>2, <1>4, <2>1, <2>2, MovedCells
  <2> QED BY <1>1, <1>2, <1>3, <1>4, <2>1, <2>2, <2>4, <2>5 DEF SwapKept, Moved
<1>5. CASE ~Turn.is_vmm
  <2>1. Deallocate(p) /\ p \in Ptrs /\ p \notin VmmPtrs
    BY <1>1, <1>2, <1>5 DEF Deallocate, VmmPtrs, MemoryInv, AInv, TypeOK
  <2>2. \A q \in VmmPtrs : q \in DOMAIN client' /\ client'[q].data = client[q].data
    BY <1>1 DEF MemoryInv, Holds
  <2>3. /\ MemoryInv' /\ VmmPtrs' = VmmPtrs
        /\ \A q \in VmmPtrs : entries_'[q] = entries_[q]
    BY <1>1, <2>1, <2>2, DeallocateMemoryInv
  <2>4. \A q \in VmmPtrs :
          /\ entries_'[q].tag = entries_[q].tag
          /\ entries_'[q].size = entries_[q].size
          /\ Resident(q)' <=> Resident(q) /\ ~(Turn.is_vmm /\ q = Turn.original_ptr)
    BY <1>5, <2>3 DEF Resident
  <2>5. ListInv'
    BY <1>1, <2>3, <2>4, OutTurnListInv
  <2>6. Cells' = Cells
    BY <1>1, <2>3, SameCells
  <2> QED BY <1>3, <2>3, <2>5, <2>6 DEF SwapKept
<1> QED BY <1>1, <1>4, <1>5

(* Deallocate throws for a fallback buffer.                                *)
LEMMA OutThrowsStep ==
  ASSUME MemoryInv, ListInv, SwapOutThrows
  PROVE  /\ SwapKept /\ Cells' = Cells /\ call.op = "out" /\ call' = Thrown
         /\ NoneTagged(call.tag)
<1>1. /\ call.op = "out" /\ call' = Thrown /\ call.next <= Len(call.entries) /\ ~Turn.is_vmm
      /\ UNCHANGED <<gpu, va_held, entries_, live_bytes, alive, contexts_, client, out, manner>>
  BY DEF SwapOutThrows, DeallocateThrows, vars
<1>2. NoneTagged(call.tag)
  BY <1>1, OutTurnFacts, NoneIsFallback DEF MemoryInv
<1>3. MemoryInv' /\ Cells' = Cells
  BY <1>1, RestStep
<1>4. ListInv'
  BY <1>1, <1>2, OutThrowsListInv DEF NoneTagged
<1> QED BY <1>1, <1>2, <1>3, <1>4 DEF SwapKept

(* When SwapOut returns every VMM buffer of the tag is away.               *)
LEMMA StoreStep ==
  ASSUME MemoryInv, ListInv, SwapOutStore
  PROVE  /\ SwapKept /\ Cells' = Cells /\ call.op = "out" /\ call' = Idle
         /\ \A p \in VmmPtrs : entries_[p].tag = call.tag => ~Resident(p)
<1>1. /\ call.op = "out" /\ call' = Idle /\ call.next > Len(call.entries)
      /\ UNCHANGED <<gpu, va_held, entries_, live_bytes, alive, client, manner>>
  BY DEF SwapOutStore, allocatorVars
<1>2. MemoryInv' /\ Cells' = Cells
  BY <1>1, RestStep
<1>3. ASSUME NEW p \in VmmPtrs, entries_[p].tag = call.tag PROVE ~Resident(p)
  <2> PICK es, k, t0 : es = call.entries /\ k = call.next /\ t0 = call.tag
    OBVIOUS
  <2>1. k \in Nat \ {0}
    BY <1>1, CallShape DEF ListInv, OutCall
  <2>2. ListOk(t0, es)
    <3>1. t0 \in Listed /\ Entries(t0) = es
      BY <1>1 DEF Listed, Entries
    <3> QED BY <3>1 DEF ListInv, ListsInv
  <2>3. PICK j \in DOMAIN es : es[j].original_ptr = p
    BY <1>1, <1>3 DEF ListInv, OutInv
  <2>4. es[j].is_vmm
    BY <2>2, <2>3 DEF ListOk, VmmPtrs, MemoryInv, AInv, TypeOK
  <2>5. j < k
    BY <1>1, <2>1, <2>2, <2>3, SeqFacts DEF ListOk
  <2>6. j \in Int /\ (Resident(p) <=> j >= k)
    BY <1>1, <2>2, <2>3, <2>4, SeqFacts DEF ListInv, OutInv, ListOk
  <2> QED BY <2>1, <2>5, <2>6
<1> QED BY <1>1, <1>2, <1>3, OutStoresListInv DEF SwapKept

(* There is a slot for the context.                                        *)
LEMMA NeverOutside ==
  ASSUME ListInv PROVE ~SwapOutStoreOutside
<1>1. SUFFICES ASSUME SwapOutStoreOutside PROVE FALSE
  OBVIOUS
<1>2. Len(contexts_) < kContexts /\ Len(contexts_) >= kContexts
  BY <1>1 DEF SwapOutStoreOutside, ListInv, OutInv
<1>3. Len(contexts_) \in Nat
  BY SeqFacts DEF ListInv, ContextsInv
<1> QED BY <1>2, <1>3, kContextsAssumption

(* SwapIn.                                                                 *)
LEMMA InBeginsStep ==
  ASSUME MemoryInv, ListInv, NEW tag, ClientSwapIn(tag)
  PROVE  SwapKept /\ Cells' = Cells /\ AtRest /\ InCall(call')
<1>1. AtRest /\ UNCHANGED <<gpu, va_held, entries_, live_bytes, alive, client, manner>>
  BY DEF ClientSwapIn, SwapIn, allocatorVars
<1>2. MemoryInv' /\ Cells' = Cells
  BY <1>1, RestStep
<1>3. InCall(call')
  <2>1. PICK es : call' = [op |-> "in", tag |-> tag, next |-> 1, copy |-> NoPtr,
                           entries |-> es]
    BY DEF ClientSwapIn, SwapIn
  <2> QED BY <2>1 DEF InCall
<1> QED BY <1>1, <1>2, <1>3, InBeginsListInv DEF SwapKept

LEMMA NextTurnFacts ==
  ASSUME ListInv, call.op = "in",
         \/ NextTurn /\ call.copy = NoPtr
         \/ call' = [call EXCEPT !.copy = NoPtr, !.next = @ + 1]
  PROVE  /\ call' = [op |-> "in", tag |-> call.tag, next |-> call.next + 1,
                     copy |-> NoPtr, entries |-> call.entries]
         /\ InCall(call') /\ call'.op = call.op /\ call'.tag = call.tag
<1>1. InCall(call)
  BY CallShape DEF ListInv
<1>2. call' = [op |-> "in", tag |-> call.tag, next |-> call.next + 1,
               copy |-> NoPtr, entries |-> call.entries]
  BY <1>1 DEF InCall, NextTurn
<1> QED BY <1>1, <1>2 DEF InCall

LEMMA RestoreStep ==
  ASSUME MemoryInv, ListInv, SwapInRestore
  PROVE  SwapKept /\ Moved /\ call'.op = call.op /\ call'.tag = call.tag /\ InCall(call')
<1> PICK p : p = Turn.original_ptr
  OBVIOUS
<1>1. /\ call.op = "in" /\ call.copy = NoPtr /\ call.next <= Len(call.entries)
      /\ Turn.is_vmm /\ NextTurn /\ UNCHANGED <<contexts_, client, out, manner>>
  BY DEF SwapInRestore, InTurn
<1>2. PICK h \in Handles : RestorePhysical(p, h, HostData)
  BY DEF SwapInRestore
<1>3. /\ p \in VmmPtrs /\ p \in Ptrs /\ entries_[p].tag = call.tag
      /\ ~Resident(p) => HostData = client[p].data
  BY <1>1, InTurnFacts DEF VmmPtrs
<1>4. ~Resident(p)
  BY <1>2, <1>3, RestorePhysicalHadNone DEF MemoryInv
<1>5. /\ MemoryInv' /\ VmmPtrs' = VmmPtrs /\ Resident(p)'
      /\ \A q \in VmmPtrs : /\ entries_'[q].tag = entries_[q].tag
                            /\ entries_'[q].size = entries_[q].size
                            /\ q # p => entries_'[q] = entries_[q]
  <2> PICK d : d = HostData
    OBVIOUS
  <2> QED BY <1>1, <1>2, <1>3, <1>4, RestoreMemoryInv
<1>6. \A q \in VmmPtrs :
        /\ entries_'[q].tag = entries_[q].tag
        /\ entries_'[q].size = entries_[q].size
        /\ Resident(q)' <=> Resident(q) \/ (Turn.is_vmm /\ q = Turn.original_ptr)
  BY <1>1, <1>5 DEF Resident
<1>7. /\ call' = [op |-> "in", tag |-> call.tag, next |-> call.next + 1,
                  copy |-> NoPtr, entries |-> call.entries]
      /\ InCall(call') /\ call'.op = call.op /\ call'.tag = call.tag
  BY <1>1, NextTurnFacts
<1>8. ListInv'
  BY <1>1, <1>4, <1>5, <1>6, <1>7, InTurnListInv
<1>9. Cells' = [Cells EXCEPT ![p].on_gpu = ~@]
  BY <1>1, <1>3, <1>4, <1>5, MovedCells
<1> QED BY <1>1, <1>3, <1>4, <1>5, <1>7, <1>8, <1>9 DEF SwapKept, Moved

(* When SwapIn throws some VMM buffer of the tag is away, or the tag has   *)
(* no VMM buffer.                                                          *)
LEMMA ThrowStep ==
  ASSUME MemoryInv, ListInv, manner \in {"once", "retry"}, SwapInThrows
  PROVE  /\ SwapKept /\ Cells' = Cells /\ call.op = "in" /\ call' = Thrown
         /\ \/ \E q \in VmmPtrs : entries_[q].tag = call.tag /\ ~Resident(q)
            \/ NoneTagged(call.tag)
<1> PICK p : p = Turn.original_ptr
  OBVIOUS
<1>1. /\ call.op = "in" /\ call.next <= Len(call.entries)
      /\ call' = Thrown /\ UNCHANGED <<contexts_, client, manner>>
      /\ out' = IF manner = "retry" THEN out ELSE out \ {call.tag}
      /\ \/ Turn.is_vmm /\ RestorePhysicalThrows(p)
         \/ ~Turn.is_vmm /\ UNCHANGED allocatorVars
  BY DEF SwapInThrows, InTurn
<1>2. /\ MemoryInv' /\ entries_' = entries_
      /\ \/ \E q \in VmmPtrs : entries_[q].tag = call.tag /\ ~Resident(q)
         \/ NoneTagged(call.tag)
  <2>1. CASE Turn.is_vmm /\ RestorePhysicalThrows(p)
    <3>1. /\ p \in Ptrs
          /\ \E q \in VmmPtrs : entries_[q].tag = call.tag /\ ~Resident(q)
      BY <1>1, <2>1, InTurnFacts DEF VmmPtrs
    <3> QED BY <1>1, <2>1, <3>1, RestoreThrowsMemoryInv
  <2>2. CASE ~Turn.is_vmm /\ UNCHANGED allocatorVars
    <3>1. NoneTagged(call.tag)
      BY <1>1, <2>2, InTurnFacts, NoneIsFallback DEF MemoryInv
    <3> QED BY <1>1, <2>2, <3>1, RestStep DEF allocatorVars
  <2> QED BY <1>1, <2>1, <2>2
<1>3. Cells' = Cells
  BY <1>1, <1>2, SameCells DEF VmmPtrs, Ptrs
<1>4. ListInv'
  BY <1>1, <1>2, InEndsListInv
<1> QED BY <1>1, <1>2, <1>3, <1>4 DEF SwapKept

(* The client has not freed a buffer that SwapIn gives its memory back.    *)
LEMMA NeverSkips ==
  ASSUME ListInv PROVE ~SwapInSkips
  BY InTurnFacts DEF SwapInSkips, InTurn, VmmPtrs

LEMMA ReallocateStep ==
  ASSUME MemoryInv, ListInv, SwapInReallocate
  PROVE  SwapKept /\ Cells' = Cells /\ call'.op = call.op /\ call'.tag = call.tag
         /\ InCall(call')
<1>1. /\ InTurn /\ ~Turn.is_vmm /\ UNCHANGED <<contexts_, client, out, manner>>
      /\ call.op = "in" /\ call.next <= Len(call.entries)
  BY DEF SwapInReallocate, InTurn
<1>2. PICK ptr \in Linears : /\ AllocateFallback(Turn.size, ptr)
                             /\ call' = [call EXCEPT !.copy = ptr]
  BY DEF SwapInReallocate
<1>3. Turn.size \in Sizes
  BY <1>1, InTurnFacts
<1>4. \A q \in VmmPtrs : q \in DOMAIN client' /\ client'[q].data = client[q].data
  BY <1>1 DEF MemoryInv, Holds
<1>5. /\ MemoryInv' /\ VmmPtrs' = VmmPtrs
      /\ \A q \in VmmPtrs : entries_'[q] = entries_[q]
  BY <1>1, <1>2, <1>3, <1>4, AllocateFallbackMemoryInv
<1>6. ListInv'
  BY <1>1, <1>2, <1>5, InReallocatesListInv
<1>7. Cells' = Cells
  BY <1>1, <1>5, SameCells
<1>8. InCall(call') /\ call'.op = call.op /\ call'.tag = call.tag
  <2>1. InCall(call)
    BY <1>1, CallShape DEF ListInv
  <2> QED BY <1>2, <2>1 DEF InCall
<1> QED BY <1>5, <1>6, <1>7, <1>8 DEF SwapKept

LEMMA CopyStep ==
  ASSUME MemoryInv, ListInv, SwapInCopy
  PROVE  SwapKept /\ Cells' = Cells /\ call'.op = call.op /\ call'.tag = call.tag
         /\ InCall(call')
<1>1. /\ call.op = "in" /\ call.copy # NoPtr /\ gpu' = Write(gpu, call.copy, HostData)
      /\ call' = [call EXCEPT !.copy = NoPtr, !.next = @ + 1]
      /\ UNCHANGED <<va_held, entries_, live_bytes, alive, contexts_, client, out, manner>>
  BY DEF SwapInCopy
<1>2. call.copy \in Linears /\ call.next <= Len(call.entries) /\ ~Turn.is_vmm
  BY <1>1 DEF ListInv, InInv, Turn
<1>3. \A q \in VmmPtrs : q \in DOMAIN client /\ q # call.copy
  BY <1>2, PointersAssumption DEF MemoryInv, Holds, AInv, TypeOK, VmmPtrs
<1>4. MemoryInv'
  BY <1>1, <1>3, WriteMemoryInv
<1>5. VmmPtrs' = VmmPtrs
  BY <1>1 DEF VmmPtrs, Ptrs
<1>6. \A q \in VmmPtrs :
        /\ entries_'[q].tag = entries_[q].tag
        /\ entries_'[q].size = entries_[q].size
        /\ Resident(q)' <=> Resident(q) \/ (Turn.is_vmm /\ q = Turn.original_ptr)
  BY <1>1, <1>2 DEF Resident
<1>7. /\ call' = [op |-> "in", tag |-> call.tag, next |-> call.next + 1,
                  copy |-> NoPtr, entries |-> call.entries]
      /\ InCall(call') /\ call'.op = call.op /\ call'.tag = call.tag
  BY <1>1, NextTurnFacts
<1>8. ListInv'
  BY <1>1, <1>2, <1>5, <1>6, <1>7, InTurnListInv
<1>9. Cells' = Cells
  BY <1>1, <1>5, SameCells
<1> QED BY <1>4, <1>7, <1>8, <1>9 DEF SwapKept

LEMMA NoMemoryStep ==
  ASSUME MemoryInv, ListInv, SwapInNoMemory
  PROVE  SwapKept /\ Cells' = Cells /\ call'.op = call.op /\ call'.tag = call.tag
         /\ InCall(call')
<1>1. /\ call.op = "in" /\ call.copy = NoPtr /\ call.next <= Len(call.entries)
      /\ ~Turn.is_vmm /\ NextTurn
      /\ UNCHANGED <<gpu, va_held, entries_, live_bytes, alive, contexts_, client, out, manner>>
  BY DEF SwapInNoMemory, InTurn, allocatorVars
<1>2. MemoryInv' /\ Cells' = Cells
  BY <1>1, RestStep
<1>3. /\ call' = [op |-> "in", tag |-> call.tag, next |-> call.next + 1,
                  copy |-> NoPtr, entries |-> call.entries]
      /\ InCall(call') /\ call'.op = call.op /\ call'.tag = call.tag
  BY <1>1, NextTurnFacts
<1>4. VmmPtrs' = VmmPtrs
  BY <1>1 DEF VmmPtrs, Ptrs
<1>5. \A q \in VmmPtrs :
        /\ entries_'[q].tag = entries_[q].tag
        /\ entries_'[q].size = entries_[q].size
        /\ Resident(q)' <=> Resident(q) \/ (Turn.is_vmm /\ q = Turn.original_ptr)
  BY <1>1 DEF Resident
<1>6. ListInv'
  BY <1>1, <1>3, <1>4, <1>5, InTurnListInv
<1> QED BY <1>2, <1>3, <1>6 DEF SwapKept

(* When SwapIn returns every VMM buffer of the tag is back.                *)
LEMMA DoneStep ==
  ASSUME MemoryInv, ListInv, SwapInDone
  PROVE  /\ SwapKept /\ Cells' = Cells /\ call.op = "in" /\ call' = Idle
         /\ \A p \in VmmPtrs : entries_[p].tag = call.tag => Resident(p)
<1>1. /\ call.op = "in" /\ call' = Idle /\ call.next > Len(call.entries)
      /\ out' = out \ {call.tag}
      /\ UNCHANGED <<gpu, va_held, entries_, live_bytes, alive, contexts_, client, manner>>
  BY DEF SwapInDone, allocatorVars
<1>2. MemoryInv' /\ Cells' = Cells
  BY <1>1, RestStep
<1>3. ASSUME NEW p \in VmmPtrs, entries_[p].tag = call.tag, ~Resident(p) PROVE FALSE
  <2> PICK es, k, t0 : es = call.entries /\ k = call.next /\ t0 = call.tag
    OBVIOUS
  <2>1. k \in Nat \ {0}
    BY <1>1, CallShape DEF ListInv, InCall
  <2>2. Entries(t0) = es
    BY <1>1 DEF ListInv, InInv
  <2>3. t0 \in Listed /\ HasEntry(es, p, client[p].data)
    BY <1>3, <2>2 DEF ListInv, AwayInv
  <2>4. ListOk(t0, es)
    BY <2>2, <2>3 DEF ListInv, ListsInv
  <2>5. PICK j \in DOMAIN es : es[j].original_ptr = p
    BY <2>3 DEF HasEntry
  <2>6. es[j].is_vmm
    BY <2>4, <2>5 DEF ListOk, VmmPtrs, MemoryInv, AInv, TypeOK
  <2>7. j < k
    BY <1>1, <2>1, <2>4, <2>5, SeqFacts DEF ListOk
  <2> QED BY <1>1, <1>3, <2>5, <2>6, <2>7 DEF ListInv, InInv
<1>4. ListInv'
  BY <1>1, InEndsListInv
<1> QED BY <1>1, <1>2, <1>3, <1>4 DEF SwapKept

-----------------------------------------------------------------------------
(* Every step, for a client that swaps each tag out once.                  *)

(* What a step does to the buffers, and to the swap under way.             *)
AllOut == \A p \in VmmPtrs : entries_[p].tag = call.tag => ~Resident(p)
AllIn == \A p \in VmmPtrs : entries_[p].tag = call.tag => Resident(p)

Changed ==
  \/ \E va \in Vas \ VmmPtrs, tag \in Tags :
       Cells' = Put(Cells, va, [tag |-> tag, data |-> Garbage, on_gpu |-> TRUE])
  \/ \E p \in VmmPtrs :
       /\ Resident(p)
       /\ \/ \E d \in Data : Cells' = [Cells EXCEPT ![p].data = d]
          \/ Cells' = [q \in DOMAIN Cells \ {p} |-> Cells[q]]

Begins == AtRest /\ Cells' = Cells /\ (OutCall(call') \/ InCall(call'))

Goes ==
  /\ \/ OutCall(call) /\ OutCall(call')
     \/ InCall(call) /\ InCall(call')
  /\ call'.tag = call.tag
  /\ Cells' = Cells \/ Moved

Returns ==
  /\ (OutCall(call) /\ AllOut) \/ (InCall(call) /\ AllIn)
  /\ call' = Idle /\ Cells' = Cells

Throws ==
  /\ \/ InCall(call) /\ ~AllIn
     \/ (OutCall(call) \/ InCall(call)) /\ NoneTagged(call.tag)
  /\ call' = Thrown /\ Cells' = Cells

Effect ==
  \/ call' = call /\ Cells' = Cells
  \/ AtRest /\ call' = call /\ Changed
  \/ Begins \/ Goes \/ Returns \/ Throws

LEMMA NextStep ==
  ASSUME MemoryInv, ListInv, manner \in {"once", "retry"}, SwapNext
  PROVE  SwapKept /\ Effect
<1>1. ASSUME NEW bytes \in Sizes, NEW tag \in Tags, ClientAllocate(bytes, tag)
      PROVE  SwapKept /\ Effect
  <2>1. AtRest /\ call' = call
    BY <1>1 DEF ClientAllocate
  <2>2. SwapKept /\ (Cells' = Cells \/ Changed)
    BY <1>1, AllocateStep DEF Changed
  <2> QED BY <2>1, <2>2 DEF Effect
<1>2. ASSUME NEW p \in Pointers, NEW d \in Data, ClientWrite(p, d)
      PROVE  SwapKept /\ Effect
  <2>1. AtRest /\ call' = call
    BY <1>2 DEF ClientWrite
  <2>2. SwapKept /\ (Cells' = Cells \/ Changed)
    BY <1>2, WriteStep DEF Changed
  <2> QED BY <2>1, <2>2 DEF Effect
<1>3. ASSUME NEW p \in Pointers, ClientDeallocate(p)
      PROVE  SwapKept /\ Effect
  <2>1. AtRest /\ call' = call
    BY <1>3 DEF ClientDeallocate
  <2>2. SwapKept /\ (Cells' = Cells \/ Changed)
    BY <1>3, FreeStep DEF Changed
  <2> QED BY <2>1, <2>2 DEF Effect
<1>4. ASSUME NEW tag, ClientSwapOut(tag) \/ ClientSwapIn(tag)
      PROVE  SwapKept /\ Effect
  BY <1>4, OutBeginsStep, InBeginsStep DEF Effect, Begins
<1>5. /\ call.op = "out" => OutCall(call)
      /\ call.op = "in" => InCall(call)
  BY CallShape DEF ListInv
<1>6. CASE SwapOutRelease
  <2>1. call.op = "out"
    BY <1>6 DEF SwapOutRelease
  <2> QED BY <1>5, <1>6, <2>1, ReleaseStep DEF Effect, Goes
<1>7. CASE SwapOutStore
  BY <1>5, <1>7, StoreStep DEF Effect, Returns, AllOut
<1>8. ASSUME SwapInRestore \/ SwapInReallocate \/ SwapInCopy \/ SwapInNoMemory
      PROVE  SwapKept /\ Effect
  <2>1. call.op = "in"
    BY <1>8 DEF SwapInRestore, SwapInReallocate, SwapInCopy, SwapInNoMemory, InTurn
  <2> QED BY <1>5, <1>8, <2>1, RestoreStep, ReallocateStep, CopyStep, NoMemoryStep
          DEF Effect, Goes
<1>9. CASE SwapInThrows
  BY <1>5, <1>9, ThrowStep DEF Effect, Throws, AllIn
<1>10. CASE SwapInDone
  BY <1>5, <1>10, DoneStep DEF Effect, Returns, AllIn
<1>11. CASE SwapOutThrows
  BY <1>5, <1>11, OutThrowsStep DEF Effect, Throws
<1> QED BY <1>1, <1>2, <1>3, <1>4, <1>6, <1>7, <1>8, <1>9, <1>10, <1>11, NeverOutside,
           NeverSkips
        DEF SwapNext, SwapStep

LEMMA SameManner == ASSUME SwapNext PROVE manner' = manner
  BY DEF SwapNext, SwapStep, ClientAllocate, ClientWrite, ClientDeallocate, ClientSwapOut,
         ClientSwapIn, SwapOut, SwapIn, SwapOutRelease, SwapOutThrows, SwapOutStore,
         SwapOutStoreOutside, SwapInRestore, SwapInThrows, SwapInSkips, SwapInReallocate,
         SwapInCopy, SwapInNoMemory, SwapInDone

LEMMA UnchangedSInv ==
  ASSUME SInv, UNCHANGED swapVars
  PROVE  SInv' /\ Cells' = Cells
<1>1. UNCHANGED <<gpu, va_held, entries_, live_bytes, alive, contexts_, call, client, out,
                  manner>>
  BY DEF swapVars, allocatorVars
<1>2. ASSUME MemoryInv PROVE MemoryInv' /\ Cells' = Cells
  BY <1>1, <1>2, RestStep
<1>3. Cells' = Cells
  BY <1>1, SameCells DEF VmmPtrs, Ptrs
<1>4. ASSUME ListInv PROVE ListInv'
  <2>1. Stored' = Stored /\ Listed' = Listed /\ \A t : Entries(t)' = Entries(t)
    BY <1>1 DEF Stored, Listed, Entries, Found
  <2>2. CallType' /\ ContextsInv' /\ OutInv' /\ InInv'
    <3>1. CallType' /\ ContextsInv'
      BY <1>1, <1>4 DEF ListInv, CallType, AtRest, ContextsInv
    <3>2. OutInv'
      BY <1>1, <1>4, <2>1 DEF ListInv, OutInv, Owned, VmmPtrs, Ptrs, Resident
    <3>3. InInv'
      <4>1. PICK t, l : t = call.tag /\ l = Entries(t) /\ l = Entries(t)'
        BY <2>1
      <4> QED BY <1>1, <1>4, <4>1 DEF ListInv, InInv, Resident
    <3> QED BY <3>1, <3>2, <3>3
  <2>3. ListsInv'
    BY <1>4, <2>1 DEF ListInv, ListsInv
  <2>4. AwayInv'
    BY <1>1, <1>4, <2>1, AwaySame DEF ListInv
  <2>5. WaitInv'
    <3> SUFFICES ASSUME NEW t \in out
                 PROVE  (Owned(t, Entries(t)) /\ Awaits(Entries(t), Reach(t)))'
      BY <1>1, <1>4, <2>1 DEF WaitInv, ListInv
    <3>1. PICK l, k : l = Entries(t) /\ l = Entries(t)' /\ k = Reach(t) /\ k = Reach(t)'
      BY <1>1, <2>1 DEF Reach
    <3>2. Owned(t, l) /\ Awaits(l, k)
      BY <1>4, <3>1 DEF WaitInv, ListInv
    <3>3. Owned(t, l)' /\ Awaits(l, k)'
      BY <1>1, <3>2 DEF Owned, Awaits, Gone, Resident, VmmPtrs, Ptrs
    <3> QED BY <3>1, <3>3
  <2> QED BY <2>2, <2>3, <2>4, <2>5 DEF ListInv
<1> QED BY <1>1, <1>2, <1>3, <1>4 DEF SInv

LEMMA NextSInv ==
  ASSUME SInv, [SwapNext]_swapVars
  PROVE  SInv'
<1>1. CASE UNCHANGED swapVars
  BY <1>1, UnchangedSInv
<1>2. CASE SwapNext
  BY <1>2, SameManner, NextStep DEF SInv, SwapKept
<1> QED BY <1>1, <1>2

LEMMA SwapInvariance == SwapSpec => []SInv
<1>1. SwapInit => SInv
  BY InitMemoryInv, InitListInv DEF SInv, SwapInit
<1> QED BY <1>1, NextSInv, PTL DEF SwapSpec

-----------------------------------------------------------------------------
(* The theorems.                                                           *)

(* Whatever a client that swaps each tag out once allocates, writes, frees *)
(* and swaps, in any order, and for a client that calls SwapIn again after *)
(* it has thrown: between calls each VMM buffer that is on the GPU holds   *)
(* what the client wrote to it last, at its old address.                   *)
THEOREM SwapKeepsData == SwapSpec => []DataIntactOnce
<1>1. SInv => DataIntactOnce
  <2> SUFFICES ASSUME SInv, manner # "again", NEW p \in Vas \cap Ptrs \cap DOMAIN client,
                      Resident(p)
               PROVE  Contents(gpu, p) = client[p].data
    BY DEF DataIntactOnce, DataIntact
  <2>1. p \in VmmPtrs
    BY DEF SInv, MemoryInv, AInv, TypeOK, VmmPtrs
  <2> QED BY <2>1 DEF SInv, MemoryInv, Holds
<1> QED BY <1>1, SwapInvariance, PTL

(* The state of SwapSpace.                                                 *)
MovingOf(c) == IF c \in {Idle, Thrown} THEN c ELSE [op |-> c.op, tag |-> c.tag]

AsSpace ==
  IF manner = "again" THEN SwapStore = << >> /\ SwapMoving = Idle
                      ELSE SwapStore = Cells /\ SwapMoving = MovingOf(call)

LEMMA SpaceState == SInv => AsSpace
<1> SUFFICES ASSUME SInv PROVE AsSpace
  OBVIOUS
<1>1. CASE manner = "again"
  BY <1>1 DEF AsSpace, SwapStore, SwapMoving
<1>2. CASE manner # "again"
  <2>1. MemoryInv /\ ListInv
    BY <1>2 DEF SInv
  <2>2. Vas \cap Ptrs = VmmPtrs
    BY <2>1 DEF MemoryInv, AInv, TypeOK, VmmPtrs
  <2>3. ASSUME NEW p \in VmmPtrs PROVE DataOf(p) = client[p].data
    <3>1. CASE Resident(p)
      BY <2>1, <3>1 DEF DataOf, MemoryInv, Holds
    <3>2. CASE ~Resident(p)
      <4> PICK es : es = Entries(entries_[p].tag)
        OBVIOUS
      <4>1. HasEntry(es, p, client[p].data) /\ ListOk(entries_[p].tag, es)
        BY <2>1, <3>2 DEF ListInv, AwayInv, ListsInv
      <4> DEFINE j == CHOOSE j \in DOMAIN es : es[j].original_ptr = p
      <4>2. DataOf(p) = es[j].data
        BY <3>2 DEF DataOf
      <4>3. j \in DOMAIN es /\ es[j].original_ptr = p
        BY <4>1 DEF HasEntry
      <4> HIDE DEF j
      <4> QED BY <4>1, <4>2, <4>3 DEF HasEntry, ListOk
    <3> QED BY <3>1, <3>2
  <2>4. SwapStore = Cells
    BY <1>2, <2>2, <2>3 DEF SwapStore, Cells, Cell
  <2> QED BY <1>2, <2>4 DEF AsSpace, SwapMoving, MovingOf, AtRest
<1> QED BY <1>1, <1>2

LEMMA MovingFacts ==
  ASSUME NEW c
  PROVE  /\ c \in {Idle, Thrown} => MovingOf(c) = c
         /\ OutCall(c) => MovingOf(c) = [op |-> "out", tag |-> c.tag]
         /\ InCall(c) => MovingOf(c) = [op |-> "in", tag |-> c.tag]
<1>1. Idle.op = "none" /\ Thrown.op = "thrown"
  BY DEF Idle, Thrown
<1>2. OutCall(c) => c.op = "out" /\ c \notin {Idle, Thrown}
  BY <1>1 DEF OutCall
<1>3. InCall(c) => c.op = "in" /\ c \notin {Idle, Thrown}
  BY <1>1 DEF InCall
<1> QED BY <1>2, <1>3 DEF MovingOf

LEMMA EffectIsSpace ==
  ASSUME Effect, SwapStore = Cells, SwapStore' = Cells', MemoryInv,
         SwapMoving = MovingOf(call), SwapMoving' = MovingOf(call')
  PROVE  [Space!Next]_Space!vars
<1>1. ASSUME Cells' = Cells, SwapMoving' = SwapMoving
      PROVE  UNCHANGED Space!vars
  BY <1>1 DEF Space!vars
<1>2. AtRest => Space!AtRest
  BY MovingFacts DEF AtRest, Space!AtRest, Space!Still, Space!Thrown, Idle, Thrown
<1>3. /\ DOMAIN Cells = VmmPtrs
      /\ \A p \in VmmPtrs : Cells[p].tag = entries_[p].tag /\ Cells[p].on_gpu = Resident(p)
  BY CellFacts DEF Cells
<1>4. CASE call' = call /\ Cells' = Cells
  BY <1>1, <1>4
<1>5. CASE AtRest /\ call' = call /\ Changed
  <2>1. SwapMoving' = SwapMoving
    BY <1>5
  <2>2. ASSUME NEW va \in Vas \ VmmPtrs, NEW tag \in Tags,
               Cells' = Put(Cells, va, [tag |-> tag, data |-> Garbage, on_gpu |-> TRUE])
        PROVE  Space!Allocate(va, tag)
    BY <1>2, <1>3, <1>5, <2>1, <2>2 DEF Space!Allocate, Space!Put, Put
  <2>3. ASSUME NEW p \in VmmPtrs, Resident(p), NEW d \in Data,
               Cells' = [Cells EXCEPT ![p].data = d]
        PROVE  Space!Write(p, d)
    BY <1>2, <1>3, <1>5, <2>1, <2>3 DEF Space!Write
  <2>4. ASSUME NEW p \in VmmPtrs, Resident(p),
               Cells' = [q \in DOMAIN Cells \ {p} |-> Cells[q]]
        PROVE  Space!Free(p)
    BY <1>2, <1>3, <1>5, <2>1, <2>4 DEF Space!Free
  <2> QED BY <1>3, <1>5, <2>2, <2>3, <2>4 DEF Changed, Space!Next
<1>6. CASE Begins
  <2>1. SwapMoving'.op \in {"out", "in"}
    BY <1>6, MovingFacts DEF Begins
  <2>2. Space!Begin
    BY <1>2, <1>6, <2>1 DEF Begins, Space!Begin
  <2> QED BY <2>2 DEF Space!Next
<1>7. ASSUME OutCall(call) \/ InCall(call)
      PROVE  /\ ~Space!AtRest
             /\ SwapMoving.tag = call.tag /\ SwapMoving.op = call.op /\ call.op \in {"out", "in"}
  <2>1. call.op \in {"out", "in"} /\ SwapMoving = [op |-> call.op, tag |-> call.tag]
    BY <1>7, MovingFacts DEF OutCall, InCall
  <2> QED BY <2>1 DEF Space!AtRest, Space!Still, Space!Thrown
<1>8. CASE Goes
  <2>1. SwapMoving' = SwapMoving
    <3>1. CASE OutCall(call) /\ OutCall(call')
      BY <1>8, <3>1, MovingFacts DEF Goes
    <3>2. CASE InCall(call) /\ InCall(call')
      BY <1>8, <3>2, MovingFacts DEF Goes
    <3> QED BY <1>8, <3>1, <3>2 DEF Goes
  <2>2. CASE Moved
    <3>1. PICK p \in VmmPtrs : /\ entries_[p].tag = call.tag
                               /\ Resident(p) <=> call.op = "out"
                               /\ Cells' = [Cells EXCEPT ![p].on_gpu = ~@]
      BY <2>2 DEF Moved
    <3>2. ~Space!AtRest /\ SwapMoving.tag = call.tag /\ SwapMoving.op = call.op
      BY <1>7, <1>8 DEF Goes
    <3>3. p \in Space!Left
      BY <1>3, <3>1, <3>2 DEF Space!Left
    <3>4. Space!Move
      BY <2>1, <3>1, <3>2, <3>3 DEF Space!Move
    <3> QED BY <3>4 DEF Space!Next
  <2> QED BY <1>1, <1>8, <2>1, <2>2 DEF Goes
<1>9. CASE Returns
  <2>1. ~Space!AtRest /\ SwapMoving.tag = call.tag /\ SwapMoving.op = call.op
    BY <1>7, <1>9 DEF Returns
  <2>2. Space!Left = {}
    <3>1. CASE OutCall(call) /\ AllOut
      BY <1>3, <2>1, <3>1 DEF Space!Left, AllOut, OutCall
    <3>2. CASE InCall(call) /\ AllIn
      BY <1>3, <2>1, <3>2 DEF Space!Left, AllIn, InCall
    <3> QED BY <1>9, <3>1, <3>2 DEF Returns
  <2>3. SwapMoving' = Space!Still
    BY <1>9, MovingFacts DEF Returns, Space!Still, Idle
  <2>4. Space!Return
    BY <1>9, <2>1, <2>2, <2>3 DEF Returns, Space!Return
  <2> QED BY <2>4 DEF Space!Next
<1>10. CASE Throws
  <2>1. ~Space!AtRest /\ SwapMoving.tag = call.tag /\ SwapMoving.op = call.op
    BY <1>7, <1>10 DEF Throws
  <2>2. \/ SwapMoving.op = "in" /\ Space!Left # {}
        \/ \A b \in DOMAIN Cells : Cells[b].tag # SwapMoving.tag
    <3>1. CASE InCall(call) /\ ~AllIn
      <4>1. SwapMoving.op = "in"
        BY <2>1, <3>1 DEF InCall
      <4> QED BY <1>3, <2>1, <3>1, <4>1 DEF AllIn, Space!Left
    <3>2. CASE NoneTagged(call.tag)
      BY <1>3, <2>1, <3>2 DEF NoneTagged
    <3> QED BY <1>10, <3>1, <3>2 DEF Throws
  <2>3. SwapMoving' = Space!Thrown
    BY <1>10, MovingFacts DEF Throws, Space!Thrown, Thrown
  <2>4. Space!Throw
    BY <1>10, <2>1, <2>2, <2>3 DEF Throws, Space!Throw
  <2> QED BY <2>4 DEF Space!Next
<1> QED BY <1>4, <1>5, <1>6, <1>8, <1>9, <1>10 DEF Effect

(* The swap manager implements SwapSpace: a buffer keeps its name, its tag *)
(* and its data wherever it is, SwapOut and SwapIn move the buffers of     *)
(* their tag one by one and return when all have moved, and a swap throws  *)
(* only as a SwapIn of which some are missing, or for a tag of none of     *)
(* them (the tag of the buffers below the granularity).                    *)
THEOREM SwapRefinement == SwapSpec => ImplementsSwapSpace
<1>1. SwapInit /\ AsSpace => Space!Init
  <2> SUFFICES ASSUME SwapInit, AsSpace PROVE Space!Init
    OBVIOUS
  <2>1. VmmPtrs = {} /\ call = Idle
    BY DEF SwapInit, Init, VmmPtrs, Ptrs
  <2>2. Cells = << >> /\ MovingOf(call) = Idle
    BY <2>1, MovingFacts DEF Cells
  <2> QED BY <2>2 DEF AsSpace, Space!Init, Space!Still, Idle
<1>2. SInv /\ AsSpace /\ SInv' /\ AsSpace' /\ [SwapNext]_swapVars => [Space!Next]_Space!vars
  <2> SUFFICES ASSUME SInv, AsSpace, SInv', AsSpace', [SwapNext]_swapVars
               PROVE  [Space!Next]_Space!vars
    OBVIOUS
  <2>1. manner' = manner
    BY SameManner DEF swapVars
  <2>2. CASE manner = "again"
    BY <2>1, <2>2 DEF AsSpace, Space!vars
  <2>3. CASE manner # "again"
    <3>1. Effect
      <4>1. CASE SwapNext
        BY <2>3, <4>1, NextStep DEF SInv
      <4>2. CASE UNCHANGED swapVars
        BY <4>2, UnchangedSInv DEF Effect, swapVars
      <4> QED BY <4>1, <4>2
    <3>2. /\ SwapStore = Cells /\ SwapMoving = MovingOf(call)
          /\ SwapStore' = Cells' /\ SwapMoving' = MovingOf(call')
      BY <2>1, <2>3 DEF AsSpace
    <3> QED BY <2>3, <3>1, <3>2, EffectIsSpace DEF SInv
  <2> QED BY <2>2, <2>3
<1> QED BY <1>1, <1>2, SpaceState, SwapInvariance, PTL
        DEF SwapSpec, Space!Spec, ImplementsSwapSpace

-----------------------------------------------------------------------------
(* live_bytes, for every manner of the client: a tag may be swapped out    *)
(* again, and contexts_ may overflow.                                      *)

MemoryCountable == Vram < SizeMod

HeapInv == AInv /\ Mirrored /\ Unshared /\ MeterInv

(* Each VMM buffer that has memory has a handle of its own, of memory that *)
(* is at least its size.                                                   *)
LEMMA HeapCountable ==
  ASSUME MemoryCountable, HeapInv
  PROVE  Countable
<1> DEFINE V == Residents \cap Vas
           w == Weights(entries_)
           m == Weights(gpu.mem)
           at == [p \in V |-> entries_[p].physical_handle]
<1>1. AInv /\ MeterInv /\ Mirrored /\ Unshared
  BY DEF HeapInv
<1>2. Residents \in SUBSET Ptrs /\ V \in SUBSET Ptrs /\ V \subseteq VmmPtrs
  BY <1>1, EntryFacts DEF Residents, VmmPtrs
<1>3. /\ IsFiniteSet(V) /\ Weighs(w, V) /\ BytesOf(V) = SumFunctionOnSet(w, V)
      /\ BytesOf(V) \in Nat /\ BytesOf(Residents) \in Nat
  BY <1>1, <1>2, SizesTotal
<1>4. /\ HasSizes(gpu.mem) /\ HasSizes(gpu.linear)
      /\ Bytes(gpu.mem) + Bytes(gpu.linear) <= Vram
  BY <1>1 DEF MeterInv, MemoryFits
<1>5. /\ IsFiniteSet(DOMAIN gpu.mem) /\ Weighs(m, DOMAIN gpu.mem)
      /\ Bytes(gpu.mem) = SumFunctionOnSet(m, DOMAIN gpu.mem)
      /\ Bytes(gpu.mem) \in Nat /\ Bytes(gpu.linear) \in Nat
  BY <1>4, BytesNat, BytesSum DEF HasSizes
<1>6. ASSUME NEW p \in V
      PROVE  /\ p \in DOMAIN gpu.maps /\ gpu.maps[p].handle = at[p]
             /\ at[p] \in DOMAIN gpu.mem /\ w[p] <= m[at[p]]
  <2>1. entries_[p].is_vmm /\ Resident(p) /\ p \in Ptrs
    BY <1>2 DEF VmmPtrs, Residents
  <2>2. /\ p \in DOMAIN gpu.maps /\ gpu.maps[p].handle = entries_[p].physical_handle
        /\ entries_[p].size <= gpu.mem[gpu.maps[p].handle].size
    BY <1>1, <2>1, BackedFact DEF Backed, Accessible
  <2>3. gpu.maps[p].handle \in DOMAIN gpu.mem
    BY <1>1, <2>2 DEF AInv, WellFormed
  <2> QED BY <2>1, <2>2, <2>3 DEF Weights, Ptrs
<1>7. ASSUME NEW p \in V, NEW q \in V, at[p] = at[q]
      PROVE  p = q
  <2> HIDE DEF at, V
  <2> QED BY <1>1, <1>6, <1>7 DEF Unshared
<1> HIDE DEF at, w, m, V
<1>8. SumFunctionOnSet(w, V) <= SumFunctionOnSet(m, DOMAIN gpu.mem)
  BY <1>3, <1>5, <1>6, <1>7, SumAtMost
<1>9. BytesOf(V) <= Bytes(gpu.mem)
  BY <1>3, <1>5, <1>8
<1>10. BytesOf(Residents) <= BytesOf(V) + Bytes(gpu.linear)
  BY <1>1, ResidentBytes DEF V
<1>11. Vram < SizeMod /\ Vram \in Nat /\ SizeMod \in Nat
  BY VramAssumption, SizeModAssumption DEF MemoryCountable
<1>12. BytesOf(Residents) < SizeMod
  BY <1>3, <1>4, <1>5, <1>9, <1>10, <1>11
<1> QED BY <1>12 DEF Countable

LEMMA HeapCountableNext ==
  ASSUME MemoryCountable
  PROVE  HeapInv' => Countable'
<1>1. HeapInv => Countable
  BY HeapCountable
<1> QED BY <1>1, PTL

(* What a step does to the memory and to what is counted.                  *)
HeapKept == HeapInv' /\ (Exact /\ Countable' => Exact')

LEMMA UnsharedFewer ==
  ASSUME Unshared, DOMAIN gpu'.maps \subseteq DOMAIN gpu.maps,
         \A x \in DOMAIN gpu'.maps : gpu'.maps[x] = gpu.maps[x]
  PROVE  Unshared'
  BY DEF Unshared

LEMMA UnsharedMore ==
  ASSUME AInv, Unshared, NEW va, NEW h, h \notin DOMAIN gpu.mem,
         DOMAIN gpu'.maps = DOMAIN gpu.maps \cup {va}, gpu'.maps[va].handle = h,
         \A x \in DOMAIN gpu.maps : gpu'.maps[x] = gpu.maps[x]
  PROVE  Unshared'
<1>1. \A x \in DOMAIN gpu.maps : gpu.maps[x].handle \in DOMAIN gpu.mem
  BY DEF AInv, WellFormed
<1> QED BY <1>1 DEF Unshared

LEMMA AllocateVmmHeap ==
  ASSUME HeapInv, NEW bytes \in Sizes, NEW tag \in Tags, NEW va, NEW h,
         AllocateVmm(bytes, tag, va, h)
  PROVE  HeapKept
<1>1. AInv' /\ Mirrored' /\ MeterInv'
  BY AllocateVmmAInv, AllocateVmmMirrored, AllocateVmmMeter DEF HeapInv
<1>2. Unshared'
  BY AllocateVmmFacts, UnsharedMore DEF HeapInv, HasAllocated
<1> QED BY <1>1, <1>2, AllocateVmmExact DEF HeapInv, HeapKept

LEMMA AllocateFallbackHeap ==
  ASSUME HeapInv, NEW bytes \in Sizes, NEW ptr \in Linears, AllocateFallback(bytes, ptr)
  PROVE  HeapKept
<1>1. AInv' /\ Mirrored' /\ MeterInv'
  BY AllocateFallbackAInv, AllocateFallbackMirrored, AllocateFallbackMeter DEF HeapInv
<1>2. Unshared'
  BY AllocateFallbackFacts, UnsharedFewer DEF HeapInv, HasFallback
<1> QED BY <1>1, <1>2, AllocateFallbackExact DEF HeapInv, HeapKept

LEMMA DeallocateHeap ==
  ASSUME HeapInv, NEW p \in Ptrs, Resident(p), Deallocate(p)
  PROVE  HeapKept
<1>1. AInv' /\ Mirrored' /\ MeterInv'
  BY DeallocateAInv, DeallocateMirrored, DeallocateMeter DEF HeapInv
<1>2. Unshared'
  BY DeallocateMaps, UnsharedFewer DEF HeapInv
<1> QED BY <1>1, <1>2, DeallocateExact DEF HeapInv, HeapKept

LEMMA ReleaseHeap ==
  ASSUME HeapInv, NEW p \in Ptrs, Resident(p), ReleasePhysical(p)
  PROVE  HeapKept
<1>1. AInv' /\ Mirrored' /\ MeterInv'
  BY ReleasePhysicalAInv, ReleasePhysicalMirrored, ReleasePhysicalMeter DEF HeapInv
<1>2. Unshared'
  BY ReleasePhysicalFacts, UnsharedFewer DEF HeapInv, HasUnbacked
<1> QED BY <1>1, <1>2, ReleasePhysicalExact DEF HeapInv, HeapKept

LEMMA RestoreHeap ==
  ASSUME HeapInv, NEW p \in Ptrs, NEW h, NEW d, RestorePhysical(p, h, d)
  PROVE  HeapKept
<1>1. AInv' /\ Mirrored' /\ MeterInv'
  BY RestorePhysicalAInv, RestorePhysicalMirrored, RestorePhysicalMeter DEF HeapInv
<1>2. HasRestored(p, h)
  BY RestorePhysicalFacts DEF HeapInv
<1>3. Unshared'
  BY <1>2, UnsharedMore DEF HeapInv, HasRestored
<1> QED BY <1>1, <1>3, RestorePhysicalExact DEF HeapInv, HeapKept

LEMMA RestoreThrowsHeap ==
  ASSUME HeapInv, NEW p \in Ptrs, RestorePhysicalThrows(p)
  PROVE  HeapKept
<1>1. AInv' /\ Mirrored' /\ MeterInv'
  BY RestorePhysicalThrowsAInv, RestorePhysicalThrowsMirrored, RestorePhysicalThrowsMeter
  DEF HeapInv
<1>2. gpu' = gpu \/ \E h : HasGrown(p, AllocSize(entries_[p].size), h)
  BY RestorePhysicalThrowsFacts DEF HeapInv
<1>3. Unshared'
  BY <1>2, UnsharedGrown, UnsharedFewer DEF HeapInv
<1> QED BY <1>1, <1>3, RestorePhysicalThrowsExact DEF HeapInv, HeapKept

LEMMA AllocateVmmThrowsHeap ==
  ASSUME HeapInv, NEW bytes \in Sizes, NEW va, AllocateVmmThrows(bytes, va)
  PROVE  HeapKept
<1>1. AInv' /\ Mirrored' /\ MeterInv'
  BY AllocateVmmThrowsAInv, AllocateVmmThrowsMirrored, AllocateVmmThrowsMeter DEF HeapInv
<1>2. /\ UNCHANGED <<entries_, live_bytes>>
      /\ gpu' = gpu \/ \E h : HasGrown(va, AllocSize(bytes), h)
  BY AllocateVmmThrowsFacts DEF HeapInv
<1>3. Unshared'
  BY <1>2, UnsharedGrown, UnsharedFewer DEF HeapInv
<1> QED BY <1>1, <1>2, <1>3, SameExact DEF HeapInv, HeapKept

LEMMA WriteHeap ==
  ASSUME HeapInv, NEW ptr, NEW d, gpu' = Write(gpu, ptr, d),
         UNCHANGED <<va_held, entries_, live_bytes, alive>>
  PROVE  HeapKept
<1>1. gpu'.maps = gpu.maps
  BY WriteFacts DEF HeapInv, AInv
<1>2. AInv' /\ MeterInv'
  BY WriteAInv, WriteMeter DEF HeapInv
<1>3. Mirrored' /\ Unshared'
  BY <1>1 DEF HeapInv, Mirrored, Unshared, VmmPtrs, Ptrs, Resident, Accessible
<1> QED BY <1>2, <1>3, SameExact DEF HeapInv, HeapKept

(* Nothing happens to the buffers.                                         *)
LEMMA SameHeap ==
  ASSUME HeapInv, AInv', UNCHANGED <<gpu, entries_, live_bytes>>
  PROVE  HeapKept
<1>1. Mirrored' /\ Unshared'
  BY SameMirrored DEF HeapInv, Unshared
<1> QED BY <1>1, SameMeter, SameExact DEF HeapInv, HeapKept
(* The calls in progress, and the contexts, for every manner: sizes are    *)
(* sizes that were asked for, and what SwapOut has still to release has    *)
(* its memory.                                                             *)
Sized(es) == IsSeq(es) /\ \A j \in DOMAIN es : es[j].size \in Sizes

Waiting(e) == e.original_ptr \in Ptrs /\ Resident(e.original_ptr)

TurnsInv ==
  /\ CallType \/ call = Outside
  /\ IsSeq(contexts_)
  /\ \A i \in DOMAIN contexts_ : Sized(contexts_[i].entries)
  /\ call.op \in {"out", "in"} => Sized(call.entries)
  /\ call.op = "out" =>
       /\ \A i, j \in DOMAIN call.entries :
            call.entries[i].original_ptr = call.entries[j].original_ptr => i = j
       /\ \A j \in DOMAIN call.entries : j >= call.next => Waiting(call.entries[j])

LEMMA TurnsShape ==
  ASSUME TurnsInv
  PROVE  /\ AtRest => call.op \notin {"out", "in"}
         /\ call.op = "out" => OutCall(call) /\ Sized(call.entries)
         /\ call.op = "in" => InCall(call) /\ Sized(call.entries)
<1>1. CASE call = Outside
  BY <1>1 DEF Outside, Idle, Thrown, AtRest
<1>2. CASE CallType
  BY <1>2, CallShape DEF TurnsInv
<1> QED BY <1>1, <1>2 DEF TurnsInv

LEMMA InitTurns == SwapInit => TurnsInv
<1> SUFFICES ASSUME SwapInit PROVE TurnsInv
  OBVIOUS
<1>1. contexts_ = << >> /\ call = Idle /\ AtRest
  BY DEF SwapInit, AtRest
<1>2. IsSeq(contexts_) /\ DOMAIN contexts_ = {} /\ call.op = "none"
  BY <1>1, EmptySeq DEF IsSeq, Idle
<1> QED BY <1>1, <1>2 DEF TurnsInv, CallType

LEMMA SameTurns ==
  ASSUME TurnsInv, contexts_' = contexts_,
         CallType' \/ call' = Outside, call'.op # "out",
         call'.op = "in" => Sized(call'.entries)
  PROVE  TurnsInv'
  BY DEF TurnsInv, Sized

(* The turn of SwapIn's loop ends, or Allocate has returned in it.         *)
LEMMA InTurns ==
  ASSUME TurnsInv, contexts_' = contexts_, call.op = "in",
         \/ NextTurn
         \/ call' = [call EXCEPT !.copy = NoPtr, !.next = @ + 1]
         \/ \E ptr : call' = [call EXCEPT !.copy = ptr]
  PROVE  TurnsInv'
<1>1. InCall(call) /\ Sized(call.entries)
  BY TurnsShape
<1>2. CASE NextTurn \/ call' = [call EXCEPT !.copy = NoPtr, !.next = @ + 1]
  <2>1. PICK copy :
          call' = [op |-> "in", tag |-> call.tag, next |-> call.next + 1,
                   copy |-> copy, entries |-> call.entries]
    <3>1. CASE NextTurn
      BY <1>1, <3>1 DEF InCall, NextTurn
    <3>2. CASE call' = [call EXCEPT !.copy = NoPtr, !.next = @ + 1]
      BY <1>1, <3>2 DEF InCall
    <3> QED BY <1>2, <3>1, <3>2
  <2>2. InCall(call') /\ call'.op = "in" /\ call'.entries = call.entries
    BY <1>1, <2>1 DEF InCall
  <2> QED BY <1>1, <2>2, SameTurns DEF CallType
<1>3. CASE \E ptr : call' = [call EXCEPT !.copy = ptr]
  <2>1. InCall(call') /\ call'.op = "in" /\ call'.entries = call.entries
    BY <1>1, <1>3 DEF InCall
  <2> QED BY <1>1, <2>1, SameTurns DEF CallType
<1> QED BY <1>2, <1>3

LEMMA TurnSized ==
  ASSUME TurnsInv, call.op \in {"out", "in"}, call.next <= Len(call.entries)
  PROVE  call.next \in DOMAIN call.entries /\ Turn.size \in Sizes
<1>1. call.next \in Nat \ {0} /\ Sized(call.entries)
  BY TurnsShape DEF OutCall, InCall
<1>2. call.next \in DOMAIN call.entries
  BY <1>1, SeqFacts DEF Sized
<1> QED BY <1>1, <1>2 DEF Sized, Turn

LEMMA OutBeginsTurns ==
  ASSUME HeapInv, TurnsInv, NEW tag, ClientSwapOut(tag)
  PROVE  TurnsInv'
<1>1. /\ \A p \in GetAllocationsByTag(tag) : Resident(p)
      /\ UNCHANGED <<entries_, contexts_>>
  BY DEF ClientSwapOut, SwapOut, allocatorVars
<1>2. PICK order \in SetToSeqs(GetAllocationsByTag(tag)) :
        call' = [op |-> "out", tag |-> tag, next |-> 1,
                 entries |-> [i \in DOMAIN order |-> Saved(order[i])]]
  BY DEF ClientSwapOut, SwapOut
<1>3. PICK es : es = [i \in DOMAIN order |-> Saved(order[i])]
  OBVIOUS
<1>4. HasSaved(es, tag)
  BY <1>3, SavedFacts DEF HeapInv, MeterInv
<1>5. /\ call' = [op |-> "out", tag |-> tag, next |-> 1, entries |-> es]
      /\ call'.op = "out" /\ call'.entries = es
  BY <1>2, <1>3
<1>6. ASSUME NEW j \in DOMAIN es
      PROVE  /\ es[j].original_ptr \in Ptrs /\ Resident(es[j].original_ptr)
             /\ es[j].size \in Sizes
  <2>1. PICK p : p = es[j].original_ptr /\ p \in GetAllocationsByTag(tag) /\ es[j] = Saved(p)
    BY <1>4 DEF HasSaved
  <2>2. p \in Ptrs /\ es[j].size = entries_[p].size
    BY <2>1 DEF GetAllocationsByTag, Saved
  <2> QED BY <1>1, <2>1, <2>2, EntryFacts DEF HeapInv
<1>7. Sized(es) /\ CallType'
  BY <1>4, <1>5, <1>6 DEF Sized, HasSaved, CallType, OutCall
<1>8. \A j \in DOMAIN es : Waiting(es[j])'
  BY <1>1, <1>6 DEF Waiting, Ptrs, Resident
<1> QED BY <1>1, <1>4, <1>5, <1>7, <1>8 DEF TurnsInv, HasSaved, Sized

LEMMA InBeginsTurns ==
  ASSUME TurnsInv, NEW tag, ClientSwapIn(tag)
  PROVE  TurnsInv'
<1>1. PICK i \in DOMAIN contexts_ :
        /\ call' = [op |-> "in", tag |-> tag, next |-> 1, copy |-> NoPtr,
                    entries |-> contexts_[i].entries]
        /\ contexts_' = contexts_
  BY DEF ClientSwapIn, SwapIn
<1>2. PICK es : es = contexts_[i].entries /\ Sized(es)
  BY DEF TurnsInv
<1>3. InCall(call') /\ call'.op = "in" /\ call'.entries = es
  BY <1>1, <1>2 DEF InCall
<1> QED BY <1>1, <1>2, <1>3, SameTurns DEF CallType

(* The other buffers of the list still have their memory.                  *)
LEMMA ReleaseHeapTurns ==
  ASSUME HeapInv, TurnsInv, SwapOutRelease
  PROVE  HeapKept /\ TurnsInv'
<1> PICK es, k, p : es = call.entries /\ k = call.next /\ p = es[k].original_ptr
  OBVIOUS
<1>1. /\ call.op = "out" /\ k <= Len(es) /\ contexts_' = contexts_
      /\ call' = [call EXCEPT !.next = @ + 1]
      /\ ReleasePhysical(p) \/ Deallocate(p)
  BY DEF SwapOutRelease, Turn
<1>2. OutCall(call) /\ Sized(es) /\ k \in DOMAIN es
  BY <1>1, TurnsShape, TurnSized
<1>3. OutCall(call') /\ call'.op = "out" /\ call'.next = k + 1 /\ call'.entries = es
  BY <1>1, <1>2 DEF OutCall
<1>4. /\ \A i, j \in DOMAIN es : es[i].original_ptr = es[j].original_ptr => i = j
      /\ \A j \in DOMAIN es : j >= k => Waiting(es[j])
      /\ k \in Nat /\ DOMAIN es \subseteq Nat
  BY <1>1, <1>2, SeqFacts DEF TurnsInv, OutCall, Sized
<1>5. p \in Ptrs /\ Resident(p)
  BY <1>2, <1>4 DEF Waiting
<1>6. HeapKept
  BY <1>1, <1>5, ReleaseHeap, DeallocateHeap
<1>7. \A q \in Ptrs : q # p => q \in Ptrs' /\ entries_'[q] = entries_[q]
  <2>1. CASE ReleasePhysical(p)
    BY <1>5, <2>1, ReleasePhysicalFacts DEF HeapInv, HasAssigned, Ptrs
  <2>2. CASE Deallocate(p)
    BY <2>2 DEF Deallocate, RestrictDomain, Restrict, Ptrs
  <2> QED BY <1>1, <2>1, <2>2
<1>8. ASSUME NEW j \in DOMAIN es, j >= k + 1
      PROVE  Waiting(es[j])'
  <2>1. j # k /\ Waiting(es[j])
    BY <1>4, <1>8
  <2>2. es[j].original_ptr # p
    BY <1>2, <1>4, <2>1
  <2> QED BY <1>7, <2>1, <2>2 DEF Waiting, Resident
<1> QED BY <1>1, <1>2, <1>3, <1>4, <1>6, <1>8 DEF TurnsInv, CallType, Sized

LEMMA StoreTurns ==
  ASSUME TurnsInv, SwapOutStore \/ SwapOutStoreOutside
  PROVE  TurnsInv'
<1>1. CASE SwapOutStore
  <2> DEFINE c == [tag |-> call.tag, entries |-> call.entries]
  <2>1. contexts_' = Append(contexts_, c) /\ call' = Idle /\ call.op = "out"
    BY <1>1 DEF SwapOutStore
  <2>2. c.entries = call.entries /\ Sized(call.entries) /\ IsSeq(contexts_)
    BY <2>1, TurnsShape DEF TurnsInv
  <2> HIDE DEF c
  <2>3. /\ IsSeq(contexts_') /\ DOMAIN contexts_' = DOMAIN contexts_ \cup {Len(contexts_) + 1}
        /\ contexts_'[Len(contexts_) + 1] = c
        /\ \A i \in DOMAIN contexts_ : contexts_'[i] = contexts_[i]
    BY <2>1, <2>2, AppendFacts
  <2>4. \A i \in DOMAIN contexts_' : Sized(contexts_'[i].entries)
    BY <2>2, <2>3 DEF TurnsInv
  <2>5. AtRest' /\ call'.op = "none"
    BY <2>1 DEF AtRest, Idle
  <2> QED BY <2>3, <2>4, <2>5 DEF TurnsInv, CallType, Sized
<1>2. CASE SwapOutStoreOutside
  BY <1>2, SameTurns DEF SwapOutStoreOutside, Outside
<1> QED BY <1>1, <1>2

LEMMA RestTurns ==
  ASSUME TurnsInv, AtRest, UNCHANGED <<contexts_, call>>
  PROVE  TurnsInv'
<1>1. call.op \notin {"out", "in"}
  BY TurnsShape
<1> QED BY <1>1, SameTurns DEF CallType, AtRest

LEMMA NextHeap ==
  ASSUME HeapInv, TurnsInv, [SwapNext]_swapVars
  PROVE  HeapKept /\ TurnsInv'
<1>1. ASSUME UNCHANGED allocatorVars
      PROVE  HeapKept
  <2>1. UNCHANGED <<gpu, va_held, entries_, live_bytes>> /\ alive' \in BOOLEAN
    BY <1>1 DEF allocatorVars, HeapInv, AInv, TypeOK
  <2> QED BY <2>1, SameAInv, SameHeap DEF HeapInv
<1>2. CASE UNCHANGED swapVars
  <2>1. HeapKept /\ UNCHANGED <<contexts_, call, entries_>>
    BY <1>1, <1>2 DEF swapVars, allocatorVars
  <2>2. CallType' \/ call' = Outside
    BY <2>1 DEF TurnsInv, CallType, AtRest
  <2> QED BY <2>1, <2>2 DEF TurnsInv, Sized, Waiting, Ptrs, Resident
<1>3. ASSUME NEW bytes \in Sizes, NEW tag \in Tags, ClientAllocate(bytes, tag)
      PROVE  HeapKept /\ TurnsInv'
  <2>1. TurnsInv'
    BY <1>3, RestTurns DEF ClientAllocate
  <2> QED BY <1>3, <2>1, AllocateVmmHeap, AllocateVmmThrowsHeap, AllocateFallbackHeap
          DEF ClientAllocate
<1>4. ASSUME NEW p, NEW d, ClientWrite(p, d)
      PROVE  HeapKept /\ TurnsInv'
  BY <1>4, RestTurns, WriteHeap DEF ClientWrite
<1>5. ASSUME NEW p, ClientDeallocate(p)
      PROVE  HeapKept /\ TurnsInv'
  BY <1>5, RestTurns, DeallocateHeap DEF ClientDeallocate
<1>6. ASSUME NEW tag, ClientSwapOut(tag)
      PROVE  HeapKept /\ TurnsInv'
  BY <1>1, <1>6, OutBeginsTurns DEF ClientSwapOut, SwapOut
<1>7. ASSUME NEW tag, ClientSwapIn(tag)
      PROVE  HeapKept /\ TurnsInv'
  BY <1>1, <1>7, InBeginsTurns DEF ClientSwapIn, SwapIn
<1>8. CASE SwapOutRelease
  BY <1>8, ReleaseHeapTurns
<1>9. CASE SwapOutStore \/ SwapOutStoreOutside
  BY <1>1, <1>9, StoreTurns DEF SwapOutStore, SwapOutStoreOutside
<1>10. CASE SwapInRestore
  <2>1. PICK h, d : RestorePhysical(Turn.original_ptr, h, d)
    BY <1>10 DEF SwapInRestore
  <2>2. Turn.original_ptr \in Ptrs
    BY <2>1 DEF RestorePhysical, VmmPtrs
  <2>3. HeapKept
    BY <2>1, <2>2, RestoreHeap
  <2> QED BY <1>10, <2>3, InTurns DEF SwapInRestore, InTurn
<1>11. CASE SwapInThrows
  <2>1. RestorePhysicalThrows(Turn.original_ptr) \/ UNCHANGED allocatorVars
    BY <1>11 DEF SwapInThrows
  <2>2. RestorePhysicalThrows(Turn.original_ptr) => Turn.original_ptr \in Ptrs
    BY DEF RestorePhysicalThrows, VmmPtrs
  <2>3. HeapKept
    BY <1>1, <2>1, <2>2, RestoreThrowsHeap
  <2>4. call' = Thrown /\ contexts_' = contexts_
    BY <1>11 DEF SwapInThrows
  <2>5. AtRest' /\ call'.op = "thrown"
    BY <2>4 DEF AtRest, Thrown
  <2> QED BY <2>3, <2>4, <2>5, SameTurns DEF CallType
<1>12. CASE SwapInSkips \/ SwapInNoMemory
  BY <1>1, <1>12, InTurns DEF SwapInSkips, SwapInNoMemory, InTurn
<1>13. CASE SwapInReallocate
  <2>1. PICK ptr \in Linears : /\ AllocateFallback(Turn.size, ptr)
                               /\ call' = [call EXCEPT !.copy = ptr]
    BY <1>13 DEF SwapInReallocate
  <2>2. Turn.size \in Sizes
    BY <1>13, TurnSized DEF SwapInReallocate, InTurn
  <2>3. HeapKept
    BY <2>1, <2>2, AllocateFallbackHeap
  <2> QED BY <1>13, <2>1, <2>3, InTurns DEF SwapInReallocate, InTurn
<1>14. CASE SwapInCopy
  BY <1>14, WriteHeap, InTurns DEF SwapInCopy
<1>15. CASE SwapInDone
  <2>1. call' = Idle /\ contexts_' = contexts_ /\ UNCHANGED allocatorVars
    BY <1>15 DEF SwapInDone
  <2>2. AtRest' /\ call'.op = "none"
    BY <2>1 DEF AtRest, Idle
  <2> QED BY <1>1, <2>1, <2>2, SameTurns DEF CallType
<1>16. CASE SwapOutThrows
  <2>1. call' = Thrown /\ contexts_' = contexts_ /\ UNCHANGED allocatorVars
    BY <1>16 DEF SwapOutThrows, DeallocateThrows, vars, allocatorVars
  <2>2. AtRest' /\ call'.op = "thrown"
    BY <2>1 DEF AtRest, Thrown
  <2> QED BY <1>1, <2>1, <2>2, SameTurns DEF CallType
<1> QED BY <1>2, <1>3, <1>4, <1>5, <1>6, <1>7, <1>8, <1>9, <1>10, <1>11, <1>12, <1>13,
           <1>14, <1>15, <1>16 DEF SwapNext, SwapStep

LEMMA HeapInvariance == SwapSpec => [](HeapInv /\ TurnsInv)
<1>1. SwapInit => HeapInv /\ TurnsInv
  BY InitTurns, InitMemoryInv, InitMeter DEF SwapInit, MemoryInv, HeapInv
<1>2. HeapInv /\ TurnsInv /\ [SwapNext]_swapVars => HeapInv' /\ TurnsInv'
  BY NextHeap DEF HeapKept
<1> QED BY <1>1, <1>2, PTL DEF SwapSpec

(* Allocate, Deallocate, SwapOut and SwapIn add and subtract the size of   *)
(* each buffer once, in whatever order tags are swapped out and in, once   *)
(* or again, through every throw of SwapIn, and when contexts_ has         *)
(* overflowed: no buffer is released, or restored, a second time.          *)
THEOREM SwapCountsBytes ==
  ASSUME MemoryCountable
  PROVE  SwapSpec => []LiveBytesExact
<1>1. SwapInit => Exact
  BY InitExact DEF SwapInit
<1>2. HeapInv /\ TurnsInv /\ HeapInv' /\ Exact /\ [SwapNext]_swapVars => Exact'
  BY NextHeap, HeapCountableNext DEF HeapKept
<1>3. Exact => LiveBytesExact
  BY ExactFact
<1> QED BY <1>1, <1>2, <1>3, HeapInvariance, PTL DEF SwapSpec

(* Only SwapInThrows ends a SwapIn with Thrown.                            *)
LEMMA OnlyThrowsThrows ==
  ASSUME TurnsInv, SwapNext, call.op = "in", call' = Thrown
  PROVE  SwapInThrows
<1>1. ~AtRest /\ InCall(call)
  BY TurnsShape
<1>2. call'.op = "thrown" /\ call' # Idle
  BY DEF Thrown, Idle
<1>3. ~NextTurn /\ call' # [call EXCEPT !.copy = NoPtr, !.next = @ + 1]
  BY <1>1, <1>2 DEF NextTurn, InCall
<1>4. \A ptr : call' # [call EXCEPT !.copy = ptr]
  BY <1>1, <1>2 DEF InCall
<1>5. SwapStep
  BY <1>1 DEF SwapNext, ClientAllocate, ClientWrite, ClientDeallocate, ClientSwapOut,
              ClientSwapIn, SwapOut, SwapIn
<1> QED BY <1>2, <1>3, <1>4, <1>5
        DEF SwapStep, SwapOutRelease, SwapOutThrows, SwapOutStore, SwapOutStoreOutside,
            SwapInRestore, SwapInSkips, SwapInReallocate, SwapInCopy, SwapInNoMemory,
            SwapInDone

(* What one of some buffers needs is no more than what they all need.      *)
LEMMA NoRoomForAll ==
  ASSUME MeterInv, NEW f, NEW S, DOMAIN f = S, IsFiniteSet(S), Weighs(f, S),
         NEW k \in S, ~Room(gpu, f[k])
  PROVE  ~Room(gpu, SumFunction(f))
<1> DEFINE rest == SumFunctionOnSet(f, S \ {k})
<1>1. IsFiniteSet(S \ {k}) /\ Weighs(f, S \ {k})
  BY FS_RemoveElement DEF Weighs
<1>2. rest \in Nat
  BY <1>1, SumNat
<1>3. SumFunction(f) = f[k] + rest
  BY SumTakes DEF SumFunction
<1>4. f[k] \in Nat
  BY DEF Weighs
<1>5. Bytes(gpu.mem) \in Nat /\ Bytes(gpu.linear) \in Nat
  BY BytesNat DEF MeterInv, MemoryFits
<1> HIDE DEF rest
<1> QED BY <1>2, <1>3, <1>4, <1>5, VramAssumption DEF Room

(* A SwapIn that is stopped without a change to the GPU has found no room  *)
(* for the buffer of its turn, let alone for all that are away.            *)
LEMMA StopsForRoom ==
  ASSUME SInv, HeapInv, TurnsInv, SwapInThrows, Turn.is_vmm, manner = "once", gpu' = gpu
  PROVE  ~Room(gpu, SumFunction(
            [i \in {j \in DOMAIN call.entries : Away(call.entries[j])} |->
               AllocSize(call.entries[i].size)]))
<1> PICK es, k, p : es = call.entries /\ k = call.next /\ p = es[k].original_ptr
  OBVIOUS
<1> DEFINE S == {j \in DOMAIN es : Away(es[j])}
           f == [i \in S |-> AllocSize(es[i].size)]
<1>1. RestorePhysicalThrows(p) /\ call.op = "in"
  BY DEF SwapInThrows, InTurn, Turn
<1>2. /\ call.next <= Len(call.entries) /\ es[k].is_vmm /\ MemoryInv /\ ListInv
      /\ AInv /\ MeterInv
  BY DEF SwapInThrows, InTurn, Turn, SInv, HeapInv
<1>3. p \in VmmPtrs /\ p \in Ptrs /\ ~Resident(p)
  BY <1>1, <1>2, InTurnFacts DEF Turn, VmmPtrs
<1>4. k \in DOMAIN es /\ Sized(es)
  BY <1>1, <1>2, TurnSized, TurnsShape
<1>5. entries_[p].size = es[k].size
  <2>1. Owned(call.tag, es)
    BY <1>1, <1>2 DEF ListInv, InInv, WaitInv
  <2> QED BY <1>2, <1>4, <2>1 DEF Owned
<1>6. ~Room(gpu, AllocSize(es[k].size))
  <2>1. ASSUME NEW h, HasGrown(p, AllocSize(entries_[p].size), h) PROVE FALSE
    BY <2>1 DEF HasGrown
  <2> QED BY <1>1, <1>2, <1>3, <1>5, <2>1, RestorePhysicalThrowsFacts
<1>7. k \in S /\ f[k] = AllocSize(es[k].size)
  BY <1>3, <1>4 DEF Away
<1>8. IsFiniteSet(S)
  <2>1. Len(es) \in Nat /\ DOMAIN es = 1 .. Len(es)
    BY <1>4, SeqFacts DEF Sized
  <2>2. IsFiniteSet(DOMAIN es)
    BY <2>1, FS_Interval
  <2>3. S \subseteq DOMAIN es
    OBVIOUS
  <2> QED BY <2>2, <2>3, FS_Subset
<1>9. DOMAIN f = S /\ Weighs(f, S)
  <2>1. \A i \in S : es[i].size \in Nat \ {0}
    BY <1>4, SizesAssumption DEF Sized
  <2> QED BY <2>1, AllocSizeFacts DEF Weighs
<1> HIDE DEF S, f
<1>10. ~Room(gpu, SumFunction(f))
  BY <1>2, <1>6, <1>7, <1>8, <1>9, NoRoomForAll
<1> QED BY <1>10 DEF f, S

-----------------------------------------------------------------------------
(* The addresses of buffers that are away.                                 *)

Expected == out \cup (IF call.op = "out" THEN {call.tag} ELSE {})

(* Nothing is mapped where a buffer is to come back: for the client that   *)
(* swaps in once, the memory that a SwapIn leaves behind is at an address  *)
(* of a tag that it has given up.                                          *)
FreeInv ==
  manner = "once" =>
    \A p \in VmmPtrs : ~Resident(p) /\ entries_[p].tag \in Expected => p \notin DOMAIN gpu.maps

(* A step after which the buffers away were away before, or are unmapped.  *)
LEMMA FreeSame ==
  ASSUME FreeInv, manner' = manner,
         \A p \in VmmPtrs' :
           ~Resident(p)' /\ entries_'[p].tag \in Expected' =>
             \/ /\ p \in VmmPtrs /\ ~Resident(p) /\ entries_[p].tag \in Expected
                /\ p \in DOMAIN gpu'.maps => p \in DOMAIN gpu.maps
             \/ p \notin DOMAIN gpu'.maps
  PROVE  FreeInv'
  BY DEF FreeInv

LEMMA FreeRests ==
  ASSUME FreeInv, UNCHANGED <<gpu, entries_, manner>>, Expected' \subseteq Expected
  PROVE  FreeInv'
<1>1. VmmPtrs' = VmmPtrs /\ \A p : Resident(p)' <=> Resident(p)
  BY DEF VmmPtrs, Ptrs, Resident
<1> QED BY <1>1, FreeSame

LEMMA ExpectedSame ==
  ASSUME call.op # "out", call'.op # "out"
  PROVE  Expected = out /\ Expected' = out'
  BY DEF Expected

LEMMA FallbackFree ==
  ASSUME AInv, FreeInv, NEW bytes \in Sizes, NEW ptr \in Linears, AllocateFallback(bytes, ptr),
         manner' = manner, Expected' = Expected
  PROVE  FreeInv'
<1>1. HasFallback(bytes, ptr)
  BY AllocateFallbackFacts
<1>2. VmmPtrs' = VmmPtrs /\ \A p \in VmmPtrs : entries_'[p] = entries_[p]
  BY <1>1 DEF HasFallback, VmmPtrs
<1> QED BY <1>1, <1>2, FreeSame DEF HasFallback, Resident

LEMMA AllocateFree ==
  ASSUME AInv, FreeInv, NEW bytes \in Sizes, NEW tag \in Tags, ClientAllocate(bytes, tag)
  PROVE  FreeInv'
<1>1. Expected' = Expected /\ manner' = manner
  BY DEF ClientAllocate, Expected
<1>2. ASSUME NEW va \in Vas, NEW h \in Handles, AllocateVmm(bytes, tag, va, h)
      PROVE  FreeInv'
  <2>1. HasAllocated(bytes, tag, va, h)
    BY <1>2, AllocateVmmFacts
  <2>2. /\ VmmPtrs' = VmmPtrs \cup {va} /\ Resident(va)'
        /\ \A p \in VmmPtrs : entries_'[p] = entries_[p] /\ p # va
    BY <2>1, HandlesAssumption DEF HasAllocated, VmmPtrs, Ptrs, Resident
  <2> QED BY <1>1, <2>1, <2>2, FreeSame DEF HasAllocated, Resident
<1>3. ASSUME NEW ptr \in Linears, AllocateFallback(bytes, ptr)
      PROVE  FreeInv'
  BY <1>1, <1>3, FallbackFree
<1>4. ASSUME NEW va \in Vas, AllocateVmmThrows(bytes, va)
      PROVE  FreeInv'
  <2>1. /\ entries_' = entries_ /\ va \notin va_held
        /\ gpu' = gpu \/ \E h : HasGrown(va, AllocSize(bytes), h)
    BY <1>4, AllocateVmmThrowsFacts
  <2>2. va \notin VmmPtrs
    BY <2>1 DEF VmmPtrs, AInv, RangesInv
  <2>3. \A p : p # va /\ p \in DOMAIN gpu'.maps => p \in DOMAIN gpu.maps
    BY <2>1 DEF HasGrown
  <2>4. VmmPtrs' = VmmPtrs /\ \A p : Resident(p)' <=> Resident(p)
    BY <2>1 DEF VmmPtrs, Ptrs, Resident
  <2> QED BY <1>1, <2>1, <2>2, <2>3, <2>4, FreeSame
<1> QED BY <1>2, <1>3, <1>4 DEF ClientAllocate

LEMMA WriteFree ==
  ASSUME AInv, FreeInv, NEW ptr, NEW d, gpu' = Write(gpu, ptr, d),
         entries_' = entries_, manner' = manner, Expected' = Expected
  PROVE  FreeInv'
<1>1. gpu'.maps = gpu.maps
  BY WriteFacts DEF AInv
<1>2. VmmPtrs' = VmmPtrs /\ \A p : Resident(p)' <=> Resident(p)
  BY DEF VmmPtrs, Ptrs, Resident
<1> QED BY <1>1, <1>2, FreeSame

LEMMA DeallocateFree ==
  ASSUME AInv, FreeInv, NEW p \in Ptrs, Deallocate(p), manner' = manner, Expected' = Expected
  PROVE  FreeInv'
<1>1. Ptrs' = Ptrs \ {p} /\ \A q \in Ptrs' : entries_'[q] = entries_[q]
  BY DEF Deallocate, RestrictDomain, Restrict, Ptrs
<1>2. \A q \in VmmPtrs' : q \in VmmPtrs /\ entries_'[q] = entries_[q]
  BY <1>1 DEF VmmPtrs
<1> QED BY <1>2, DeallocateMaps, FreeSame DEF Resident

LEMMA ReleaseFree ==
  ASSUME AInv, FreeInv, NEW p \in Ptrs, ReleasePhysical(p), manner' = manner,
         Expected' = Expected
  PROVE  FreeInv'
<1>1. HasUnbacked(gpu', p) /\ HasAssigned(entries_', p, NoHandle)
  BY ReleasePhysicalFacts
<1>2. /\ VmmPtrs' = VmmPtrs /\ p \notin DOMAIN gpu'.maps
      /\ \A q \in VmmPtrs : q # p => entries_'[q] = entries_[q]
      /\ DOMAIN gpu'.maps \subseteq DOMAIN gpu.maps
  BY <1>1 DEF HasUnbacked, HasAssigned, VmmPtrs, Ptrs
<1> QED BY <1>2, FreeSame DEF Resident

LEMMA OutBeginsFree ==
  ASSUME FreeInv, ListInv, NEW tag, ClientSwapOut(tag)
  PROVE  FreeInv'
<1>1. /\ AtRest /\ \A p \in GetAllocationsByTag(tag) : Resident(p)
      /\ UNCHANGED <<gpu, entries_, out, manner>>
      /\ call'.op = "out" /\ call'.tag = tag
  BY DEF ClientSwapOut, SwapOut, allocatorVars
<1>2. Expected = out /\ Expected' = out \cup {tag}
  BY <1>1, CallShape DEF ListInv, Expected
<1>3. VmmPtrs' = VmmPtrs /\ \A p : Resident(p)' <=> Resident(p)
  BY <1>1 DEF VmmPtrs, Ptrs, Resident
<1>4. \A p \in VmmPtrs : ~Resident(p) => entries_[p].tag # tag
  BY <1>1 DEF GetAllocationsByTag, VmmPtrs
<1> QED BY <1>1, <1>2, <1>3, <1>4, FreeSame

LEMMA RestoreFree ==
  ASSUME MemoryInv, ListInv, FreeInv, SwapInRestore
  PROVE  FreeInv'
<1> PICK p : p = Turn.original_ptr
  OBVIOUS
<1>1. /\ call.op = "in" /\ call.copy = NoPtr /\ NextTurn /\ UNCHANGED <<out, manner>>
      /\ \E h \in Handles : RestorePhysical(p, h, HostData)
  BY DEF SwapInRestore, InTurn
<1>2. call'.op # "out"
  BY <1>1, NextTurnFacts
<1>3. Expected' = Expected
  BY <1>1, <1>2, ExpectedSame
<1>4. PICK h \in Handles : RestorePhysical(p, h, HostData)
  BY <1>1
<1>5. p \in Ptrs
  BY <1>4 DEF RestorePhysical, VmmPtrs
<1>6. HasRestored(p, h) /\ HasAssigned(entries_', p, h)
  BY <1>4, <1>5, RestorePhysicalFacts DEF MemoryInv
<1>7. /\ VmmPtrs' = VmmPtrs /\ Resident(p)'
      /\ \A q \in VmmPtrs : q # p => entries_'[q] = entries_[q]
      /\ DOMAIN gpu'.maps = DOMAIN gpu.maps \cup {p}
  BY <1>6, HandlesAssumption DEF HasRestored, HasAssigned, VmmPtrs, Ptrs, Resident
<1> QED BY <1>1, <1>3, <1>7, FreeSame DEF Resident

(* What a SwapIn that throws leaves behind is at an address of its tag.    *)
LEMMA InThrowsFree ==
  ASSUME MemoryInv, ListInv, FreeInv, manner = "once", SwapInThrows
  PROVE  FreeInv'
<1> PICK p : p = Turn.original_ptr
  OBVIOUS
<1>1. /\ call.op = "in" /\ call' = Thrown /\ call.next <= Len(call.entries)
      /\ out' = out \ {call.tag} /\ manner' = manner
      /\ \/ Turn.is_vmm /\ RestorePhysicalThrows(p)
         \/ UNCHANGED allocatorVars
  BY DEF SwapInThrows, InTurn
<1>2. Expected = out /\ Expected' = out \ {call.tag}
  BY <1>1, ExpectedSame DEF Thrown
<1>3. CASE Turn.is_vmm /\ RestorePhysicalThrows(p)
  <2>1. p \in Ptrs /\ entries_[p].tag = call.tag
    BY <1>1, <1>3, InTurnFacts DEF VmmPtrs
  <2>2. /\ entries_' = entries_
        /\ gpu' = gpu \/ \E h : HasGrown(p, AllocSize(entries_[p].size), h)
    BY <1>3, <2>1, RestorePhysicalThrowsFacts DEF MemoryInv
  <2>3. \A q : q # p /\ q \in DOMAIN gpu'.maps => q \in DOMAIN gpu.maps
    BY <2>2 DEF HasGrown
  <2>4. VmmPtrs' = VmmPtrs /\ \A q : Resident(q)' <=> Resident(q)
    BY <2>2 DEF VmmPtrs, Ptrs, Resident
  <2> QED BY <1>1, <1>2, <2>1, <2>2, <2>3, <2>4, FreeSame
<1>4. CASE UNCHANGED allocatorVars
  BY <1>1, <1>2, <1>4, FreeRests DEF allocatorVars
<1> QED BY <1>1, <1>3, <1>4

LEMMA NextFree ==
  ASSUME SInv, FreeInv, [SwapNext]_swapVars
  PROVE  FreeInv'
<1>1. manner' = manner
  BY SameManner DEF swapVars
<1>2. CASE manner # "once"
  BY <1>1, <1>2 DEF FreeInv
<1>3. CASE UNCHANGED swapVars
  BY <1>3, FreeRests DEF swapVars, allocatorVars, Expected
<1>4. CASE manner = "once" /\ SwapNext
  <2>1. MemoryInv /\ ListInv /\ AInv
    BY <1>4 DEF SInv, MemoryInv
  <2>2. ASSUME NEW bytes \in Sizes, NEW tag \in Tags, ClientAllocate(bytes, tag)
        PROVE  FreeInv'
    BY <2>1, <2>2, AllocateFree
  <2>3. ASSUME NEW p, NEW d, ClientWrite(p, d)
        PROVE  FreeInv'
    BY <2>1, <2>3, WriteFree DEF ClientWrite, Expected
  <2>4. ASSUME NEW p, ClientDeallocate(p)
        PROVE  FreeInv'
    BY <2>1, <2>4, DeallocateFree DEF ClientDeallocate, Expected
  <2>5. ASSUME NEW tag, ClientSwapOut(tag)
        PROVE  FreeInv'
    BY <2>1, <2>5, OutBeginsFree
  <2>6. ASSUME NEW tag, ClientSwapIn(tag)
        PROVE  FreeInv'
    <3>1. AtRest /\ call'.op = "in" /\ UNCHANGED <<gpu, entries_, out, manner>>
      BY <2>6 DEF ClientSwapIn, SwapIn, allocatorVars
    <3> QED BY <2>1, <3>1, CallShape, ExpectedSame, FreeRests DEF ListInv
  <2>7. CASE SwapOutRelease
    <3>1. OutCall(call) /\ call' = [call EXCEPT !.next = @ + 1] /\ UNCHANGED <<out, manner>>
      BY <2>1, <2>7, CallShape DEF SwapOutRelease, ListInv
    <3>2. Expected' = Expected
      BY <3>1 DEF OutCall, Expected
    <3>3. PICK p : ReleasePhysical(p) \/ Deallocate(p)
      BY <2>7 DEF SwapOutRelease
    <3>4. p \in Ptrs
      BY <3>3 DEF ReleasePhysical, VmmPtrs, Deallocate
    <3> QED BY <2>1, <3>1, <3>2, <3>3, <3>4, ReleaseFree, DeallocateFree
  <2>8. CASE SwapOutThrows \/ SwapOutStore \/ SwapOutStoreOutside
    <3>1. /\ UNCHANGED <<gpu, entries_, manner>> /\ call.op = "out" /\ call'.op # "out"
          /\ out' \subseteq out \cup {call.tag}
      BY <2>8 DEF SwapOutThrows, DeallocateThrows, vars, SwapOutStore, SwapOutStoreOutside,
                  allocatorVars, Idle, Thrown, Outside
    <3> QED BY <3>1, FreeRests DEF Expected
  <2>9. CASE SwapInRestore
    BY <2>1, <2>9, RestoreFree
  <2>10. CASE SwapInThrows
    BY <1>4, <2>1, <2>10, InThrowsFree
  <2>11. CASE SwapInSkips \/ SwapInNoMemory
    <3>1. /\ call.op = "in" /\ call.copy = NoPtr /\ NextTurn
          /\ UNCHANGED <<gpu, entries_, out, manner>>
      BY <2>11 DEF SwapInSkips, SwapInNoMemory, InTurn, allocatorVars
    <3> QED BY <2>1, <3>1, NextTurnFacts, ExpectedSame, FreeRests
  <2>12. CASE SwapInReallocate
    <3>1. PICK ptr \in Linears : /\ AllocateFallback(Turn.size, ptr)
                                 /\ call' = [call EXCEPT !.copy = ptr]
      BY <2>12 DEF SwapInReallocate
    <3>2. /\ call.op = "in" /\ call.next <= Len(call.entries) /\ InCall(call)
          /\ UNCHANGED <<out, manner>>
      BY <2>1, <2>12, CallShape DEF SwapInReallocate, InTurn, ListInv
    <3>3. Turn.size \in Sizes
      BY <2>1, <3>2, InTurnFacts
    <3>4. Expected' = Expected
      BY <3>1, <3>2, ExpectedSame DEF InCall
    <3> QED BY <2>1, <3>1, <3>2, <3>3, <3>4, FallbackFree
  <2>13. CASE SwapInCopy
    <3>1. /\ call.op = "in" /\ call' = [call EXCEPT !.copy = NoPtr, !.next = @ + 1]
          /\ UNCHANGED <<entries_, out, manner>>
          /\ \E ptr, d : gpu' = Write(gpu, ptr, d)
      BY <2>13 DEF SwapInCopy
    <3>2. Expected' = Expected
      BY <2>1, <3>1, NextTurnFacts, ExpectedSame
    <3> QED BY <2>1, <3>1, <3>2, WriteFree
  <2>14. CASE SwapInDone
    <3>1. /\ call.op = "in" /\ call'.op # "out" /\ out' \subseteq out
          /\ UNCHANGED <<gpu, entries_, manner>>
      BY <2>14 DEF SwapInDone, allocatorVars, Idle
    <3> QED BY <3>1, ExpectedSame, FreeRests
  <2> QED BY <1>4, <2>2, <2>3, <2>4, <2>5, <2>6, <2>7, <2>8, <2>9, <2>10, <2>11, <2>12,
             <2>13, <2>14 DEF SwapNext, SwapStep
<1> QED BY <1>2, <1>3, <1>4

LEMMA FreeInvariance == SwapSpec => []FreeInv
<1>1. SwapInit => FreeInv
  BY DEF SwapInit, Init, FreeInv, VmmPtrs, Ptrs
<1> QED BY <1>1, NextFree, SwapInvariance, PTL DEF SwapSpec

(* A client that swaps each tag out and in once: when RestorePhysical      *)
(* throws in its SwapIn and has left the GPU as it was, the buffers of the *)
(* tag that are away do not fit, for every number of tags and buffers and  *)
(* every size; when it has not, the buffer's address was free, and it is   *)
(* the driver that has refused to map new memory there, to give access or  *)
(* to copy.  It is never a buffer's address that is taken.                 *)
THEOREM SwapStopsByDriver == SwapSpec => StoppedOnlyByDriver
<1> DEFINE Stops == manner = "once" /\ call.op = "in" /\ call' = Thrown /\ Turn.is_vmm
           Missing == SumFunction(
              [i \in {j \in DOMAIN call.entries : Away(call.entries[j])} |->
                 AllocSize(call.entries[i].size)])
           ByDriver == IF gpu' = gpu THEN ~Room(gpu, Missing)
                                     ELSE Turn.original_ptr \notin DOMAIN gpu.maps
<1>1. ASSUME SInv, HeapInv, TurnsInv, FreeInv, SwapNext, Stops
      PROVE  ByDriver
  <2>1. SwapInThrows
    BY <1>1, OnlyThrowsThrows
  <2>2. CASE gpu' = gpu
    BY <1>1, <2>1, <2>2, StopsForRoom
  <2>3. CASE gpu' # gpu
    <3> PICK p : p = Turn.original_ptr
      OBVIOUS
    <3>1. ListInv /\ call.next <= Len(call.entries)
      BY <1>1, <2>1 DEF SInv, SwapInThrows, InTurn
    <3>2. p \in VmmPtrs /\ entries_[p].tag = call.tag /\ ~Resident(p)
      BY <1>1, <3>1, InTurnFacts
    <3>3. call.tag \in Expected
      BY <1>1, <3>1 DEF ListInv, InInv, Expected
    <3> QED BY <1>1, <2>3, <3>2, <3>3 DEF FreeInv
  <2> QED BY <2>2, <2>3
<1>2. SInv /\ HeapInv /\ TurnsInv /\ FreeInv /\ [SwapNext]_swapVars => [Stops => ByDriver]_swapVars
  BY <1>1
<1> QED BY <1>2, SwapInvariance, HeapInvariance, FreeInvariance, PTL
        DEF SwapSpec, StoppedOnlyByDriver

(* Whatever a client does, and in whatever manner: a call that returns     *)
(* loses no memory of the GPU and no address, a turn of SwapOut or SwapIn  *)
(* no more than a call; one that throws loses no more than the memory it   *)
(* has created and the range it was given, and no buffer's.                *)
THEOREM SwapLosesByThrows == SwapSpec => SwapOnlyThrowsLose
<1>1. ASSUME AInv, Mirrored, TurnsInv, SwapNext PROVE OnlyThrowsLose
  <2>1. ASSUME UNCHANGED allocatorVars PROVE OnlyThrowsLose
    BY <2>1, SameLoses DEF allocatorVars
  <2>2. ASSUME NEW bytes \in Sizes, NEW tag \in Tags, ClientAllocate(bytes, tag)
        PROVE  OnlyThrowsLose
    BY <1>1, <2>2, AllocateVmmLoses, AllocateVmmThrowsLoses, AllocateFallbackLoses
    DEF ClientAllocate
  <2>3. ASSUME NEW p, NEW d, ClientWrite(p, d)
        PROVE  OnlyThrowsLose
    BY <1>1, <2>3, WriteLoses DEF ClientWrite
  <2>4. ASSUME NEW p, ClientDeallocate(p)
        PROVE  OnlyThrowsLose
    BY <1>1, <2>4, DeallocateLoses DEF ClientDeallocate
  <2>5. ASSUME NEW tag, ClientSwapOut(tag) \/ ClientSwapIn(tag)
        PROVE  OnlyThrowsLose
    BY <2>1, <2>5 DEF ClientSwapOut, ClientSwapIn, SwapOut, SwapIn
  <2>6. CASE SwapOutRelease
    <3>1. PICK p : ReleasePhysical(p) \/ Deallocate(p)
      BY <2>6 DEF SwapOutRelease
    <3>2. p \in Ptrs
      BY <3>1 DEF ReleasePhysical, VmmPtrs, Deallocate
    <3> QED BY <1>1, <3>1, <3>2, ReleasePhysicalLoses, DeallocateLoses
  <2>7. CASE SwapInRestore
    <3>1. PICK p, h, d : RestorePhysical(p, h, d)
      BY <2>7 DEF SwapInRestore
    <3>2. p \in Ptrs
      BY <3>1 DEF RestorePhysical, VmmPtrs
    <3>3. ~Resident(p)
      BY <1>1, <3>1, <3>2, RestorePhysicalHadNone
    <3> QED BY <1>1, <3>1, <3>2, <3>3, RestorePhysicalLoses
  <2>8. CASE SwapInThrows
    <3>1. PICK p : RestorePhysicalThrows(p) \/ UNCHANGED allocatorVars
      BY <2>8 DEF SwapInThrows
    <3>2. RestorePhysicalThrows(p) => p \in Ptrs
      BY DEF RestorePhysicalThrows, VmmPtrs
    <3> QED BY <1>1, <2>1, <3>1, <3>2, RestorePhysicalThrowsLoses
  <2>9. CASE SwapInReallocate
    <3>1. PICK ptr \in Linears : AllocateFallback(Turn.size, ptr)
      BY <2>9 DEF SwapInReallocate
    <3>2. Turn.size \in Sizes
      BY <1>1, <2>9, TurnSized DEF SwapInReallocate, InTurn
    <3> QED BY <1>1, <3>1, <3>2, AllocateFallbackLoses
  <2>10. CASE SwapInCopy
    BY <1>1, <2>10, WriteLoses DEF SwapInCopy
  <2>11. ASSUME \/ SwapOutThrows \/ SwapOutStore \/ SwapOutStoreOutside \/ SwapInSkips
                \/ SwapInNoMemory \/ SwapInDone
         PROVE  OnlyThrowsLose
    <3>1. UNCHANGED allocatorVars
      BY <2>11 DEF SwapOutThrows, DeallocateThrows, vars, allocatorVars, SwapOutStore,
                   SwapOutStoreOutside, SwapInSkips, SwapInNoMemory, SwapInDone
    <3> QED BY <2>1, <3>1
  <2> QED BY <1>1, <2>2, <2>3, <2>4, <2>5, <2>6, <2>7, <2>8, <2>9, <2>10, <2>11
          DEF SwapNext, SwapStep
<1>2. HeapInv /\ TurnsInv /\ [SwapNext]_swapVars => [OnlyThrowsLose]_swapVars
  BY <1>1 DEF HeapInv
<1> QED BY <1>2, HeapInvariance, PTL DEF SwapSpec, SwapOnlyThrowsLose

=============================================================================
