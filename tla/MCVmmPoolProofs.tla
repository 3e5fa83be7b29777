-------------------------- MODULE MCVmmPoolProofs --------------------------
(***************************************************************************)
(* What holds of VmmPool when the driver returns chunks in ascending       *)
(* order, for every granularity, chunk size, set of bases and of sizes.    *)
(***************************************************************************)
EXTENDS MCVmmPool, VmmPoolProofs

Sorted(s) == \A i, j \in DOMAIN s : i < j => s[i].start < s[j].start

(* Ranges of s touch only at the points in C.                              *)
TouchAt(s, C) ==
  \A i, j \in DOMAIN s : s[i].end = s[j].start => s[j].start \in C

ChunksApart ==
  \A b, c \in chunks : b # c => b + kChunkSize <= c \/ c + kChunkSize <= b

(* Sortedness is what makes lower_bound find the neighbours of a freed     *)
(* range, and with it what keeps adjacent ranges merged.                   *)
OrderInv ==
  /\ ChunksApart
  /\ ascending => Sorted(free_ranges_) /\ TouchAt(free_ranges_, chunks)

-----------------------------------------------------------------------------
(* The vector's operations on a sorted vector.                             *)

(* Every range of t is one of s.                                           *)
Among(t, s) == \A i \in DOMAIN t : \E j \in DOMAIN s : t[i] = s[j]

LEMMA RemoveSorted ==
  ASSUME NEW s \in Seq(FreeRange), NEW i \in 1 .. Len(s)
  PROVE  /\ Among(RemoveAt(s, i), s)
         /\ Sorted(s) => Sorted(RemoveAt(s, i))
<1> DEFINE u == RemoveAt(s, i)
<1>1. /\ u \in Seq(FreeRange)
      /\ Len(u) = Len(s) - 1
      /\ \A j \in 1 .. Len(s) - 1 : u[j] = IF j < i THEN s[j] ELSE s[j + 1]
  BY RemoveAtLemma
<1> HIDE DEF u
<1>2. /\ Len(s) \in Nat /\ DOMAIN s = 1 .. Len(s)
      /\ DOMAIN u = 1 .. Len(s) - 1
  BY <1>1, VectorType
<1> DEFINE from(j) == IF j < i THEN j ELSE j + 1
<1>3. \A j \in DOMAIN u : from(j) \in DOMAIN s /\ u[j] = s[from(j)]
  BY <1>1, <1>2
<1>4. \A j, k \in DOMAIN u : j < k => from(j) < from(k)
  BY <1>2
<1> HIDE DEF from
<1>5. Among(u, s)
  BY <1>3 DEF Among
<1>6. Sorted(s) => Sorted(u)
  BY <1>3, <1>4 DEF Sorted
<1> QED BY <1>5, <1>6 DEF u

(* InsertAtLemma, for a vector of ranges.                                  *)
LEMMA InsertAtRange ==
  ASSUME NEW s \in Seq(FreeRange), NEW r \in FreeRange,
         NEW k \in 1 .. Len(s) + 1
  PROVE  /\ InsertAt(s, k, r) \in Seq(FreeRange)
         /\ Len(InsertAt(s, k, r)) = Len(s) + 1
         /\ \A j \in 1 .. k - 1 : InsertAt(s, k, r)[j] = s[j]
         /\ InsertAt(s, k, r)[k] = r
         /\ \A j \in k + 1 .. Len(s) + 1 : InsertAt(s, k, r)[j] = s[j - 1]
<1>1. Len(s) \in Nat
  BY VectorType
<1>2. k \in Nat /\ 1 <= k /\ k <= Len(s) + 1
  BY <1>1
<1>3. InsertAt(s, k, r) \in Seq(FreeRange)
  BY <1>2, InsertAtLemma
<1>4. Len(InsertAt(s, k, r)) = Len(s) + 1
  BY <1>2, InsertAtLemma
<1>5. \A j \in 1 .. k - 1 : InsertAt(s, k, r)[j] = s[j]
  BY <1>2, InsertAtLemma
<1>6. InsertAt(s, k, r)[k] = r
  BY <1>2, InsertAtLemma
<1>7. \A j \in k + 1 .. Len(s) + 1 : InsertAt(s, k, r)[j] = s[j - 1]
  BY <1>2, InsertAtLemma
<1> QED BY <1>3, <1>4, <1>5, <1>6, <1>7

LEMMA InsertElements ==
  ASSUME NEW s \in Seq(FreeRange), NEW r \in FreeRange,
         NEW k \in 1 .. Len(s) + 1
  PROVE  LET t == InsertAt(s, k, r)
         IN  /\ DOMAIN t = 1 .. Len(s) + 1 /\ DOMAIN s = 1 .. Len(s)
             /\ Len(s) \in Nat
             /\ t[k] = r
             /\ \A i \in 1 .. k - 1 : t[i] = s[i]
             /\ \A i \in k + 1 .. Len(s) + 1 : t[i] = s[i - 1]
             /\ \A i \in DOMAIN t : t[i] = r \/ \E j \in DOMAIN s : t[i] = s[j]
             /\ \A j \in DOMAIN s : \E i \in DOMAIN t : i # k /\ t[i] = s[j]
<1> DEFINE t == InsertAt(s, k, r)
<1>1. Len(s) \in Nat /\ DOMAIN s = 1 .. Len(s)
  BY VectorType
<1>2. k \in Nat /\ 1 <= k /\ k <= Len(s) + 1
  BY <1>1
<1>3. /\ t \in Seq(FreeRange) /\ Len(t) = Len(s) + 1
      /\ \A i \in 1 .. k - 1 : t[i] = s[i]
      /\ t[k] = r
      /\ \A i \in k + 1 .. Len(s) + 1 : t[i] = s[i - 1]
  <2>1. t \in Seq(FreeRange) /\ Len(t) = Len(s) + 1
    BY InsertAtRange, Zenon
  <2>2. \A i \in 1 .. k - 1 : t[i] = s[i]
    BY InsertAtRange, Zenon
  <2>3. t[k] = r
    BY InsertAtRange, Zenon
  <2>4. \A i \in k + 1 .. Len(s) + 1 : t[i] = s[i - 1]
    BY InsertAtRange, Zenon
  <2> QED BY <2>1, <2>2, <2>3, <2>4, Zenon
<1> HIDE DEF t
<1>4. DOMAIN t = 1 .. Len(s) + 1
  BY <1>3, VectorType
<1>5. ASSUME NEW i \in DOMAIN t
      PROVE  t[i] = r \/ \E j \in DOMAIN s : t[i] = s[j]
  <2>1. CASE i < k
    <3>1. i \in DOMAIN s /\ t[i] = s[i]
      BY <1>1, <1>2, <1>3, <1>4, <2>1
    <3> QED BY <3>1
  <2>2. CASE i = k
    BY <1>3, <2>2
  <2>3. CASE i > k
    <3>1. i - 1 \in DOMAIN s /\ t[i] = s[i - 1]
      BY <1>1, <1>2, <1>3, <1>4, <2>3
    <3> QED BY <3>1
  <2> QED BY <1>2, <1>4, <2>1, <2>2, <2>3
<1>6. ASSUME NEW j \in DOMAIN s
      PROVE  \E i \in DOMAIN t : i # k /\ t[i] = s[j]
  <2>1. CASE j < k
    <3>1. j \in DOMAIN t /\ j # k /\ t[j] = s[j]
      BY <1>1, <1>2, <1>3, <1>4, <2>1
    <3> QED BY <3>1
  <2>2. CASE ~(j < k)
    <3>1. j + 1 \in DOMAIN t /\ j + 1 # k /\ t[j + 1] = s[j]
      BY <1>1, <1>2, <1>3, <1>4, <2>2
    <3> QED BY <3>1
  <2> QED BY <2>1, <2>2
<1> QED BY <1>1, <1>3, <1>4, <1>5, <1>6 DEF t

(* An inserted range meets none of those around it.                        *)
LEMMA InsertApart ==
  ASSUME NEW s \in Seq(FreeRange), NEW r \in FreeRange,
         NEW k \in 1 .. Len(s) + 1, Layout(InsertAt(s, k, r))
  PROVE  /\ r.start < r.end
         /\ NonEmpty(s)
         /\ ApartFrom(s, r.start, r.end)
<1> DEFINE t == InsertAt(s, k, r)
<1>1. /\ DOMAIN t = 1 .. Len(s) + 1 /\ Len(s) \in Nat /\ t[k] = r
      /\ \A j \in DOMAIN s : \E i \in DOMAIN t : i # k /\ t[i] = s[j]
  BY InsertElements
<1>2. NonEmpty(t) /\ Disjoint(t)
  BY DEF Layout
<1>3. k \in DOMAIN t
  BY <1>1
<1> HIDE DEF t
<1>4. r.start < r.end
  BY <1>1, <1>2, <1>3 DEF NonEmpty
<1>5. ASSUME NEW j \in DOMAIN s
      PROVE  s[j].start < s[j].end /\ Apart(s[j].start, s[j].end, r.start, r.end)
  <2>1. PICK i \in DOMAIN t : i # k /\ t[i] = s[j]
    BY <1>1
  <2> QED BY <1>1, <1>2, <1>3, <2>1 DEF NonEmpty, Disjoint
<1> QED BY <1>4, <1>5 DEF NonEmpty, ApartFrom

(* Where lower_bound says, a range goes in sorted.                         *)
LEMMA InsertSorted ==
  ASSUME NEW s \in Seq(FreeRange), NEW r \in FreeRange, Sorted(s),
         NEW k \in LowerBound(s, r.start), Layout(InsertAt(s, k, r))
  PROVE  Sorted(InsertAt(s, k, r))
<1> DEFINE t == InsertAt(s, k, r)
<1>1. k \in 1 .. Len(s) + 1
  BY DEF LowerBound
<1>2. /\ DOMAIN t = 1 .. Len(s) + 1 /\ DOMAIN s = 1 .. Len(s)
      /\ Len(s) \in Nat
      /\ t[k] = r
      /\ \A i \in 1 .. k - 1 : t[i] = s[i]
      /\ \A i \in k + 1 .. Len(s) + 1 : t[i] = s[i - 1]
  BY <1>1, InsertElements
<1>3. r.start < r.end /\ NonEmpty(s) /\ ApartFrom(s, r.start, r.end)
  BY <1>1, InsertApart
<1>4. /\ r.start \in Int /\ r.end \in Int
      /\ \A i \in 1 .. Len(s) : s[i].start \in Int /\ s[i].end \in Int
  <2>1. Address \subseteq Int
    BY BasesAssumption DEF Address
  <2>2. r.start \in Int /\ r.end \in Int
    BY <2>1 DEF FreeRange
  <2> QED BY <2>2, VectorType
<1> HIDE DEF t
<1>5. \A i \in 1 .. k - 1 : s[i].start < r.start
  <2> SUFFICES ASSUME NEW i \in 1 .. k - 1 PROVE s[i].start < r.start
    OBVIOUS
  <2>1. s[k - 1].start < r.start /\ k - 1 \in 1 .. Len(s) /\ i \in 1 .. Len(s)
    BY <1>1, <1>2 DEF LowerBound
  <2>2. i < k - 1 => s[i].start < s[k - 1].start
    BY <1>2, <2>1 DEF Sorted
  <2>3. i < k - 1 \/ i = k - 1
    BY <1>1, <1>2
  <2> QED BY <1>4, <2>1, <2>2, <2>3
<1>6. \A i \in k .. Len(s) : r.start < s[i].start
  <2> SUFFICES ASSUME NEW i \in k .. Len(s) PROVE r.start < s[i].start
    OBVIOUS
  <2>1. r.start <= s[k].start /\ k \in 1 .. Len(s) /\ i \in 1 .. Len(s)
    BY <1>1, <1>2, <1>4 DEF LowerBound
  <2>2. k < i => s[k].start < s[i].start
    BY <1>2, <2>1 DEF Sorted
  <2>3. k < i \/ k = i
    BY <1>1, <1>2
  <2>4. s[k].start # r.start
    <3>1. /\ s[k].start < s[k].end
          /\ Apart(s[k].start, s[k].end, r.start, r.end)
      BY <1>2, <1>3, <2>1 DEF NonEmpty, ApartFrom
    <3> QED BY <1>3, <1>4, <2>1, <3>1 DEF Apart
  <2> QED BY <1>4, <2>1, <2>2, <2>3, <2>4
<1>7. ASSUME NEW i \in DOMAIN t, NEW j \in DOMAIN t, i < j
      PROVE  t[i].start < t[j].start
  <2>1. CASE j < k
    BY <1>1, <1>2, <1>7, <2>1 DEF Sorted
  <2>2. CASE j = k
    BY <1>1, <1>2, <1>5, <1>7, <2>2
  <2>3. CASE j > k /\ i = k
    <3>1. j \in k + 1 .. Len(s) + 1 /\ j - 1 \in k .. Len(s)
      BY <1>1, <1>2, <2>3
    <3> QED BY <1>2, <1>6, <2>3, <3>1
  <2>4. CASE j > k /\ i > k
    <3>1. /\ i \in k + 1 .. Len(s) + 1 /\ j \in k + 1 .. Len(s) + 1
          /\ i - 1 \in DOMAIN s /\ j - 1 \in DOMAIN s /\ i - 1 < j - 1
      BY <1>1, <1>2, <1>7, <2>4
    <3> QED BY <1>2, <3>1 DEF Sorted
  <2>5. CASE j > k /\ i < k
    <3>1. /\ j \in k + 1 .. Len(s) + 1 /\ j - 1 \in k .. Len(s)
          /\ i \in 1 .. k - 1 /\ i \in 1 .. Len(s) /\ j - 1 \in 1 .. Len(s)
      BY <1>1, <1>2, <2>5
    <3> QED BY <1>2, <1>4, <1>5, <1>6, <3>1
  <2> QED BY <1>1, <1>2, <2>1, <2>2, <2>3, <2>4, <2>5
<1> QED BY <1>7 DEF Sorted, t

-----------------------------------------------------------------------------
(* Each step of the pool preserves OrderInv.                               *)

(* The types that the comparisons below need.                              *)
LEMMA VectorInts ==
  ASSUME IInv
  PROVE  /\ free_ranges_ \in Seq(FreeRange)
         /\ DOMAIN free_ranges_ = 1 .. Len(free_ranges_)
         /\ Len(free_ranges_) \in Nat
         /\ NonEmpty(free_ranges_) /\ Disjoint(free_ranges_)
         /\ \A i \in DOMAIN free_ranges_ :
              /\ free_ranges_[i].start \in Int /\ free_ranges_[i].end \in Int
              /\ free_ranges_[i].start \in Address
<1>1. Layout(free_ranges_)
  BY IInvVector
<1> QED BY <1>1, VectorType DEF Layout

(* AllocateVirtual: the range that shrinks keeps its place, and its new    *)
(* start is inside it, where no other range ends.                          *)
LEMMA CarveOrder ==
  ASSUME IInv, Carve, Sorted(free_ranges_), TouchAt(free_ranges_, chunks)
  PROVE  Sorted(free_ranges_') /\ TouchAt(free_ranges_', chunks)
<1> DEFINE s == free_ranges_
           t == free_ranges_'
           n == AlignUp(request)
<1>1. PICK i \in DOMAIN s :
        t = IF s[i].start + n >= s[i].end
              THEN RemoveAt(s, i)
              ELSE [s EXCEPT ![i].start = @ + n]
  BY DEF Carve
<1>2. /\ s \in Seq(FreeRange) /\ DOMAIN s = 1 .. Len(s) /\ Len(s) \in Nat
      /\ NonEmpty(s) /\ Disjoint(s)
      /\ \A j \in DOMAIN s : /\ s[j].start \in Int /\ s[j].end \in Int
                             /\ s[j] \in FreeRange
  BY VectorInts, VectorType
<1>3. n \in Nat \ {0}
  <2>1. request \in Nat \ {0}
    BY SizesAssumption DEF Carve, IInv, TypeOK
  <2> QED BY <2>1, AlignUpLemma
<1> HIDE DEF n
<1>4. Sorted(s) /\ TouchAt(s, chunks)
  OBVIOUS
<1>5. CASE s[i].start + n >= s[i].end
  <2>1. t = RemoveAt(s, i) /\ i \in 1 .. Len(s)
    BY <1>1, <1>2, <1>5
  <2>2. Among(t, s) /\ Sorted(t)
    BY <1>2, <1>4, <2>1, RemoveSorted
  <2> HIDE DEF s, t
  <2>3. Sorted(t) /\ TouchAt(t, chunks)
    BY <1>4, <2>2 DEF Among, TouchAt
  <2> QED BY <2>3 DEF t
<1>6. CASE ~(s[i].start + n >= s[i].end)
  <2>1. /\ DOMAIN t = DOMAIN s
        /\ t[i].start = s[i].start + n /\ t[i].end = s[i].end
        /\ \A j \in DOMAIN s : j # i => t[j] = s[j]
    BY <1>1, <1>2, <1>6 DEF FreeRange
  <2> HIDE DEF s, t
  <2>2. s[i].start < s[i].start + n /\ s[i].start + n < s[i].end
        /\ s[i].start + n \in Int
    BY <1>2, <1>3, <1>6
  <2>3. ASSUME NEW j \in DOMAIN s, j # i
        PROVE  /\ s[j].start < s[j].end
               /\ Apart(s[i].start, s[i].end, s[j].start, s[j].end)
    BY <1>2, <2>3 DEF NonEmpty, Disjoint
  <2>4. ASSUME NEW j \in DOMAIN t, NEW k \in DOMAIN t, j < k
        PROVE  t[j].start < t[k].start
    <3>1. s[j].start < s[k].start
      BY <1>4, <2>1, <2>4 DEF Sorted
    <3>2. CASE j = i
      <4>1. k # i /\ t[k] = s[k]
        BY <1>2, <2>1, <2>4, <3>2
      <4>2. s[k].start >= s[i].end
        BY <1>2, <2>1, <2>3, <3>1, <3>2, <4>1 DEF Apart
      <4> QED BY <1>2, <2>1, <2>2, <3>2, <4>1, <4>2
    <3>3. CASE j # i /\ k = i
      BY <1>2, <2>1, <2>2, <3>1, <3>3
    <3>4. CASE j # i /\ k # i
      BY <2>1, <3>1, <3>4
    <3> QED BY <3>2, <3>3, <3>4
  <2>5. ASSUME NEW j \in DOMAIN t, NEW k \in DOMAIN t,
               t[j].end = t[k].start
        PROVE  t[k].start \in chunks
    <3>1. t[j].end = s[j].end
      BY <2>1
    <3>2. CASE k # i
      BY <1>4, <2>1, <2>5, <3>1, <3>2 DEF TouchAt
    <3>3. CASE k = i /\ j = i
      BY <1>2, <2>1, <2>2, <2>5, <3>3
    <3>4. CASE k = i /\ j # i
      <4>1. s[j].end = s[i].start + n
        BY <2>1, <2>5, <3>1, <3>4
      <4> QED BY <1>2, <2>1, <2>2, <2>3, <3>4, <4>1 DEF Apart
    <3> QED BY <3>2, <3>3, <3>4
  <2>6. Sorted(t) /\ TouchAt(t, chunks)
    BY <2>4, <2>5 DEF Sorted, TouchAt
  <2> QED BY <2>6 DEF t
<1> QED BY <1>5, <1>6

(* ReserveChunk appends: the new chunk is above every free range.          *)
LEMMA ReserveOrder ==
  ASSUME IInv, ReserveChunk, OrderInv,
         ascending' = (ascending
                       /\ \A b \in chunks' \ chunks, c \in chunks : c < b)
  PROVE  OrderInv'
<1> DEFINE s == free_ranges_
           t == free_ranges_'
<1>1. PICK b \in FreshBases :
        /\ chunks' = chunks \cup {b}
        /\ t = Append(s, [start |-> b, end |-> b + kChunkSize])
  BY DEF ReserveChunk
<1> DEFINE r == [start |-> b, end |-> b + kChunkSize]
<1>2. /\ b \in Bases /\ b \in Int /\ kChunkSize \in Int /\ kChunkSize > 0
      /\ \A c \in chunks : c \in Int
      /\ \A c \in chunks : b + kChunkSize <= c \/ c + kChunkSize <= b
  BY BasesAssumption, ChunkAssumption DEF FreshBases, IInv, TypeOK
<1>3. r \in FreeRange /\ r.start = b /\ r.end = b + kChunkSize
  BY <1>2, BasesAssumption, ChunkAssumption DEF FreeRange, Address
<1>4. /\ s \in Seq(FreeRange) /\ DOMAIN s = 1 .. Len(s) /\ Len(s) \in Nat
      /\ NonEmpty(s)
      /\ \A i \in DOMAIN s : /\ s[i].start \in Int /\ s[i].end \in Int
                             /\ s[i].start \in Address
  BY VectorInts
<1>5. ChunksApart'
  BY <1>1, <1>2 DEF OrderInv, ChunksApart
<1>6. Len(s) + 1 \in 1 .. Len(s) + 1
  BY <1>4
<1>7. t = InsertAt(s, Len(s) + 1, r)
  BY <1>1, <1>3, <1>4, AppendIsInsert
<1> HIDE DEF r
<1>8. /\ DOMAIN t = 1 .. Len(s) + 1
      /\ t[Len(s) + 1] = r
      /\ \A i \in 1 .. Len(s) : t[i] = s[i]
  <2> HIDE DEF s, t
  <2> DEFINE k == Len(s) + 1
             u == InsertAt(s, k, r)
  <2>1. /\ u \in Seq(FreeRange) /\ Len(u) = Len(s) + 1 /\ u[k] = r
        /\ \A i \in 1 .. k - 1 : u[i] = s[i]
    BY <1>3, <1>4, <1>6, InsertAtRange
  <2> HIDE DEF u
  <2>2. DOMAIN u = 1 .. Len(s) + 1
    BY <2>1, VectorType
  <2>3. k - 1 = Len(s)
    BY <1>4
  <2>4. t = u
    BY <1>7 DEF u
  <2> QED BY <2>1, <2>2, <2>3, <2>4
<1>9. ASSUME ascending'
      PROVE  Sorted(t) /\ TouchAt(t, chunks')
  <2>1. ascending /\ Sorted(s) /\ TouchAt(s, chunks)
    BY <1>9 DEF OrderInv
  <2>2. ASSUME NEW i \in DOMAIN s
        PROVE  s[i].start < b
    <3>1. InFree(s[i].start)
      BY <1>4 DEF InFree, NonEmpty
    <3>2. InChunk(s[i].start)
      BY <1>4, <3>1 DEF IInv, Partition, NothingLost
    <3>3. PICK c \in chunks : c <= s[i].start /\ s[i].start < c + kChunkSize
      BY <3>2 DEF InChunk
    <3>4. b \in chunks' \ chunks
      BY <1>1, <1>2
    <3>5. c < b
      BY <1>9, <3>4
    <3> QED BY <1>2, <1>4, <3>3, <3>5
  <2> HIDE DEF s, t
  <2>3. Sorted(t)
    <3> SUFFICES ASSUME NEW i \in DOMAIN t, NEW j \in DOMAIN t, i < j
                 PROVE  t[i].start < t[j].start
      BY DEF Sorted
    <3>1. i \in DOMAIN s /\ t[i] = s[i]
      BY <1>4, <1>8
    <3>2. CASE j = Len(s) + 1
      BY <1>3, <1>8, <2>2, <3>1, <3>2
    <3>3. CASE j # Len(s) + 1
      <4>1. j \in DOMAIN s /\ t[j] = s[j]
        BY <1>4, <1>8, <3>3
      <4> QED BY <2>1, <3>1, <4>1 DEF Sorted
    <3> QED BY <3>2, <3>3
  <2>4. TouchAt(t, chunks')
    <3> SUFFICES ASSUME NEW i \in DOMAIN t, NEW j \in DOMAIN t,
                        t[i].end = t[j].start
                 PROVE  t[j].start \in chunks'
      BY DEF TouchAt
    <3>1. CASE j = Len(s) + 1
      BY <1>1, <1>3, <1>8, <3>1
    <3>2. CASE j # Len(s) + 1
      <4>1. j \in DOMAIN s /\ t[j] = s[j]
        BY <1>4, <1>8, <3>2
      <4>2. CASE i = Len(s) + 1
        BY <1>2, <1>3, <1>4, <1>8, <2>2, <4>1, <4>2
      <4>3. CASE i # Len(s) + 1
        <5>1. i \in DOMAIN s /\ t[i] = s[i]
          BY <1>4, <1>8, <4>3
        <5> QED BY <1>1, <2>1, <4>1, <5>1 DEF TouchAt
      <4> QED BY <4>2, <4>3
    <3> QED BY <3>1, <3>2
  <2> QED BY <2>3, <2>4
<1> QED BY <1>5, <1>9 DEF OrderInv

(* FreeVirtual on a sorted vector finds both neighbours of the freed       *)
(* range: afterwards it touches none that it did not absorb.               *)
LEMMA FreeOrder ==
  ASSUME IInv, NEW h \in held, FreeVirtual(h),
         Sorted(free_ranges_), TouchAt(free_ranges_, chunks)
  PROVE  Sorted(free_ranges_') /\ TouchAt(free_ranges_', chunks)
<1> DEFINE s == free_ranges_
           ptr == h.ptr
           end == ptr + AlignUp(h.size)
<1>1. InsertCoalesced(ptr, h.size)
  BY DEF FreeVirtual
<1>2. PICK p \in LowerBound(s, ptr) :
        LET joinsPrev == p > 1 /\ s[p - 1].end = ptr
            start == IF joinsPrev THEN s[p - 1].start ELSE ptr
            rest == IF joinsPrev THEN RemoveAt(s, p - 1) ELSE s
        IN \E q \in IF joinsPrev THEN LowerBound(rest, start) ELSE {p} :
             LET joinsNext == q <= Len(rest) /\ rest[q].start = end
                 freed == [start |-> start,
                           end   |-> IF joinsNext THEN rest[q].end ELSE end]
                 others == IF joinsNext THEN RemoveAt(rest, q) ELSE rest
             IN \E k \in LowerBound(others, freed.start) :
                  s' = InsertAt(others, k, freed)
  BY <1>1 DEF InsertCoalesced
<1> DEFINE joinsPrev == p > 1 /\ s[p - 1].end = ptr
           start == IF joinsPrev THEN s[p - 1].start ELSE ptr
           rest == IF joinsPrev THEN RemoveAt(s, p - 1) ELSE s
<1>3. PICK q \in IF joinsPrev THEN LowerBound(rest, start) ELSE {p} :
        LET joinsNext == q <= Len(rest) /\ rest[q].start = end
            freed == [start |-> start,
                      end   |-> IF joinsNext THEN rest[q].end ELSE end]
            others == IF joinsNext THEN RemoveAt(rest, q) ELSE rest
        IN \E k \in LowerBound(others, freed.start) :
             s' = InsertAt(others, k, freed)
  BY <1>2
<1> DEFINE joinsNext == q <= Len(rest) /\ rest[q].start = end
           top == IF joinsNext THEN rest[q].end ELSE end
           freed == [start |-> start, end |-> top]
           others == IF joinsNext THEN RemoveAt(rest, q) ELSE rest
<1>4. PICK k \in LowerBound(others, freed.start) :
        s' = InsertAt(others, k, freed)
  BY <1>3
<1>5. /\ s \in Seq(FreeRange) /\ DOMAIN s = 1 .. Len(s) /\ Len(s) \in Nat
      /\ NonEmpty(s) /\ Disjoint(s)
      /\ \A i \in 1 .. Len(s) : /\ s[i].start \in Int /\ s[i].end \in Int
                                /\ s[i].start \in Address
  BY VectorInts
<1>6. /\ ptr \in Address /\ end \in Address /\ ptr \in Int /\ end \in Int
      /\ ptr < end
  BY HeldRange DEF IInv
<1>7. Sorted(s) /\ TouchAt(s, chunks)
  OBVIOUS
<1>8. p \in 1 .. Len(s) + 1
  BY DEF LowerBound
<1>9. Layout(s')
  BY FreeEffect DEF Grown
<1> DEFINE t == s'
<1>10. t = s'
  OBVIOUS
<1> HIDE DEF s, t, ptr, end
<1>11. /\ rest \in Seq(FreeRange) /\ Sorted(rest) /\ Among(rest, s)
       /\ start \in Address /\ start \in Int /\ start <= ptr
  <2>1. CASE joinsPrev
    <3>1. p - 1 \in 1 .. Len(s)
      BY <1>5, <1>8, <2>1
    <3>2. s[p - 1].start < ptr
      BY <1>5, <2>1, <3>1 DEF NonEmpty
    <3> QED BY <1>5, <1>6, <1>7, <2>1, <3>1, <3>2, RemoveSorted, RemoveAtLemma
  <2>2. CASE ~joinsPrev
    BY <1>5, <1>6, <1>7, <2>2 DEF Among
  <2> QED BY <2>1, <2>2
<1>12. q \in LowerBound(rest, start)
  <2>1. CASE joinsPrev
    BY <2>1
  <2>2. CASE ~joinsPrev
    BY <2>2
  <2> QED BY <2>1, <2>2
(* No free range ends where the merged one begins, except at a chunk.      *)
<1>13. ASSUME NEW i \in DOMAIN s, s[i].end = start
       PROVE  start \in chunks
  <2>1. CASE joinsPrev
    <3>1. p - 1 \in DOMAIN s /\ start = s[p - 1].start
      BY <1>5, <1>8, <2>1
    <3> QED BY <1>7, <1>13, <3>1 DEF TouchAt
  <2>2. CASE ~joinsPrev
    <3>1. s[i].end = ptr /\ s[i].start < ptr
      BY <1>5, <1>13, <2>2 DEF NonEmpty
    <3>2. i < p
      <4> SUFFICES ASSUME p <= i PROVE FALSE
        BY <1>5, <1>8
      <4>1. p \in 1 .. Len(s)
        BY <1>5, <1>8
      <4>2. s[p].start >= ptr
        BY <4>1 DEF LowerBound
      <4>3. p < i => s[p].start < s[i].start
        BY <1>5, <1>7, <4>1 DEF Sorted
      <4> QED BY <1>5, <1>6, <3>1, <4>1, <4>2, <4>3
    <3>3. p > 1 /\ p - 1 \in 1 .. Len(s) /\ s[p - 1].start < ptr
      BY <1>5, <1>8, <3>2 DEF LowerBound
    <3>4. i # p - 1
      BY <2>2, <3>1, <3>3
    <3>5. s[i].start < s[p - 1].start
      <4>1. i < p - 1 /\ i \in DOMAIN s /\ p - 1 \in DOMAIN s
        BY <1>5, <1>8, <3>2, <3>3, <3>4
      <4> QED BY <1>7, <4>1 DEF Sorted
    <3>6. /\ Apart(s[i].start, s[i].end, s[p - 1].start, s[p - 1].end)
          /\ s[p - 1].start < s[p - 1].end
      BY <1>5, <3>3, <3>4 DEF Disjoint, NonEmpty
    <3> QED BY <1>5, <1>6, <3>1, <3>3, <3>5, <3>6 DEF Apart
  <2> QED BY <2>1, <2>2
<1> HIDE DEF joinsPrev, start, rest
<1>14. Len(rest) \in Nat /\ DOMAIN rest = 1 .. Len(rest)
       /\ \A i \in 1 .. Len(rest) : /\ rest[i].start \in Int
                                    /\ rest[i].end \in Int
                                    /\ rest[i].end \in Address
  BY <1>11, VectorType
<1>15. q \in 1 .. Len(rest) + 1
  BY <1>12 DEF LowerBound
<1>16. /\ others \in Seq(FreeRange) /\ Sorted(others) /\ Among(others, rest)
       /\ top \in Address
  <2>1. CASE joinsNext
    <3>1. q \in 1 .. Len(rest)
      BY <1>14, <1>15, <2>1
    <3> QED BY <1>11, <1>14, <2>1, <3>1, RemoveSorted, RemoveAtLemma
  <2>2. CASE ~joinsNext
    BY <1>6, <1>11, <2>2 DEF Among
  <2> QED BY <2>1, <2>2
<1>17. joinsNext => top = rest[q].end /\ q \in DOMAIN rest
  BY <1>14, <1>15
<1>18. ~joinsNext => top = end /\ others = rest
  OBVIOUS
<1>19. ~joinsNext => ~(q <= Len(rest) /\ rest[q].start = end)
  OBVIOUS
<1> HIDE DEF joinsNext, top, others
<1>20. freed \in FreeRange /\ freed.start = start /\ freed.end = top
  BY <1>11, <1>16 DEF FreeRange
<1> HIDE DEF freed
<1>21. t = InsertAt(others, k, freed) /\ Layout(InsertAt(others, k, freed))
  BY <1>4, <1>9, <1>10
<1>22. k \in 1 .. Len(others) + 1
  BY DEF LowerBound
<1>23. Sorted(t)
  BY <1>16, <1>20, <1>21, InsertSorted
<1>24. start < top /\ ApartFrom(others, start, top) /\ NonEmpty(others)
  BY <1>16, <1>20, <1>21, <1>22, InsertApart
<1>25. /\ \A i \in DOMAIN t : t[i] = freed \/ \E j \in DOMAIN others : t[i] = others[j]
  BY <1>16, <1>20, <1>21, <1>22, InsertElements
(* Nor does one begin where the merged one ends.                           *)
<1>26. ASSUME NEW i \in DOMAIN others, others[i].start = top
       PROVE  top \in chunks
  <2>1. PICK j \in DOMAIN rest : others[i] = rest[j]
    BY <1>16 DEF Among
  <2>2. CASE joinsNext
    <3>1. PICK x \in DOMAIN s : rest[q] = s[x]
      BY <1>11, <1>17, <2>2 DEF Among
    <3>2. PICK y \in DOMAIN s : rest[j] = s[y]
      BY <1>11 DEF Among
    <3>3. s[x].end = s[y].start /\ s[y].start = top
      BY <1>17, <1>26, <2>1, <2>2, <3>1, <3>2
    <3> QED BY <1>7, <3>3 DEF TouchAt
  <2>3. CASE ~joinsNext
    <3>1. rest[j].start = end /\ top = end /\ others = rest
      BY <1>18, <1>26, <2>1, <2>3
    <3>2. start < end
      BY <1>6, <1>11
    <3>3. q <= j
      <4> SUFFICES ASSUME j < q PROVE FALSE
        BY <1>14, <1>15
      <4>1. q - 1 \in 1 .. Len(rest) /\ rest[q - 1].start < start
        BY <1>12, <1>14, <1>15 DEF LowerBound
      <4>2. j < q - 1 => rest[j].start < rest[q - 1].start
        BY <1>11, <1>14, <4>1 DEF Sorted
      <4> QED BY <1>6, <1>11, <1>14, <1>15, <3>1, <3>2, <4>1, <4>2
    <3>4. q \in 1 .. Len(rest)
      BY <1>14, <1>15, <3>3
    <3>5. rest[q].start >= start
      BY <1>12, <3>4 DEF LowerBound
    <3>6. j # q
      BY <1>14, <1>19, <2>3, <3>1, <3>4
    <3>7. rest[q].start < end
      <4>1. q < j /\ q \in DOMAIN rest
        BY <1>14, <3>3, <3>4, <3>6
      <4> QED BY <1>11, <3>1, <4>1 DEF Sorted
    <3>8. /\ Apart(rest[q].start, rest[q].end, start, end)
          /\ rest[q].start < rest[q].end
      BY <1>14, <1>24, <3>1, <3>4 DEF ApartFrom, NonEmpty
    <3> QED BY <1>6, <1>11, <1>14, <3>4, <3>5, <3>7, <3>8 DEF Apart
  <2> QED BY <2>2, <2>3
<1>27. ASSUME NEW j \in DOMAIN others
       PROVE  \E i \in DOMAIN s : others[j] = s[i]
  BY <1>11, <1>16 DEF Among
<1>28. start \in Int /\ top \in Int
  BY <1>11, <1>16, BasesAssumption DEF Address
<1>29. ASSUME NEW i \in DOMAIN t, NEW j \in DOMAIN t, t[i].end = t[j].start
       PROVE  t[j].start \in chunks
  <2>1. CASE t[i] = freed /\ t[j] = freed
    BY <1>20, <1>24, <1>28, <1>29, <2>1
  <2>2. CASE t[i] = freed /\ \E y \in DOMAIN others : t[j] = others[y]
    BY <1>20, <1>26, <1>29, <2>2
  <2>3. CASE t[j] = freed /\ \E x \in DOMAIN others : t[i] = others[x]
    BY <1>13, <1>20, <1>27, <1>29, <2>3
  <2>4. CASE /\ \E x \in DOMAIN others : t[i] = others[x]
             /\ \E y \in DOMAIN others : t[j] = others[y]
    BY <1>7, <1>27, <1>29, <2>4 DEF TouchAt
  <2> QED BY <1>25, <2>1, <2>2, <2>3, <2>4
<1>30. Sorted(t) /\ TouchAt(t, chunks)
  BY <1>23, <1>29 DEF TouchAt
<1> QED BY <1>30 DEF t, s

LEMMA NextOrder ==
  IInv /\ OrderInv /\ [MCNext]_<<vars, ascending>> => OrderInv'
<1> SUFFICES ASSUME IInv, OrderInv, [MCNext]_<<vars, ascending>>
             PROVE  OrderInv'
  OBVIOUS
<1>1. ASSUME free_ranges_' = free_ranges_, chunks' = chunks,
             ascending' => ascending
      PROVE  OrderInv'
  BY <1>1 DEF OrderInv, ChunksApart
<1>2. CASE MCNext
  <2>1. ascending' => ascending
    BY <1>2 DEF MCNext
  <2>2. Next
    BY <1>2 DEF MCNext
  <2>3. CASE \E size \in Sizes : CallAllocateVirtual(size)
    BY <1>1, <2>1, <2>3 DEF CallAllocateVirtual
  <2>4. CASE Carve
    <3>1. chunks' = chunks
      BY <2>4 DEF Carve
    <3>2. ASSUME ascending'
          PROVE  Sorted(free_ranges_') /\ TouchAt(free_ranges_', chunks')
      BY <2>1, <2>4, <3>1, <3>2, CarveOrder DEF OrderInv
    <3> QED BY <3>1, <3>2 DEF OrderInv, ChunksApart
  <2>5. CASE ReserveChunk
    BY <1>2, <2>5, ReserveOrder DEF MCNext
  <2>6. CASE ReserveFails
    BY <1>1, <2>1, <2>6 DEF ReserveFails
  <2>7. CASE \E h \in held : FreeVirtual(h)
    <3>1. PICK h \in held : FreeVirtual(h)
      BY <2>7
    <3>2. chunks' = chunks
      BY <3>1 DEF FreeVirtual
    <3>3. ASSUME ascending'
          PROVE  Sorted(free_ranges_') /\ TouchAt(free_ranges_', chunks')
      BY <2>1, <3>1, <3>2, <3>3, FreeOrder DEF OrderInv
    <3> QED BY <3>2, <3>3 DEF OrderInv, ChunksApart
  <2>8. CASE Destroy
    BY <1>1, <2>1, <2>8 DEF Destroy
  <2> QED BY <2>2, <2>3, <2>4, <2>5, <2>6, <2>7, <2>8 DEF Next, AllocateVirtual
<1>3. CASE UNCHANGED <<vars, ascending>>
  BY <1>1, <1>3 DEF vars
<1> QED BY <1>2, <1>3

LEMMA MCInvariance == MCSpec => [](IInv /\ OrderInv)
<1>1. MCInit => IInv /\ OrderInv
  <2>1. ASSUME MCInit PROVE Init /\ DOMAIN free_ranges_ = {} /\ chunks = {}
    BY <2>1 DEF MCInit, Init
  <2> QED BY <2>1, InitIInv DEF OrderInv, ChunksApart, Sorted, TouchAt
<1>2. [MCNext]_<<vars, ascending>> => [Next]_vars
  BY DEF MCNext
<1> QED BY <1>1, <1>2, NextIInv, NextOrder, PTL DEF MCSpec

-----------------------------------------------------------------------------
(* "Sorted by start address.": as long as the driver returns chunks in     *)
(* ascending order, AllocateVirtual and FreeVirtual keep free_ranges_      *)
(* sorted, although ReserveChunk only appends.                             *)
THEOREM SortedWhenAscending == MCSpec => []FreeRangesSorted
<1>1. OrderInv => FreeRangesSorted
  BY DEF OrderInv, FreeRangesSorted, Sorted
<1> QED BY <1>1, MCInvariance, PTL

(* "coalescing adjacent ranges": then FreeVirtual leaves no two free       *)
(* ranges that touch, except where a chunk begins.                         *)
THEOREM CoalescedWhenAscending == MCSpec => []Coalesced
<1>1. OrderInv => Coalesced
  BY DEF OrderInv, Coalesced, TouchAt
<1> QED BY <1>1, MCInvariance, PTL

(* Free addresses in a row inside one chunk are one free range.            *)
LEMMA RunIsOneRange ==
  ASSUME IInv, OrderInv, ascending,
         NEW b \in chunks, NEW lo \in Address, NEW n \in Nat \ {0},
         b <= lo, lo + n <= b + kChunkSize,
         \A a \in lo .. (lo + n) - 1 : InFree(a)
  PROVE  \E i \in DOMAIN free_ranges_ : Fits(free_ranges_[i], n)
<1> DEFINE s == free_ranges_
           hi == lo + n
<1>1. /\ NonEmpty(s) /\ Disjoint(s) /\ TouchAt(s, chunks)
      /\ \A i \in DOMAIN s : s[i].start \in Int /\ s[i].end \in Int
  BY VectorInts DEF OrderInv
<1>2. lo \in Int /\ hi \in Int /\ lo < hi /\ lo \in lo .. hi - 1
  BY BasesAssumption DEF Address
<1>3. PICK i \in DOMAIN s : s[i].start <= lo /\ lo < s[i].end
  BY <1>2 DEF InFree
<1>4. s[i].end >= hi
  <2> SUFFICES ASSUME s[i].end < hi PROVE FALSE
    BY <1>1, <1>2
  <2>1. s[i].end \in lo .. hi - 1
    BY <1>1, <1>2, <1>3
  <2>2. PICK j \in DOMAIN s : s[j].start <= s[i].end /\ s[i].end < s[j].end
    <3>1. InFree(s[i].end)
      BY <2>1
    <3> QED BY <3>1 DEF InFree
  <2>3. s[j].start = s[i].end
    <3>1. i # j
      BY <1>1, <2>2
    <3>2. /\ Apart(s[i].start, s[i].end, s[j].start, s[j].end)
          /\ s[i].start < s[i].end
      BY <1>1, <3>1 DEF Disjoint, NonEmpty
    <3> QED BY <1>1, <2>2, <3>2 DEF Apart
  <2>4. s[j].start \in chunks
    BY <1>1, <2>3 DEF TouchAt
  <2>5. b \in Int /\ kChunkSize \in Int /\ kChunkSize > 0
    BY BasesAssumption, ChunkAssumption DEF IInv, TypeOK
  <2>6. b < s[j].start /\ s[j].start < b + kChunkSize
    BY <1>1, <1>2, <1>3, <2>3, <2>5
  <2> QED BY <1>1, <2>4, <2>5, <2>6 DEF OrderInv, ChunksApart
<1>5. s[i].end - s[i].start >= n
  BY <1>1, <1>2, <1>3, <1>4
<1> QED BY <1>5 DEF Fits

(* Then, too, AllocateVirtual reserves a chunk only if no chunk has enough *)
(* free addresses in a row for the request.                                *)
THEOREM NoNeedlessReserveWhenAscending == MCSpec => NoNeedlessReserve
<1> DEFINE Served ==
      ~ \E b \in chunks, lo \in Address :
          LET hi == lo + AlignUp(request)
          IN /\ b <= lo /\ hi <= b + kChunkSize
             /\ \A a \in lo .. hi - 1 : InFree(a)
<1>1. ASSUME IInv, OrderInv, [MCNext]_<<vars, ascending>>,
             ascending, chunks' # chunks
      PROVE  Served
  <2>1. ReserveChunk
    BY <1>1 DEF MCNext, Next, vars, CallAllocateVirtual, AllocateVirtual,
                Carve, ReserveFails, FreeVirtual, Destroy
  <2>2. AlignUp(request) \in Nat \ {0}
    <3>1. request \in Nat \ {0}
      BY <1>1, <2>1, SizesAssumption DEF ReserveChunk, IInv, TypeOK
    <3> QED BY <3>1, AlignUpLemma
  <2>3. ~ \E i \in DOMAIN free_ranges_ : Fits(free_ranges_[i], AlignUp(request))
    BY <2>1 DEF ReserveChunk, NothingFits
  <2> SUFFICES ASSUME NEW b \in chunks, NEW lo \in Address, b <= lo,
                      lo + AlignUp(request) <= b + kChunkSize,
                      \A a \in lo .. (lo + AlignUp(request)) - 1 : InFree(a)
               PROVE  FALSE
    OBVIOUS
  <2> QED BY <1>1, <2>2, <2>3, RunIsOneRange
<1>2. IInv /\ OrderInv /\ [MCNext]_<<vars, ascending>>
      => [ascending /\ chunks' # chunks => Served]_vars
  BY <1>1
<1> QED BY <1>2, MCInvariance, PTL DEF MCSpec, NoNeedlessReserve

=============================================================================
