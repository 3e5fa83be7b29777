--------------------------- MODULE VmmPoolProofs ---------------------------
(***************************************************************************)
(* Proofs about VmmPool, for every granularity, chunk size, set of base    *)
(* addresses the driver may return and set of sizes the client asks for.   *)
(***************************************************************************)
EXTENDS VmmPool, SequenceTheorems, TLAPS

-----------------------------------------------------------------------------
(* The operators the pool is built from.                                   *)

(* AllocateVirtual and FreeVirtual never round a size down.                *)
LEMMA AlignUpLemma ==
  ASSUME NEW n \in Nat \ {0}
  PROVE  AlignUp(n) \in Nat /\ n <= AlignUp(n)
  BY GranularityAssumption DEF AlignUp

(* vector::erase: the elements after the erased one move down by one.      *)
LEMMA RemoveAtLemma ==
  ASSUME NEW S, NEW s \in Seq(S), NEW i \in 1 .. Len(s)
  PROVE  /\ RemoveAt(s, i) \in Seq(S)
         /\ Len(RemoveAt(s, i)) = Len(s) - 1
         /\ \A j \in 1 .. Len(s) - 1 :
              RemoveAt(s, i)[j] = IF j < i THEN s[j] ELSE s[j + 1]
<1> DEFINE lo == SubSeq(s, 1, i - 1)
           hi == SubSeq(s, i + 1, Len(s))
<1>1. /\ Len(s) \in Nat /\ i \in Nat /\ 1 <= i /\ i <= Len(s)
      /\ \A j \in 1 .. Len(s) : s[j] \in S
  BY LenProperties, ElementOfSeq
<1>2. /\ lo \in Seq(S) /\ Len(lo) = i - 1
      /\ \A j \in 1 .. i - 1 : lo[j] = s[j]
  <2>1. /\ lo \in Seq(S)
        /\ Len(lo) = IF 1 <= i - 1 THEN (i - 1) - 1 + 1 ELSE 0
        /\ \A j \in 1 .. (i - 1) - 1 + 1 : lo[j] = s[1 + j - 1]
    <3>1. 1 \in Int /\ i - 1 \in Int /\ \A j \in 1 .. i - 1 : s[j] \in S
      BY <1>1
    <3> QED BY <3>1, SubSeqProperties DEF lo
  <2> HIDE DEF lo
  <2> QED BY <1>1, <2>1
<1>3. /\ hi \in Seq(S) /\ Len(hi) = Len(s) - i
      /\ \A j \in 1 .. Len(s) - i : hi[j] = s[i + j]
  <2>1. /\ hi \in Seq(S)
        /\ Len(hi) = IF i + 1 <= Len(s) THEN Len(s) - (i + 1) + 1 ELSE 0
        /\ \A j \in 1 .. Len(s) - (i + 1) + 1 : hi[j] = s[(i + 1) + j - 1]
    <3>1. i + 1 \in Int /\ Len(s) \in Int
          /\ \A j \in i + 1 .. Len(s) : s[j] \in S
      BY <1>1
    <3> QED BY <3>1, SubSeqProperties DEF hi
  <2> HIDE DEF hi
  <2> QED BY <1>1, <2>1
<1>4. RemoveAt(s, i) = lo \o hi
  BY DEF RemoveAt
<1> HIDE DEF lo, hi
<1>5. /\ lo \o hi \in Seq(S) /\ Len(lo \o hi) = Len(lo) + Len(hi)
      /\ \A j \in 1 .. Len(lo) + Len(hi) :
           (lo \o hi)[j] = IF j <= Len(lo) THEN lo[j] ELSE hi[j - Len(lo)]
  BY <1>2, <1>3, ConcatProperties
<1> QED BY <1>1, <1>2, <1>3, <1>4, <1>5

(* vector::insert: the elements from the position on move up by one.       *)
LEMMA InsertAtLemma ==
  ASSUME NEW S, NEW s \in Seq(S), NEW e \in S,
         NEW k \in Nat, 1 <= k, k <= Len(s) + 1
  PROVE  /\ InsertAt(s, k, e) \in Seq(S)
         /\ Len(InsertAt(s, k, e)) = Len(s) + 1
         /\ \A j \in 1 .. k - 1 : InsertAt(s, k, e)[j] = s[j]
         /\ InsertAt(s, k, e)[k] = e
         /\ \A j \in k + 1 .. Len(s) + 1 : InsertAt(s, k, e)[j] = s[j - 1]
<1> DEFINE lo == SubSeq(s, 1, k - 1)
           hi == SubSeq(s, k, Len(s))
           loe == lo \o <<e>>
<1>1. /\ Len(s) \in Nat /\ k \in Nat /\ 1 <= k /\ k <= Len(s) + 1
      /\ \A j \in 1 .. Len(s) : s[j] \in S
  BY LenProperties, ElementOfSeq
<1>2. /\ lo \in Seq(S) /\ Len(lo) = k - 1
      /\ \A j \in 1 .. k - 1 : lo[j] = s[j]
  <2>1. /\ lo \in Seq(S)
        /\ Len(lo) = IF 1 <= k - 1 THEN (k - 1) - 1 + 1 ELSE 0
        /\ \A j \in 1 .. (k - 1) - 1 + 1 : lo[j] = s[1 + j - 1]
    <3>1. 1 \in Int /\ k - 1 \in Int /\ \A j \in 1 .. k - 1 : s[j] \in S
      BY <1>1
    <3> QED BY <3>1, SubSeqProperties DEF lo
  <2> HIDE DEF lo
  <2> QED BY <1>1, <2>1
<1>3. /\ hi \in Seq(S) /\ Len(hi) = Len(s) - k + 1
      /\ \A j \in 1 .. Len(s) - k + 1 : hi[j] = s[k + j - 1]
  <2>1. /\ hi \in Seq(S)
        /\ Len(hi) = IF k <= Len(s) THEN Len(s) - k + 1 ELSE 0
        /\ \A j \in 1 .. Len(s) - k + 1 : hi[j] = s[k + j - 1]
    <3>1. k \in Int /\ Len(s) \in Int /\ \A j \in k .. Len(s) : s[j] \in S
      BY <1>1
    <3> QED BY <3>1, SubSeqProperties DEF hi
  <2> HIDE DEF hi
  <2> QED BY <1>1, <2>1
<1>4. InsertAt(s, k, e) = loe \o hi
  BY DEF InsertAt
<1> HIDE DEF lo, hi
<1>5. <<e>> \in Seq(S) /\ Len(<<e>>) = 1 /\ <<e>>[1] = e
  OBVIOUS
<1>6. /\ loe \in Seq(S) /\ Len(loe) = k
      /\ \A j \in 1 .. k : loe[j] = IF j <= k - 1 THEN lo[j] ELSE e
  <2>1. /\ loe \in Seq(S) /\ Len(loe) = Len(lo) + Len(<<e>>)
        /\ \A j \in 1 .. Len(lo) + Len(<<e>>) :
             loe[j] = IF j <= Len(lo) THEN lo[j] ELSE <<e>>[j - Len(lo)]
    BY <1>2, <1>5, ConcatProperties
  <2> HIDE DEF loe
  <2> QED BY <1>1, <1>2, <1>5, <2>1
<1> HIDE DEF loe
<1>7. /\ loe \o hi \in Seq(S) /\ Len(loe \o hi) = Len(loe) + Len(hi)
      /\ \A j \in 1 .. Len(loe) + Len(hi) :
           (loe \o hi)[j] = IF j <= Len(loe) THEN loe[j] ELSE hi[j - Len(loe)]
  BY <1>6, <1>3, ConcatProperties
<1> QED BY <1>1, <1>2, <1>3, <1>4, <1>6, <1>7

-----------------------------------------------------------------------------
(* A vector of ranges, as a set of addresses.                              *)

NonEmpty(s) == \A i \in DOMAIN s : s[i].start < s[i].end

Disjoint(s) ==
  \A i, j \in DOMAIN s :
    i # j => Apart(s[i].start, s[i].end, s[j].start, s[j].end)

Inside(a, lo, hi) == lo <= a /\ a < hi

Covers(s, a) == \E i \in DOMAIN s : Inside(a, s[i].start, s[i].end)

ApartFrom(s, lo, hi) ==
  \A i \in DOMAIN s : Apart(s[i].start, s[i].end, lo, hi)

Layout(s) == s \in Seq(FreeRange) /\ NonEmpty(s) /\ Disjoint(s)

LEMMA VectorType ==
  ASSUME NEW s \in Seq(FreeRange)
  PROVE  /\ Len(s) \in Nat
         /\ DOMAIN s = 1 .. Len(s)
         /\ \A i \in 1 .. Len(s) : /\ s[i] \in FreeRange
                                   /\ s[i].start \in Address
                                   /\ s[i].end \in Address
                                   /\ s[i].start \in Int
                                   /\ s[i].end \in Int
<1>1. Len(s) \in Nat /\ DOMAIN s = 1 .. Len(s)
  BY LenProperties
<1>2. ASSUME NEW i \in 1 .. Len(s)
      PROVE  /\ s[i] \in FreeRange
             /\ s[i].start \in Address /\ s[i].end \in Address
  <2>1. s[i] \in FreeRange
    BY ElementOfSeq
  <2> QED BY <2>1 DEF FreeRange
<1>3. Address \subseteq Int
  BY BasesAssumption DEF Address
<1> QED BY <1>1, <1>2, <1>3

(* Erasing a range gives up its addresses and no other.                    *)
LEMMA RemoveRange ==
  ASSUME NEW s, Layout(s), NEW i \in 1 .. Len(s)
  PROVE  /\ Layout(RemoveAt(s, i))
         /\ ApartFrom(RemoveAt(s, i), s[i].start, s[i].end)
         /\ \A lo, hi \in Int :
              ApartFrom(s, lo, hi) => ApartFrom(RemoveAt(s, i), lo, hi)
         /\ \A a \in Int : Covers(s, a) <=> \/ Covers(RemoveAt(s, i), a)
                                            \/ Inside(a, s[i].start, s[i].end)
<1> DEFINE t == RemoveAt(s, i)
           up(j) == IF j < i THEN j ELSE j + 1
           down(j) == IF j < i THEN j ELSE j - 1
<1>1. /\ s \in Seq(FreeRange) /\ NonEmpty(s) /\ Disjoint(s)
      /\ Len(s) \in Nat /\ DOMAIN s = 1 .. Len(s)
      /\ i \in Nat /\ 1 <= i /\ i <= Len(s)
  BY VectorType DEF Layout
<1>2. /\ t \in Seq(FreeRange) /\ Len(t) = Len(s) - 1
      /\ \A j \in 1 .. Len(s) - 1 : t[j] = IF j < i THEN s[j] ELSE s[j + 1]
  BY <1>1, RemoveAtLemma
<1> HIDE DEF t
<1>3. DOMAIN t = 1 .. Len(s) - 1
  BY <1>2, VectorType
<1>4. \A j \in DOMAIN t : up(j) \in DOMAIN s /\ up(j) # i /\ t[j] = s[up(j)]
  BY <1>1, <1>2, <1>3
<1>5. \A j, k \in DOMAIN t : j # k => up(j) # up(k)
  BY <1>1, <1>3
<1>6. \A j \in DOMAIN s : j # i => down(j) \in DOMAIN t /\ t[down(j)] = s[j]
  <2> SUFFICES ASSUME NEW j \in DOMAIN s, j # i
               PROVE  down(j) \in DOMAIN t /\ t[down(j)] = s[j]
    OBVIOUS
  <2>1. CASE j < i
    BY <1>1, <1>2, <1>3, <2>1
  <2>2. CASE ~(j < i)
    <3>1. j - 1 \in 1 .. Len(s) - 1 /\ ~(j - 1 < i) /\ (j - 1) + 1 = j
      BY <1>1, <2>2
    <3> QED BY <1>2, <1>3, <2>2, <3>1
  <2> QED BY <2>1, <2>2
<1> HIDE DEF up, down
<1>7. NonEmpty(t)
  BY <1>1, <1>4 DEF NonEmpty
<1>8. Disjoint(t)
  BY <1>1, <1>4, <1>5 DEF Disjoint
<1>9. ApartFrom(t, s[i].start, s[i].end)
  BY <1>1, <1>4 DEF Disjoint, ApartFrom
<1>10. \A lo, hi \in Int : ApartFrom(s, lo, hi) => ApartFrom(t, lo, hi)
  BY <1>4 DEF ApartFrom
<1>11. ASSUME NEW a \in Int
       PROVE  Covers(s, a) <=> Covers(t, a) \/ Inside(a, s[i].start, s[i].end)
  <2>1. Covers(s, a) => Covers(t, a) \/ Inside(a, s[i].start, s[i].end)
    BY <1>6 DEF Covers
  <2>2. Covers(t, a) => Covers(s, a)
    BY <1>4 DEF Covers
  <2>3. Inside(a, s[i].start, s[i].end) => Covers(s, a)
    BY <1>1 DEF Covers
  <2> QED BY <2>1, <2>2, <2>3
<1> QED BY <1>2, <1>7, <1>8, <1>9, <1>10, <1>11 DEF t, Layout

(* Inserting a range that touches no other adds its addresses and no       *)
(* other, wherever in the vector it goes.                                  *)
LEMMA InsertRange ==
  ASSUME NEW s, Layout(s), NEW k \in 1 .. Len(s) + 1,
         NEW r \in FreeRange, r.start < r.end, ApartFrom(s, r.start, r.end)
  PROVE  /\ Layout(InsertAt(s, k, r))
         /\ \A lo, hi \in Int :
              /\ ApartFrom(s, lo, hi)
              /\ Apart(r.start, r.end, lo, hi)
              => ApartFrom(InsertAt(s, k, r), lo, hi)
         /\ \A a \in Int : Covers(InsertAt(s, k, r), a)
                             <=> Covers(s, a) \/ Inside(a, r.start, r.end)
<1> DEFINE t == InsertAt(s, k, r)
           up(j) == IF j < k THEN j ELSE j + 1
           down(j) == IF j < k THEN j ELSE j - 1
<1>1. /\ s \in Seq(FreeRange) /\ NonEmpty(s) /\ Disjoint(s)
      /\ Len(s) \in Nat /\ DOMAIN s = 1 .. Len(s)
      /\ k \in Nat /\ 1 <= k /\ k <= Len(s) + 1
  BY VectorType DEF Layout
<1>2. /\ t \in Seq(FreeRange) /\ Len(t) = Len(s) + 1
      /\ \A j \in 1 .. k - 1 : t[j] = s[j]
      /\ t[k] = r
      /\ \A j \in k + 1 .. Len(s) + 1 : t[j] = s[j - 1]
  <2>1. s \in Seq(FreeRange) /\ k \in Nat /\ 1 <= k /\ k <= Len(s) + 1
    BY <1>1
  <2> HIDE DEF up, down
  <2> QED BY <2>1, InsertAtLemma
<1> HIDE DEF t
<1>3. DOMAIN t = 1 .. Len(s) + 1
  BY <1>2, VectorType
<1>4. k \in DOMAIN t /\ t[k] = r
  BY <1>1, <1>2, <1>3
<1>5. \A j \in DOMAIN t : j # k => down(j) \in DOMAIN s /\ t[j] = s[down(j)]
  BY <1>1, <1>2, <1>3
<1>6. \A j, m \in DOMAIN t : j # k /\ m # k /\ j # m => down(j) # down(m)
  BY <1>1, <1>3
<1>7. \A j \in DOMAIN s : up(j) \in DOMAIN t /\ t[up(j)] = s[j]
  <2> SUFFICES ASSUME NEW j \in DOMAIN s
               PROVE  up(j) \in DOMAIN t /\ t[up(j)] = s[j]
    OBVIOUS
  <2>1. CASE j < k
    BY <1>1, <1>2, <1>3, <2>1
  <2>2. CASE ~(j < k)
    <3>1. /\ j + 1 \in 1 .. Len(s) + 1
          /\ ~(j + 1 < k) /\ j + 1 # k /\ (j + 1) - 1 = j
      BY <1>1, <2>2
    <3> QED BY <1>2, <1>3, <2>2, <3>1
  <2> QED BY <2>1, <2>2
<1> HIDE DEF up, down
<1>8. NonEmpty(t)
  BY <1>1, <1>4, <1>5 DEF NonEmpty
<1>9. Disjoint(t)
  <2> SUFFICES ASSUME NEW i \in DOMAIN t, NEW j \in DOMAIN t, i # j
               PROVE  Apart(t[i].start, t[i].end, t[j].start, t[j].end)
    BY DEF Disjoint
  <2>1. CASE i # k /\ j # k
    BY <1>1, <1>5, <1>6, <2>1 DEF Disjoint
  <2>2. CASE i = k
    BY <1>4, <1>5, <2>2 DEF ApartFrom, Apart
  <2>3. CASE j = k
    BY <1>4, <1>5, <2>3 DEF ApartFrom
  <2> QED BY <2>1, <2>2, <2>3
<1>10. ASSUME NEW lo \in Int, NEW hi \in Int,
              ApartFrom(s, lo, hi), Apart(r.start, r.end, lo, hi)
       PROVE  ApartFrom(t, lo, hi)
  BY <1>4, <1>5, <1>10 DEF ApartFrom
<1>11. ASSUME NEW a \in Int
       PROVE  Covers(t, a) <=> Covers(s, a) \/ Inside(a, r.start, r.end)
  <2>1. Covers(t, a) => Covers(s, a) \/ Inside(a, r.start, r.end)
    BY <1>4, <1>5 DEF Covers
  <2>2. Covers(s, a) => Covers(t, a)
    BY <1>7 DEF Covers
  <2>3. Inside(a, r.start, r.end) => Covers(t, a)
    BY <1>4 DEF Covers
  <2> QED BY <2>1, <2>2, <2>3
<1> QED BY <1>2, <1>8, <1>9, <1>10, <1>11 DEF t, Layout

(* vector::push_back is an insertion at the end.                           *)
LEMMA AppendIsInsert ==
  ASSUME NEW s \in Seq(FreeRange), NEW r \in FreeRange
  PROVE  Append(s, r) = InsertAt(s, Len(s) + 1, r)
<1>1. Len(s) \in Nat
  BY VectorType
<1>2. /\ Append(s, r) \in Seq(FreeRange) /\ Len(Append(s, r)) = Len(s) + 1
      /\ \A j \in 1 .. Len(s) : Append(s, r)[j] = s[j]
      /\ Append(s, r)[Len(s) + 1] = r
  BY AppendProperties
<1> DEFINE t == InsertAt(s, Len(s) + 1, r)
<1>3. /\ t \in Seq(FreeRange) /\ Len(t) = Len(s) + 1
      /\ \A j \in 1 .. (Len(s) + 1) - 1 : t[j] = s[j]
      /\ t[Len(s) + 1] = r
  <2>1. Len(s) + 1 \in Nat /\ 1 <= Len(s) + 1 /\ Len(s) + 1 <= Len(s) + 1
    BY <1>1
  <2> QED BY <2>1, InsertAtLemma
<1> HIDE DEF t
<1>4. \A j \in 1 .. Len(s) + 1 : Append(s, r)[j] = t[j]
  BY <1>1, <1>2, <1>3
<1>5. Append(s, r) = t
  BY <1>2, <1>3, <1>4, SeqEqual
<1> QED BY <1>5 DEF t

(* Moving the start of a range is replacing it by a shorter one.           *)
LEMMA ShrinkIsReplace ==
  ASSUME NEW s \in Seq(FreeRange), NEW i \in 1 .. Len(s), NEW n \in Nat,
         s[i].start + n \in Address
  PROVE  LET r == [start |-> s[i].start + n, end |-> s[i].end]
         IN  /\ r \in FreeRange
             /\ i \in 1 .. Len(RemoveAt(s, i)) + 1
             /\ [s EXCEPT ![i].start = @ + n] = InsertAt(RemoveAt(s, i), i, r)
<1> DEFINE r == [start |-> s[i].start + n, end |-> s[i].end]
           e == [s EXCEPT ![i].start = @ + n]
           u == RemoveAt(s, i)
           t == InsertAt(u, i, r)
<1>1. /\ Len(s) \in Nat /\ i \in Nat /\ 1 <= i /\ i <= Len(s)
      /\ s[i] \in FreeRange /\ s[i].end \in Address
  BY VectorType
<1>2. r \in FreeRange
  BY <1>1 DEF FreeRange
<1>3. e = [s EXCEPT ![i] = r]
  <2>1. [s[i] EXCEPT !.start = s[i].start + n] = r
    BY <1>1 DEF FreeRange
  <2> QED BY <2>1
<1> HIDE DEF r, e
<1>4. /\ e \in Seq(FreeRange) /\ Len(e) = Len(s)
      /\ \A j \in 1 .. Len(s) : e[j] = IF j = i THEN r ELSE s[j]
  BY <1>2, <1>3, ExceptSeq
<1>5. /\ u \in Seq(FreeRange) /\ Len(u) = Len(s) - 1
      /\ \A j \in 1 .. Len(s) - 1 : u[j] = IF j < i THEN s[j] ELSE s[j + 1]
  BY RemoveAtLemma
<1> HIDE DEF u
<1>6. i \in 1 .. Len(u) + 1 /\ i \in Nat /\ 1 <= i /\ i <= Len(u) + 1
  BY <1>1, <1>5
<1>7. /\ t \in Seq(FreeRange) /\ Len(t) = Len(u) + 1
      /\ \A j \in 1 .. i - 1 : t[j] = u[j]
      /\ t[i] = r
      /\ \A j \in i + 1 .. Len(u) + 1 : t[j] = u[j - 1]
  BY <1>2, <1>5, <1>6, InsertAtLemma
<1> HIDE DEF t
<1>8. ASSUME NEW j \in 1 .. Len(s)
      PROVE  e[j] = t[j]
  <2>1. CASE j < i
    <3>1. j \in 1 .. i - 1 /\ j \in 1 .. Len(s) - 1 /\ j # i
      BY <1>1, <2>1
    <3>2. t[j] = u[j] /\ u[j] = s[j]
      BY <1>5, <1>7, <2>1, <3>1
    <3> QED BY <1>4, <3>1, <3>2
  <2>2. CASE j = i
    BY <1>1, <1>4, <1>5, <1>7, <2>2
  <2>3. CASE j > i
    <3>1. t[j] = u[j - 1]
      BY <1>1, <1>5, <1>7, <2>3
    <3>2. j - 1 \in 1 .. Len(s) - 1 /\ ~(j - 1 < i) /\ (j - 1) + 1 = j
      BY <1>1, <2>3
    <3>3. u[j - 1] = s[j]
      BY <1>5, <3>2
    <3>4. e[j] = s[j]
      BY <1>1, <1>4, <2>3
    <3> QED BY <3>1, <3>3, <3>4
  <2> QED BY <1>1, <2>1, <2>2, <2>3
<1>9. Len(e) = Len(t)
  BY <1>1, <1>4, <1>5, <1>7
<1>10. e = t
  BY <1>4, <1>7, <1>8, <1>9, SeqEqual
<1> QED BY <1>2, <1>6, <1>10 DEF t, u, e, r

(* What AllocateVirtual does to the vector when s[i] fits.                 *)
CarvedVector(s, i, n) ==
  IF s[i].start + n >= s[i].end
    THEN RemoveAt(s, i)
    ELSE [s EXCEPT ![i].start = @ + n]

(* Taking the low n addresses of a range removes those and no other.       *)
LEMMA CarveRange ==
  ASSUME NEW s, Layout(s), NEW i \in 1 .. Len(s), NEW n \in Nat \ {0},
         s[i].end - s[i].start >= n
  PROVE  LET t == CarvedVector(s, i, n)
             lo == s[i].start
             hi == s[i].start + n
         IN  /\ Layout(t)
             /\ lo \in Address /\ hi \in Address
             /\ ApartFrom(t, lo, hi)
             /\ \A x, y \in Int : ApartFrom(s, x, y) =>
                  /\ ApartFrom(t, x, y)
                  /\ Apart(lo, hi, x, y)
             /\ \A a \in Int :
                  Covers(s, a) <=> Covers(t, a) \/ Inside(a, lo, hi)
<1> DEFINE u == RemoveAt(s, i)
           lo == s[i].start
           hi == s[i].start + n
           end == s[i].end
           t == CarvedVector(s, i, n)
<1>1. /\ s \in Seq(FreeRange) /\ Disjoint(s) /\ NonEmpty(s)
      /\ DOMAIN s = 1 .. Len(s)
  BY VectorType DEF Layout
<1>2. /\ lo \in Address /\ end \in Address /\ lo \in Int /\ end \in Int
      /\ hi \in Int /\ lo < hi /\ hi <= end
  BY <1>1, VectorType
<1>3. hi \in Address
  BY <1>2, BasesAssumption DEF Address
<1>4. /\ Layout(u)
      /\ ApartFrom(u, lo, end)
      /\ \A x, y \in Int : ApartFrom(s, x, y) => ApartFrom(u, x, y)
      /\ \A a \in Int : Covers(s, a) <=> Covers(u, a) \/ Inside(a, lo, end)
  BY RemoveRange
<1>5. u \in Seq(FreeRange) /\ DOMAIN u = 1 .. Len(u)
      /\ \A j \in 1 .. Len(u) : u[j].start \in Int /\ u[j].end \in Int
  BY <1>4, VectorType DEF Layout
<1>6. \A x, y \in Int : ApartFrom(s, x, y) => Apart(lo, end, x, y)
  BY <1>1 DEF ApartFrom
<1>7. CASE hi >= end
  <2>1. t = u /\ hi = end
    BY <1>2, <1>7 DEF CarvedVector
  <2> HIDE DEF u, lo, hi, end, t
  <2>2. /\ Layout(t) /\ ApartFrom(t, lo, hi)
        /\ \A x, y \in Int : ApartFrom(s, x, y) =>
             ApartFrom(t, x, y) /\ Apart(lo, hi, x, y)
        /\ \A a \in Int : Covers(s, a) <=> Covers(t, a) \/ Inside(a, lo, hi)
    BY <1>4, <1>6, <2>1
  <2> QED BY <1>2, <1>3, <2>2 DEF lo, hi, t
<1>8. CASE ~(hi >= end)
  <2> DEFINE r == [start |-> hi, end |-> end]
  <2>1. /\ r \in FreeRange
        /\ i \in 1 .. Len(u) + 1
        /\ t = InsertAt(u, i, r)
    BY <1>1, <1>3, <1>8, ShrinkIsReplace DEF CarvedVector
  <2>2. r.start = hi /\ r.end = end
    OBVIOUS
  <2> HIDE DEF u, lo, hi, end, t, r
  <2>3. r.start < r.end
    BY <1>2, <1>8, <2>2
  <2>4. ApartFrom(u, lo, hi) /\ ApartFrom(u, r.start, r.end)
    BY <1>2, <1>4, <1>5, <2>2 DEF ApartFrom, Apart
  <2>5. /\ Layout(t)
        /\ \A x, y \in Int :
             ApartFrom(u, x, y) /\ Apart(r.start, r.end, x, y)
               => ApartFrom(t, x, y)
        /\ \A a \in Int :
             Covers(t, a) <=> Covers(u, a) \/ Inside(a, r.start, r.end)
    BY <1>4, <2>1, <2>3, <2>4, InsertRange
  <2>6. ApartFrom(t, lo, hi)
    BY <1>2, <2>2, <2>4, <2>5 DEF Apart
  <2>7. ASSUME NEW x \in Int, NEW y \in Int, ApartFrom(s, x, y)
        PROVE  ApartFrom(t, x, y) /\ Apart(lo, hi, x, y)
    <3>1. Apart(lo, end, x, y) /\ ApartFrom(u, x, y)
      BY <1>4, <1>6, <2>7
    <3>2. Apart(hi, end, x, y) /\ Apart(lo, hi, x, y)
      BY <1>2, <3>1 DEF Apart
    <3> QED BY <2>2, <2>5, <3>1, <3>2
  <2>8. ASSUME NEW a \in Int
        PROVE  Covers(s, a) <=> Covers(t, a) \/ Inside(a, lo, hi)
    <3>1. Inside(a, lo, end) <=> Inside(a, hi, end) \/ Inside(a, lo, hi)
      BY <1>2 DEF Inside
    <3> QED BY <1>4, <2>2, <2>5, <3>1
  <2> QED BY <1>2, <1>3, <2>5, <2>6, <2>7, <2>8 DEF lo, hi, t
<1> QED BY <1>7, <1>8

(* Two ranges that meet, both apart from a vector, make one that is.       *)
LEMMA JoinRanges ==
  ASSUME NEW s, Layout(s), NEW lo \in Int, NEW mid \in Int, NEW hi \in Int,
         lo < mid, mid < hi, ApartFrom(s, lo, mid), ApartFrom(s, mid, hi)
  PROVE  ApartFrom(s, lo, hi)
<1>1. /\ DOMAIN s = 1 .. Len(s) /\ NonEmpty(s)
      /\ \A i \in 1 .. Len(s) : s[i].start \in Int /\ s[i].end \in Int
  BY VectorType DEF Layout
<1> QED BY <1>1 DEF ApartFrom, Apart, NonEmpty

(* Grown(s, t, lo, hi): vector t is s with the addresses lo .. hi-1 added. *)
Grown(s, t, lo, hi) ==
  /\ Layout(t)
  /\ \A x, y \in Int :
       x < y /\ ApartFrom(s, x, y) /\ Apart(lo, hi, x, y) => ApartFrom(t, x, y)
  /\ \A a \in Int : Covers(t, a) <=> Covers(s, a) \/ Inside(a, lo, hi)

(* FreeVirtual gives back exactly the freed addresses, whichever of the    *)
(* neighbours it absorbs and wherever lower_bound puts the result.         *)
LEMMA FreeRangeLemma ==
  ASSUME Layout(free_ranges_),
         NEW ptr \in Address, NEW size, AlignUp(size) \in Nat \ {0},
         ptr + AlignUp(size) \in Address,
         ApartFrom(free_ranges_, ptr, ptr + AlignUp(size)),
         InsertCoalesced(ptr, size)
  PROVE  Grown(free_ranges_, free_ranges_', ptr, ptr + AlignUp(size))
<1> DEFINE s == free_ranges_
           end == ptr + AlignUp(size)
<1>1. PICK p \in LowerBound(s, ptr) :
        LET joinsPrev == p > 1 /\ s[p - 1].end = ptr
            start == IF joinsPrev THEN s[p - 1].start ELSE ptr
            rest == IF joinsPrev THEN RemoveAt(s, p - 1) ELSE s
        IN \E q \in IF joinsPrev THEN LowerBound(rest, start) ELSE {p} :
             LET joinsNext == q <= Len(rest) /\ rest[q].start = end
                 freed == [start |-> start,
                           end   |-> IF joinsNext THEN rest[q].end ELSE end]
                 others == IF joinsNext THEN RemoveAt(rest, q) ELSE rest
             IN \E k \in LowerBound(others, freed.start) :
                  s' = InsertAt(others, k, freed)
  BY DEF InsertCoalesced
<1> DEFINE joinsPrev == p > 1 /\ s[p - 1].end = ptr
           start == IF joinsPrev THEN s[p - 1].start ELSE ptr
           rest == IF joinsPrev THEN RemoveAt(s, p - 1) ELSE s
<1>2. PICK q \in IF joinsPrev THEN LowerBound(rest, start) ELSE {p} :
        LET joinsNext == q <= Len(rest) /\ rest[q].start = end
            freed == [start |-> start,
                      end   |-> IF joinsNext THEN rest[q].end ELSE end]
            others == IF joinsNext THEN RemoveAt(rest, q) ELSE rest
        IN \E k \in LowerBound(others, freed.start) :
             s' = InsertAt(others, k, freed)
  BY <1>1
<1> DEFINE joinsNext == q <= Len(rest) /\ rest[q].start = end
           top == IF joinsNext THEN rest[q].end ELSE end
           freed == [start |-> start, end |-> top]
           others == IF joinsNext THEN RemoveAt(rest, q) ELSE rest
<1>3. PICK k \in LowerBound(others, freed.start) :
        s' = InsertAt(others, k, freed)
  BY <1>2
<1>4. /\ ptr \in Int /\ end \in Int /\ ptr < end
      /\ Address \subseteq Int
  BY BasesAssumption DEF Address
<1>5. /\ s \in Seq(FreeRange) /\ NonEmpty(s) /\ DOMAIN s = 1 .. Len(s)
      /\ Len(s) \in Nat
      /\ \A i \in 1 .. Len(s) :
           s[i].start \in Address /\ s[i].end \in Address
  BY VectorType DEF Layout
<1>6. p \in 1 .. Len(s) + 1
  BY DEF LowerBound
<1>7. /\ Layout(rest)
      /\ start \in Address /\ start \in Int /\ start < end
      /\ ApartFrom(rest, start, end)
      /\ \A x, y \in Int :
           x < y /\ ApartFrom(s, x, y) /\ Apart(ptr, end, x, y)
             => ApartFrom(rest, x, y) /\ Apart(start, end, x, y)
      /\ \A a \in Int : \/ Covers(rest, a) \/ Inside(a, start, end)
                        <=> \/ Covers(s, a) \/ Inside(a, ptr, end)
  <2>1. CASE joinsPrev
    <3> DEFINE u == RemoveAt(s, p - 1)
               lo == s[p - 1].start
    <3>1. rest = u /\ start = lo /\ s[p - 1].end = ptr
      BY <2>1
    <3>2. p - 1 \in 1 .. Len(s)
      BY <1>5, <1>6, <2>1
    <3>3. lo \in Address /\ lo \in Int /\ lo < ptr
      BY <1>4, <1>5, <3>1, <3>2 DEF NonEmpty
    <3>4. /\ Layout(u)
          /\ ApartFrom(u, s[p - 1].start, s[p - 1].end)
          /\ \A x, y \in Int : ApartFrom(s, x, y) => ApartFrom(u, x, y)
          /\ \A a \in Int : Covers(s, a) <=>
               Covers(u, a) \/ Inside(a, s[p - 1].start, s[p - 1].end)
      BY <3>2, RemoveRange
    <3> HIDE DEF u, s, rest, start, end, joinsPrev
    <3>5. ApartFrom(u, lo, ptr) /\ ApartFrom(u, ptr, end)
      BY <1>4, <3>1, <3>4 DEF s, end
    <3>6. ApartFrom(u, lo, end)
      BY <1>4, <3>3, <3>4, <3>5, JoinRanges
    <3>7. ASSUME NEW x \in Int, NEW y \in Int,
                 x < y, ApartFrom(s, x, y), Apart(ptr, end, x, y)
          PROVE  ApartFrom(u, x, y) /\ Apart(lo, end, x, y)
      <4>1. Apart(lo, ptr, x, y)
        BY <1>5, <3>1, <3>2, <3>7 DEF ApartFrom
      <4> QED BY <1>4, <3>3, <3>4, <3>7, <4>1 DEF Apart
    <3>8. ASSUME NEW a \in Int
          PROVE  Covers(u, a) \/ Inside(a, lo, end)
                   <=> Covers(s, a) \/ Inside(a, ptr, end)
      BY <1>4, <3>1, <3>3, <3>4 DEF Inside
    <3> QED BY <1>4, <3>1, <3>3, <3>4, <3>6, <3>7, <3>8
  <2>2. CASE ~joinsPrev
    <3>1. rest = s /\ start = ptr
      BY <2>2
    <3> HIDE DEF rest, start, joinsPrev
    <3> QED BY <1>4, <3>1
  <2> QED BY <2>1, <2>2
<1>8. q \in 1 .. Len(rest) + 1
  <2>1. CASE joinsPrev
    BY <2>1 DEF LowerBound
  <2>2. CASE ~joinsPrev
    BY <1>6, <2>2
  <2> QED BY <2>1, <2>2
<1> HIDE DEF s, end, joinsPrev, start, rest
<1>9. /\ Layout(others)
      /\ top \in Address /\ start < top
      /\ ApartFrom(others, start, top)
      /\ \A x, y \in Int :
           x < y /\ ApartFrom(rest, x, y) /\ Apart(start, end, x, y)
             => ApartFrom(others, x, y) /\ Apart(start, top, x, y)
      /\ \A a \in Int : \/ Covers(others, a) \/ Inside(a, start, top)
                        <=> \/ Covers(rest, a) \/ Inside(a, start, end)
  <2>1. CASE joinsNext
    <3> DEFINE u == RemoveAt(rest, q)
               hi == rest[q].end
    <3>1. others = u /\ top = hi /\ rest[q].start = end
      BY <2>1
    <3>2. /\ rest \in Seq(FreeRange) /\ DOMAIN rest = 1 .. Len(rest)
          /\ Len(rest) \in Nat /\ NonEmpty(rest)
          /\ q \in 1 .. Len(rest) /\ q \in DOMAIN rest
      BY <1>7, <1>8, <2>1, VectorType DEF Layout
    <3>3. hi \in Address /\ hi \in Int /\ end < hi
      BY <1>4, <3>1, <3>2, VectorType DEF NonEmpty
    <3>4. /\ Layout(u)
          /\ ApartFrom(u, rest[q].start, rest[q].end)
          /\ \A x, y \in Int : ApartFrom(rest, x, y) => ApartFrom(u, x, y)
          /\ \A a \in Int : Covers(rest, a) <=>
               Covers(u, a) \/ Inside(a, rest[q].start, rest[q].end)
      BY <1>7, <3>2, RemoveRange
    <3> HIDE DEF u, others, top, joinsNext
    <3>5. ApartFrom(u, start, end) /\ ApartFrom(u, end, hi)
      BY <1>4, <1>7, <3>1, <3>4
    <3> HIDE DEF hi
    <3>6. ApartFrom(u, start, hi)
      BY <1>4, <1>7, <3>3, <3>4, <3>5, JoinRanges
    <3>7. ASSUME NEW x \in Int, NEW y \in Int,
                 x < y, ApartFrom(rest, x, y), Apart(start, end, x, y)
          PROVE  ApartFrom(u, x, y) /\ Apart(start, hi, x, y)
      <4>1. Apart(end, hi, x, y)
        BY <3>1, <3>2, <3>7 DEF ApartFrom, hi
      <4> QED BY <1>4, <1>7, <3>3, <3>4, <3>7, <4>1 DEF Apart
    <3>8. ASSUME NEW a \in Int
          PROVE  Covers(u, a) \/ Inside(a, start, hi)
                   <=> Covers(rest, a) \/ Inside(a, start, end)
      <4>1. Covers(rest, a) <=> Covers(u, a) \/ Inside(a, end, hi)
        BY <3>1, <3>4 DEF hi
      <4> QED BY <1>4, <1>7, <3>3, <4>1 DEF Inside
    <3> QED BY <1>4, <1>7, <3>1, <3>3, <3>4, <3>6, <3>7, <3>8
  <2>2. CASE ~joinsNext
    <3>1. others = rest /\ top = end
      BY <2>2
    <3> HIDE DEF others, top, joinsNext
    <3> QED BY <1>4, <1>7, <3>1 DEF end
  <2> QED BY <2>1, <2>2
<1> HIDE DEF joinsNext, others, top
<1>10. /\ freed \in FreeRange /\ freed.start = start /\ freed.end = top
       /\ k \in 1 .. Len(others) + 1
  BY <1>7, <1>9 DEF FreeRange, LowerBound
<1> HIDE DEF freed
<1>11. /\ Layout(s')
       /\ \A x, y \in Int :
            ApartFrom(others, x, y) /\ Apart(start, top, x, y)
              => ApartFrom(s', x, y)
       /\ \A a \in Int : Covers(s', a)
                           <=> Covers(others, a) \/ Inside(a, start, top)
  <2>1. freed.start < freed.end /\ ApartFrom(others, freed.start, freed.end)
    BY <1>9, <1>10
  <2> QED BY <1>3, <1>9, <1>10, <2>1, InsertRange
<1>12. Grown(s, s', ptr, end)
  BY <1>7, <1>9, <1>11 DEF Grown
<1> QED BY <1>12 DEF s, end

-----------------------------------------------------------------------------
(* The inductive invariant.  Type correctness alone is not inductive: that *)
(* a carved or merged range stays inside the address space follows from    *)
(* the sizes being those of real ranges, and that a new chunk meets no     *)
(* free range from every free address belonging to a reserved chunk.       *)

IInv == TypeOK /\ Partition

(* IInv in the terms of the lemmas above.                                  *)
LEMMA IInvVector ==
  IInv <=> /\ TypeOK
           /\ Layout(free_ranges_)
           /\ HeldDisjoint
           /\ \A h \in held : ApartFrom(free_ranges_, h.ptr, HeldEnd(h))
           /\ \A a \in Address : InChunk(a) <=> Covers(free_ranges_, a)
                                                \/ InHeld(a)
  BY DEF IInv, TypeOK, Partition, Layout, NonEmpty, Disjoint, ApartFrom,
         FreeNonEmpty, FreeDisjoint, FreeApartFromHeld, NothingLost,
         InFree, Covers, Inside

(* A range that was handed out is a non-empty range of addresses.          *)
LEMMA HeldRange ==
  ASSUME TypeOK, NEW h \in held
  PROVE  /\ h.ptr \in Address /\ HeldEnd(h) \in Address
         /\ h.ptr \in Int /\ HeldEnd(h) \in Int /\ h.ptr < HeldEnd(h)
         /\ h.size \in Sizes
         /\ h = [ptr |-> h.ptr, size |-> h.size]
         /\ HeldEnd(h) = h.ptr + AlignUp(h.size)
         /\ AlignUp(h.size) \in Nat \ {0}
<1>1. /\ h \in [ptr : Address, size : Sizes] /\ HeldEnd(h) \in Address
      /\ Address \subseteq Int
  BY BasesAssumption DEF TypeOK, Address
<1>2. /\ h.ptr \in Address /\ h.size \in Sizes
      /\ h = [ptr |-> h.ptr, size |-> h.size]
  BY <1>1
<1>3. AlignUp(h.size) \in Nat \ {0}
  <2>1. h.size \in Nat \ {0}
    BY <1>2, SizesAssumption
  <2> QED BY <2>1, AlignUpLemma
<1>4. HeldEnd(h) = h.ptr + AlignUp(h.size)
  BY DEF HeldEnd
<1>5. h.ptr \in Int /\ HeldEnd(h) \in Int
  BY <1>1, <1>2
<1> QED BY <1>1, <1>2, <1>3, <1>4, <1>5

(* Carve takes lo .. hi-1 from the free ranges and hands it out.           *)
Taken(lo, hi, size) ==
  /\ lo \in Address /\ hi \in Address /\ lo \in Int /\ hi \in Int /\ lo < hi
  /\ size \in Sizes /\ hi = lo + AlignUp(size)
  /\ Layout(free_ranges_')
  /\ ApartFrom(free_ranges_', lo, hi)
  /\ \A x, y \in Int : ApartFrom(free_ranges_, x, y) =>
       ApartFrom(free_ranges_', x, y) /\ Apart(lo, hi, x, y)
  /\ \A a \in Int : Covers(free_ranges_, a)
                      <=> Covers(free_ranges_', a) \/ Inside(a, lo, hi)
  /\ held' = held \cup {[ptr |-> lo, size |-> size]}
  /\ request' = None
  /\ UNCHANGED <<chunks, alive>>

LEMMA CarveEffect ==
  ASSUME IInv, Carve
  PROVE  \E lo, hi, size : Taken(lo, hi, size)
<1>1. PICK i \in DOMAIN free_ranges_ :
        LET n == AlignUp(request)
            r == free_ranges_[i]
        IN /\ FirstFit(i, n)
           /\ free_ranges_' = IF r.start + n >= r.end
                                THEN RemoveAt(free_ranges_, i)
                                ELSE [free_ranges_ EXCEPT ![i].start = @ + n]
           /\ held' = held \cup {[ptr |-> r.start, size |-> request]}
  BY DEF Carve
<1> DEFINE n == AlignUp(request)
           lo == free_ranges_[i].start
<1>2. Layout(free_ranges_) /\ request \in Sizes /\ i \in 1 .. Len(free_ranges_)
  BY IInvVector, VectorType DEF Carve, IInv, TypeOK, Layout
<1>3. n \in Nat \ {0}
  <2>1. request \in Nat \ {0}
    BY <1>2, SizesAssumption
  <2> QED BY <2>1, AlignUpLemma
<1>4. free_ranges_[i].end - lo >= n
  BY <1>1 DEF FirstFit, Fits
<1>5. free_ranges_' = CarvedVector(free_ranges_, i, n)
  BY <1>1 DEF CarvedVector
<1>6. lo \in Int
  BY <1>2, VectorType DEF Layout
<1>7. held' = held \cup {[ptr |-> lo, size |-> request]}
  BY <1>1
<1> HIDE DEF n
<1>8. /\ Layout(free_ranges_')
      /\ lo \in Address /\ lo + n \in Address
      /\ ApartFrom(free_ranges_', lo, lo + n)
      /\ \A x, y \in Int : ApartFrom(free_ranges_, x, y) =>
           ApartFrom(free_ranges_', x, y) /\ Apart(lo, lo + n, x, y)
      /\ \A a \in Int : Covers(free_ranges_, a)
                          <=> Covers(free_ranges_', a) \/ Inside(a, lo, lo + n)
  BY <1>2, <1>3, <1>4, <1>5, CarveRange
<1> HIDE DEF lo
<1>9. request' = None /\ UNCHANGED <<chunks, alive>>
  BY DEF Carve
<1>10. lo + n \in Int /\ lo < lo + n
  BY <1>3, <1>6
<1>11. Taken(lo, lo + n, request)
  BY <1>2, <1>6, <1>7, <1>8, <1>9, <1>10 DEF Taken, n
<1> QED BY <1>11

(* ReserveChunk adds a chunk of addresses that were not reserved.          *)
Reserved(b) ==
  /\ b \in Bases
  /\ b \in Address /\ b + kChunkSize \in Address /\ b \in Int
  /\ \A a \in Address : InChunk(a) => ~Inside(a, b, b + kChunkSize)
  /\ chunks' = chunks \cup {b}
  /\ Grown(free_ranges_, free_ranges_', b, b + kChunkSize)
  /\ UNCHANGED <<held, request, alive>>

LEMMA ReserveEffect ==
  ASSUME IInv, ReserveChunk
  PROVE  \E b : Reserved(b)
<1>1. PICK b \in FreshBases :
        /\ chunks' = chunks \cup {b}
        /\ free_ranges_' = Append(free_ranges_,
                                  [start |-> b, end |-> b + kChunkSize])
  BY DEF ReserveChunk
<1> DEFINE top == b + kChunkSize
           r == [start |-> b, end |-> top]
           s == free_ranges_
<1>2. /\ b \in Bases /\ b \in Address /\ top \in Address
      /\ b \in Int /\ top \in Int /\ b < top
      /\ Address \subseteq Int
  BY BasesAssumption, ChunkAssumption DEF FreshBases, Address
<1>3. \A c \in chunks : c \in Int /\ (c + kChunkSize <= b \/ top <= c)
  BY <1>2, BasesAssumption, ChunkAssumption DEF FreshBases, IInv, TypeOK
<1>4. ASSUME NEW a \in Address, InChunk(a)
      PROVE  ~Inside(a, b, top)
  <2>1. PICK c \in chunks : c <= a /\ a < c + kChunkSize
    BY <1>4 DEF InChunk
  <2> QED BY <1>2, <1>3, <2>1, ChunkAssumption DEF Inside
<1>5. /\ Layout(s)
      /\ \A a \in Address : Covers(s, a) => InChunk(a)
  BY IInvVector
<1>6. /\ s \in Seq(FreeRange) /\ NonEmpty(s) /\ DOMAIN s = 1 .. Len(s)
      /\ Len(s) \in Nat
      /\ \A i \in 1 .. Len(s) : /\ s[i].start \in Address
                                /\ s[i].end \in Address
  BY <1>5, VectorType DEF Layout
<1> HIDE DEF top
<1>7. ApartFrom(s, b, top)
  <2> SUFFICES ASSUME NEW i \in 1 .. Len(s)
               PROVE  Apart(s[i].start, s[i].end, b, top)
    BY <1>6 DEF ApartFrom
  <2>1. /\ s[i].start \in Int /\ s[i].end \in Int
        /\ s[i].start < s[i].end
    BY <1>2, <1>6 DEF NonEmpty
  <2>2. ~Inside(s[i].start, b, top)
    <3>1. Inside(s[i].start, s[i].start, s[i].end)
      BY <2>1 DEF Inside
    <3>2. Covers(s, s[i].start)
      BY <1>6, <3>1 DEF Covers
    <3> QED BY <1>4, <1>5, <1>6, <3>2
  <2>3. ~Inside(b, s[i].start, s[i].end)
    <3>1. SUFFICES ASSUME Inside(b, s[i].start, s[i].end)
                   PROVE  FALSE
      OBVIOUS
    <3>2. Covers(s, b)
      BY <1>6, <3>1 DEF Covers
    <3>3. Inside(b, b, top)
      BY <1>2 DEF Inside
    <3> QED BY <1>2, <1>4, <1>5, <3>2, <3>3
  <2> QED BY <1>2, <2>1, <2>2, <2>3 DEF Inside, Apart
<1>8. r \in FreeRange /\ r.start = b /\ r.end = top
  BY <1>2 DEF FreeRange
<1>9. s' = InsertAt(s, Len(s) + 1, r) /\ Len(s) + 1 \in 1 .. Len(s) + 1
  BY <1>1, <1>6, <1>8, AppendIsInsert DEF top
<1> HIDE DEF s, r
<1>10. /\ Layout(s')
       /\ \A x, y \in Int :
            ApartFrom(s, x, y) /\ Apart(b, top, x, y) => ApartFrom(s', x, y)
       /\ \A a \in Int : Covers(s', a) <=> Covers(s, a) \/ Inside(a, b, top)
  BY <1>2, <1>5, <1>7, <1>8, <1>9, InsertRange
<1>11. Grown(s, s', b, top)
  BY <1>10 DEF Grown
<1>12. Reserved(b)
  BY <1>1, <1>2, <1>4, <1>11 DEF Reserved, ReserveChunk, s, top
<1> QED BY <1>12

(* FreeVirtual(h) gives h back to the free ranges.                         *)
LEMMA FreeEffect ==
  ASSUME IInv, NEW h \in held, FreeVirtual(h)
  PROVE  Grown(free_ranges_, free_ranges_', h.ptr, HeldEnd(h))
<1>1. /\ Layout(free_ranges_)
      /\ ApartFrom(free_ranges_, h.ptr, HeldEnd(h))
  BY IInvVector
<1>2. /\ h.ptr \in Address /\ AlignUp(h.size) \in Nat \ {0}
      /\ HeldEnd(h) = h.ptr + AlignUp(h.size)
      /\ HeldEnd(h) \in Address
  BY HeldRange DEF IInv
<1>3. InsertCoalesced(h.ptr, h.size)
  BY DEF FreeVirtual
<1> QED BY <1>1, <1>2, <1>3, FreeRangeLemma

-----------------------------------------------------------------------------
LEMMA InitIInv == Init => IInv
<1> SUFFICES ASSUME Init PROVE IInv
  OBVIOUS
<1>1. Layout(free_ranges_) /\ Len(free_ranges_) = 0
      /\ DOMAIN free_ranges_ = {}
  BY DEF Init, Layout, NonEmpty, Disjoint
<1>2. TypeOK
  BY <1>1 DEF Init, TypeOK, Layout
<1>3. HeldDisjoint /\ \A h \in held : ApartFrom(free_ranges_, h.ptr, HeldEnd(h))
  BY DEF Init, HeldDisjoint
<1>4. \A a \in Address :
        InChunk(a) <=> Covers(free_ranges_, a) \/ InHeld(a)
  BY <1>1 DEF Init, InChunk, InHeld, Covers
<1> QED BY <1>1, <1>2, <1>3, <1>4, IInvVector

(* What IInv' says, in the terms of the lemmas above.                      *)
LEMMA IInvVectorNext ==
  ASSUME TypeOK', Layout(free_ranges_'), HeldDisjoint',
         \A h \in held' : ApartFrom(free_ranges_', h.ptr, HeldEnd(h)),
         \A a \in Address :
           InChunk(a)' <=> Covers(free_ranges_', a) \/ InHeld(a)'
  PROVE  IInv'
  BY DEF IInv, TypeOK, Partition, Layout, NonEmpty, Disjoint, ApartFrom,
         FreeNonEmpty, FreeDisjoint, FreeApartFromHeld, NothingLost,
         InFree, Covers, Inside

(* AllocateVirtual finds a range: it leaves the free ranges.               *)
LEMMA CarveIInv ==
  ASSUME IInv, Carve
  PROVE  IInv'
<1>1. PICK lo, hi, size : Taken(lo, hi, size)
  BY CarveEffect
<1> DEFINE g == [ptr |-> lo, size |-> size]
<1>2. /\ TypeOK /\ HeldDisjoint
      /\ \A h \in held : ApartFrom(free_ranges_, h.ptr, HeldEnd(h))
      /\ \A a \in Address :
           InChunk(a) <=> Covers(free_ranges_, a) \/ InHeld(a)
  BY IInvVector
<1>3. g.ptr = lo /\ HeldEnd(g) = hi /\ g \in [ptr : Address, size : Sizes]
  BY <1>1 DEF Taken, HeldEnd
<1>4. held' = held \cup {g} /\ hi \in Address
  BY <1>1 DEF Taken
<1> HIDE DEF g
<1>5. TypeOK'
  <2>1. HeldEnd(g) \in Address
    BY <1>3, <1>4
  <2>2. \A h \in held' : HeldEnd(h) \in Address
    BY <1>2, <1>4, <2>1 DEF TypeOK
  <2>3. held' \subseteq [ptr : Address, size : Sizes]
    BY <1>2, <1>3, <1>4 DEF TypeOK
  <2>4. /\ free_ranges_' \in Seq(FreeRange)
        /\ request' = None /\ chunks' = chunks /\ alive' = alive
    BY <1>1 DEF Taken, Layout
  <2> QED BY <1>2, <2>2, <2>3, <2>4 DEF TypeOK, HeldEnd
<1>6. \A h \in held : /\ ApartFrom(free_ranges_', h.ptr, HeldEnd(h))
                      /\ Apart(lo, hi, h.ptr, HeldEnd(h))
  BY <1>1, <1>2, HeldRange DEF Taken
<1>7. HeldDisjoint'
  <2> SUFFICES ASSUME NEW h \in held', NEW k \in held', h # k
               PROVE  Apart(h.ptr, HeldEnd(h), k.ptr, HeldEnd(k))
    BY DEF HeldDisjoint, HeldEnd
  <2>1. CASE h \in held /\ k \in held
    BY <1>2, <2>1 DEF HeldDisjoint
  <2>2. CASE h = g /\ k \in held
    BY <1>3, <1>6, <2>2
  <2>3. CASE h \in held /\ k = g
    BY <1>3, <1>6, <2>3 DEF Apart
  <2> QED BY <1>4, <2>1, <2>2, <2>3
<1>8. \A h \in held' : ApartFrom(free_ranges_', h.ptr, HeldEnd(h))
  BY <1>1, <1>3, <1>4, <1>6 DEF Taken
<1>9. ASSUME NEW a \in Address
      PROVE  InChunk(a)' <=> Covers(free_ranges_', a) \/ InHeld(a)'
  <2>1. a \in Int
    BY BasesAssumption DEF Address
  <2>2. InChunk(a)' <=> InChunk(a)
    BY <1>1 DEF Taken, InChunk
  <2>3. InHeld(a)' <=> InHeld(a) \/ Inside(a, lo, hi)
    BY <1>3, <1>4 DEF InHeld, HeldEnd, Inside
  <2>4. Covers(free_ranges_, a) <=> Covers(free_ranges_', a)
                                    \/ Inside(a, lo, hi)
    BY <1>1, <2>1 DEF Taken
  <2> QED BY <1>2, <2>2, <2>3, <2>4
<1>10. Layout(free_ranges_')
  BY <1>1 DEF Taken
<1> QED BY <1>5, <1>7, <1>8, <1>9, <1>10, IInvVectorNext

(* AllocateVirtual finds none: the new chunk joins the free ranges.        *)
LEMMA ReserveIInv ==
  ASSUME IInv, ReserveChunk
  PROVE  IInv'
<1>1. PICK b : Reserved(b)
  BY ReserveEffect
<1> DEFINE top == b + kChunkSize
<1>2. /\ TypeOK /\ HeldDisjoint
      /\ \A h \in held : ApartFrom(free_ranges_, h.ptr, HeldEnd(h))
      /\ \A a \in Address :
           InChunk(a) <=> Covers(free_ranges_, a) \/ InHeld(a)
  BY IInvVector
<1>3. /\ Layout(free_ranges_')
      /\ b \in Bases /\ b \in Int /\ top \in Int
      /\ chunks' = chunks \cup {b}
      /\ held' = held /\ request' = request /\ alive' = alive
  BY <1>1, ChunkAssumption DEF Reserved, Grown
<1>4. TypeOK'
  BY <1>2, <1>3 DEF TypeOK, Layout, HeldEnd
<1>5. HeldDisjoint'
  BY <1>2, <1>3 DEF HeldDisjoint, HeldEnd
<1> HIDE DEF top
<1>6. ASSUME NEW h \in held
      PROVE  ApartFrom(free_ranges_', h.ptr, HeldEnd(h))
  <2>1. /\ h.ptr \in Address /\ h.ptr \in Int /\ HeldEnd(h) \in Int
        /\ h.ptr < HeldEnd(h)
    BY <1>2, HeldRange
  <2>2. Apart(b, top, h.ptr, HeldEnd(h))
    <3>1. \A a \in Address :
            InHeld(a) => ~Inside(a, b, top)
      BY <1>1, <1>2 DEF Reserved, top
    <3>2. ~Inside(h.ptr, b, top)
      BY <2>1, <3>1 DEF InHeld
    <3>3. b \in Address /\ ~(h.ptr <= b /\ b < HeldEnd(h))
      BY <1>1, <1>3, <3>1, ChunkAssumption DEF InHeld, Inside, Reserved, top
    <3> QED BY <1>3, <2>1, <3>2, <3>3 DEF Inside, Apart
  <2> QED BY <1>1, <1>2, <2>1, <2>2 DEF Reserved, Grown, top
<1>7. ASSUME NEW a \in Address
      PROVE  InChunk(a)' <=> Covers(free_ranges_', a) \/ InHeld(a)'
  <2>1. a \in Int
    BY BasesAssumption DEF Address
  <2>2. InChunk(a)' <=> InChunk(a) \/ Inside(a, b, top)
    BY <1>3 DEF InChunk, Inside, top
  <2>3. InHeld(a)' <=> InHeld(a)
    BY <1>3 DEF InHeld, HeldEnd
  <2>4. Covers(free_ranges_', a) <=> Covers(free_ranges_, a)
                                     \/ Inside(a, b, top)
    BY <1>1, <2>1 DEF Reserved, Grown, top
  <2> QED BY <1>2, <2>2, <2>3, <2>4
<1> QED BY <1>3, <1>4, <1>5, <1>6, <1>7, IInvVectorNext

(* FreeVirtual: the range goes back to the free ranges.                    *)
LEMMA FreeIInv ==
  ASSUME IInv, NEW h \in held, FreeVirtual(h)
  PROVE  IInv'
<1> DEFINE lo == h.ptr
           hi == HeldEnd(h)
<1>1. Grown(free_ranges_, free_ranges_', lo, hi)
  BY FreeEffect
<1>2. /\ TypeOK /\ HeldDisjoint
      /\ \A g \in held : ApartFrom(free_ranges_, g.ptr, HeldEnd(g))
      /\ \A a \in Address :
           InChunk(a) <=> Covers(free_ranges_, a) \/ InHeld(a)
  BY IInvVector
<1>3. /\ Layout(free_ranges_')
      /\ held' = held \ {h}
      /\ chunks' = chunks /\ request' = request /\ alive' = alive
  BY <1>1 DEF FreeVirtual, Grown
<1>4. TypeOK'
  BY <1>2, <1>3 DEF TypeOK, Layout, HeldEnd
<1>5. HeldDisjoint'
  BY <1>2, <1>3 DEF HeldDisjoint, HeldEnd
<1>6. ASSUME NEW g \in held'
      PROVE  ApartFrom(free_ranges_', g.ptr, HeldEnd(g))
  <2>1. g \in held /\ g # h
    BY <1>3
  <2>2. g.ptr \in Int /\ HeldEnd(g) \in Int /\ g.ptr < HeldEnd(g)
    BY <1>2, <2>1, HeldRange
  <2>3. Apart(lo, hi, g.ptr, HeldEnd(g))
    BY <1>2, <2>1 DEF HeldDisjoint
  <2> QED BY <1>1, <1>2, <2>1, <2>2, <2>3 DEF Grown
<1>7. ASSUME NEW a \in Address
      PROVE  InChunk(a)' <=> Covers(free_ranges_', a) \/ InHeld(a)'
  <2>1. a \in Int
    BY BasesAssumption DEF Address
  <2>2. InChunk(a)' <=> InChunk(a)
    BY <1>3 DEF InChunk
  <2>3. InHeld(a) <=> InHeld(a)' \/ Inside(a, lo, hi)
    BY <1>3 DEF InHeld, HeldEnd, Inside
  <2>4. Covers(free_ranges_', a) <=> Covers(free_ranges_, a)
                                     \/ Inside(a, lo, hi)
    BY <1>1, <2>1 DEF Grown
  <2> QED BY <1>2, <2>2, <2>3, <2>4
<1> QED BY <1>3, <1>4, <1>5, <1>6, <1>7, IInvVectorNext

LEMMA NextIInv == IInv /\ [Next]_vars => IInv'
<1> SUFFICES ASSUME IInv, [Next]_vars PROVE IInv'
  OBVIOUS
<1>1. ASSUME UNCHANGED <<free_ranges_, chunks, held>>, TypeOK'
      PROVE  IInv'
  BY <1>1 DEF IInv, Partition, FreeNonEmpty, FreeDisjoint, HeldDisjoint,
              FreeApartFromHeld, NothingLost, InChunk, InFree, InHeld, HeldEnd
<1>2. CASE \E size \in Sizes : CallAllocateVirtual(size)
  <2>1. TypeOK'
    BY <1>2 DEF CallAllocateVirtual, IInv, TypeOK, HeldEnd
  <2> QED BY <1>1, <1>2, <2>1 DEF CallAllocateVirtual
<1>3. CASE Carve
  BY <1>3, CarveIInv
<1>4. CASE ReserveChunk
  BY <1>4, ReserveIInv
<1>5. CASE ReserveFails
  <2>1. TypeOK'
    BY <1>5 DEF ReserveFails, IInv, TypeOK, HeldEnd
  <2> QED BY <1>1, <1>5, <2>1 DEF ReserveFails
<1>6. CASE \E h \in held : FreeVirtual(h)
  BY <1>6, FreeIInv
<1>7. CASE Destroy
  <2>1. TypeOK'
    BY <1>7 DEF Destroy, IInv, TypeOK, HeldEnd
  <2> QED BY <1>1, <1>7, <2>1 DEF Destroy
<1>8. CASE UNCHANGED vars
  <2>1. TypeOK'
    BY <1>8 DEF vars, IInv, TypeOK, HeldEnd
  <2> QED BY <1>1, <1>8, <2>1 DEF vars
<1> QED BY <1>2, <1>3, <1>4, <1>5, <1>6, <1>7, <1>8 DEF Next, AllocateVirtual

LEMMA Invariance == Spec => []IInv
  BY InitIInv, NextIInv, PTL DEF Spec

(* The state of a pool stays well formed: in particular no range it        *)
(* computes leaves the address space the driver returns chunks from.       *)
THEOREM TypeCorrect == Spec => []TypeOK
<1>1. IInv => TypeOK
  BY DEF IInv
<1> QED BY <1>1, Invariance, PTL

(* AllocateVirtual and FreeVirtual keep the reserved addresses partitioned *)
(* into free ranges and ranges handed out, in whatever order the driver    *)
(* returns the chunks and whatever the order of the vector.                *)
THEOREM PartitionHolds == Spec => []Partition
<1>1. IInv => Partition
  BY DEF IInv
<1> QED BY <1>1, Invariance, PTL

-----------------------------------------------------------------------------
(* VmmPool implements VaSpace.                                             *)

reservedBar == {a \in Address : InChunk(a)}
availableBar == {a \in Address : InFree(a)}
spansBar == {[start |-> h.ptr, end |-> HeldEnd(h)] : h \in held}

(* The addresses of a span are addresses of the pool.                      *)
LEMMA SpanAddresses ==
  ASSUME NEW lo \in Address, NEW hi \in Address
  PROVE  /\ VA!Span(lo, hi) \subseteq Address
         /\ \A a \in Address : a \in VA!Span(lo, hi) <=> Inside(a, lo, hi)
         /\ Address \subseteq Int
  BY BasesAssumption DEF Address, VA!Span, Inside

LEMMA InFreeCovers ==
  /\ \A a : InFree(a) <=> Covers(free_ranges_, a)
  /\ \A a : InFree(a)' <=> Covers(free_ranges_', a)
  BY DEF InFree, Covers, Inside

(* A range carved from the free ranges is a span allocated.                *)
LEMMA CarveAllocates ==
  ASSUME IInv, Carve
  PROVE  VA!Next
<1>1. PICK lo, hi, size : Taken(lo, hi, size)
  BY CarveEffect
<1>2. lo \in Address /\ hi \in Address /\ lo < hi
  BY <1>1 DEF Taken
<1>3. reservedBar' = reservedBar
  BY <1>1 DEF Taken, reservedBar, InChunk
<1>4. ASSUME NEW a \in Address
      PROVE  /\ InFree(a) <=> InFree(a)' \/ Inside(a, lo, hi)
             /\ ~(InFree(a)' /\ Inside(a, lo, hi))
  <2>1. /\ Layout(free_ranges_') /\ ApartFrom(free_ranges_', lo, hi)
        /\ a \in Int /\ lo \in Int /\ hi \in Int
    BY <1>1, SpanAddresses DEF Taken
  <2>2. Covers(free_ranges_, a) <=> Covers(free_ranges_', a)
                                    \/ Inside(a, lo, hi)
    BY <1>1, <2>1 DEF Taken
  <2>3. ~(Covers(free_ranges_', a) /\ Inside(a, lo, hi))
    <3>1. /\ DOMAIN free_ranges_' = 1 .. Len(free_ranges_')
          /\ \A i \in 1 .. Len(free_ranges_') :
               /\ free_ranges_'[i].start \in Int
               /\ free_ranges_'[i].end \in Int
      BY <2>1, VectorType DEF Layout
    <3> QED BY <2>1, <3>1 DEF Covers, Inside, ApartFrom, Apart
  <2> QED BY <2>2, <2>3, InFreeCovers
<1>5. VA!Span(lo, hi) \subseteq availableBar
  BY <1>2, <1>4, SpanAddresses DEF availableBar
<1>6. availableBar' = availableBar \ VA!Span(lo, hi)
  BY <1>2, <1>4, SpanAddresses DEF availableBar
<1>7. spansBar' = spansBar \cup {[start |-> lo, end |-> hi]}
  <2> DEFINE g == [ptr |-> lo, size |-> size]
  <2>1. g.ptr = lo /\ HeldEnd(g) = hi /\ held' = held \cup {g}
    BY <1>1 DEF Taken, HeldEnd
  <2>2. spansBar' = {[start |-> h.ptr, end |-> HeldEnd(h)] : h \in held'}
    BY DEF spansBar, HeldEnd
  <2> HIDE DEF g
  <2> QED BY <2>1, <2>2 DEF spansBar
<1>8. VA!Allocate(lo, hi)
  BY <1>3, <1>5, <1>6, <1>7
  DEF VA!Allocate, reservedBar, availableBar, spansBar
<1> QED BY <1>2, <1>8 DEF VA!Next

(* A chunk reserved from the driver is new addresses.                      *)
LEMMA ReserveReserves ==
  ASSUME IInv, ReserveChunk
  PROVE  VA!Next
<1>1. PICK b : Reserved(b)
  BY ReserveEffect
<1> DEFINE top == b + kChunkSize
<1>2. b \in Address /\ top \in Address /\ b < top
  BY <1>1, ChunkAssumption DEF Reserved
<1> HIDE DEF top
<1>3. VA!Span(b, top) \cap reservedBar = {}
  BY <1>1, <1>2, SpanAddresses DEF Reserved, reservedBar, top
<1>4. reservedBar' = reservedBar \cup VA!Span(b, top)
  <2>1. \A a \in Address : InChunk(a)' <=> InChunk(a) \/ Inside(a, b, top)
    BY <1>1 DEF Reserved, InChunk, Inside, top
  <2> QED BY <1>2, <2>1, SpanAddresses DEF reservedBar
<1>5. availableBar' = availableBar \cup VA!Span(b, top)
  <2>1. \A a \in Address : InFree(a)' <=> InFree(a) \/ Inside(a, b, top)
    BY <1>1, <1>2, SpanAddresses, InFreeCovers DEF Reserved, Grown, top
  <2> QED BY <1>2, <2>1, SpanAddresses DEF availableBar
<1>6. spansBar' = spansBar
  BY <1>1 DEF Reserved, spansBar, HeldEnd
<1>7. VA!Reserve(b, top)
  BY <1>3, <1>4, <1>5, <1>6
  DEF VA!Reserve, reservedBar, availableBar, spansBar
<1> QED BY <1>2, <1>7 DEF VA!Next

(* A range given back is a span released.                                  *)
LEMMA FreeReleases ==
  ASSUME IInv, NEW h \in held, FreeVirtual(h)
  PROVE  VA!Next
<1> DEFINE lo == h.ptr
           hi == HeldEnd(h)
           span(g) == [start |-> g.ptr, end |-> HeldEnd(g)]
<1>1. Grown(free_ranges_, free_ranges_', lo, hi)
  BY FreeEffect
<1>2. /\ lo \in Address /\ hi \in Address /\ lo < hi
      /\ TypeOK /\ HeldDisjoint
  BY HeldRange DEF IInv, Partition
<1>3. /\ held' = held \ {h} /\ chunks' = chunks
  BY DEF FreeVirtual
<1>4. reservedBar' = reservedBar
  BY <1>3 DEF reservedBar, InChunk
<1>5. availableBar' = availableBar \cup VA!Span(lo, hi)
  <2>1. \A a \in Address : InFree(a)' <=> InFree(a) \/ Inside(a, lo, hi)
    BY <1>1, <1>2, SpanAddresses, InFreeCovers DEF Grown
  <2> QED BY <1>2, <2>1, SpanAddresses DEF availableBar
<1>6. \A g \in held : span(g) = span(h) => g = h
  <2> SUFFICES ASSUME NEW g \in held, span(g) = span(h), g # h
               PROVE  FALSE
    OBVIOUS
  <2>1. g.ptr = h.ptr /\ HeldEnd(g) = HeldEnd(h)
    OBVIOUS
  <2>2. Apart(g.ptr, HeldEnd(g), h.ptr, HeldEnd(h))
    BY <1>2 DEF HeldDisjoint
  <2>3. h.ptr \in Int /\ HeldEnd(h) \in Int /\ h.ptr < HeldEnd(h)
    BY <1>2, HeldRange
  <2> QED BY <2>1, <2>2, <2>3 DEF Apart
<1>7. spansBar = {span(g) : g \in held}
      /\ spansBar' = {span(g) : g \in held'}
  BY DEF spansBar, HeldEnd
<1> HIDE DEF span
<1>8. spansBar' = spansBar \ {span(h)} /\ span(h) \in spansBar
  BY <1>3, <1>6, <1>7
<1>9. VA!Release(lo, hi)
  BY <1>4, <1>5, <1>8
  DEF VA!Release, reservedBar, availableBar, spansBar, span
<1> QED BY <1>2, <1>9 DEF VA!Next

(* VmmPool implements the abstract stock of addresses: chunks arrive,      *)
(* disjoint spans leave and come back whole, whatever the vector looks     *)
(* like inside.                                                            *)
THEOREM Refinement == Spec => ImplementsVaSpace
<1>1. Init => VA!Init
  <2> SUFFICES ASSUME Init PROVE VA!Init
    OBVIOUS
  <2>1. reservedBar = {} /\ availableBar = {} /\ spansBar = {}
    BY DEF Init, reservedBar, availableBar, spansBar, InChunk, InFree
  <2> QED BY <2>1 DEF VA!Init, reservedBar, availableBar, spansBar
<1>2. IInv /\ [Next]_vars => [VA!Next]_VA!vars
  <2> SUFFICES ASSUME IInv, [Next]_vars PROVE [VA!Next]_VA!vars
    OBVIOUS
  <2>1. ASSUME UNCHANGED <<free_ranges_, chunks, held>>
        PROVE  UNCHANGED VA!vars
    BY <2>1 DEF VA!vars, InChunk, InFree, HeldEnd
  <2>2. CASE \E size \in Sizes : CallAllocateVirtual(size)
    BY <2>1, <2>2 DEF CallAllocateVirtual
  <2>3. CASE Carve
    BY <2>3, CarveAllocates
  <2>4. CASE ReserveChunk
    BY <2>4, ReserveReserves
  <2>5. CASE ReserveFails
    BY <2>1, <2>5 DEF ReserveFails
  <2>6. CASE \E h \in held : FreeVirtual(h)
    BY <2>6, FreeReleases
  <2>7. CASE Destroy
    BY <2>1, <2>7 DEF Destroy
  <2>8. CASE UNCHANGED vars
    BY <2>1, <2>8 DEF vars
  <2> QED BY <2>2, <2>3, <2>4, <2>5, <2>6, <2>7, <2>8
          DEF Next, AllocateVirtual
<1> QED BY <1>1, <1>2, Invariance, PTL DEF Spec, VA!Spec, ImplementsVaSpace

-----------------------------------------------------------------------------
(***************************************************************************)
(* Alignment.  ReserveChunk asks cuMemAddressReserve for no alignment      *)
(* (0), so that what it returns is aligned is the driver's promise.        *)
(***************************************************************************)
BasesAligned == \A b \in Bases : b % Granularity = 0

StartsAligned(s) == \A i \in DOMAIN s : s[i].start % Granularity = 0

(* All that HeldAligned needs: the free ranges start where ranges may be   *)
(* handed out.  Their ends need not be aligned.                            *)
AlignedInv == StartsAligned(free_ranges_) /\ HeldAligned

LEMMA ModLemma ==
  ASSUME NEW a \in Nat, NEW q \in Int, a % Granularity = 0
  PROVE  (a + q * Granularity) % Granularity = 0
<1> DEFINE G == Granularity
           m == a \div G
           x == a + q * G
           d == (m + q) - (x \div G)
<1>1. /\ G \in Int /\ G > 0 /\ x \in Int /\ m \in Int /\ x \div G \in Int
      /\ x % G \in Int
  BY GranularityAssumption
<1>2. a = G * m
  BY GranularityAssumption
<1>3. x = G * (x \div G) + (x % G) /\ 0 <= x % G /\ x % G < G
  BY <1>1
<1> HIDE DEF G, m
<1>4. x % G = G * d
  BY <1>1, <1>2, <1>3
<1> HIDE DEF x
<1>5. d \in Int
  BY <1>1
<1> HIDE DEF d
<1>6. d <= 0
  <2> SUFFICES ASSUME d >= 1 PROVE FALSE
    BY <1>5
  <2> QED BY <1>1, <1>3, <1>4, <1>5
<1>7. d >= 0
  <2> SUFFICES ASSUME d <= -1 PROVE FALSE
    BY <1>5
  <2> QED BY <1>1, <1>3, <1>4, <1>5
<1>8. x % G = 0
  BY <1>1, <1>4, <1>5, <1>6, <1>7
<1> QED BY <1>8 DEF x, G

(* Rounding a size up gives a multiple of the granularity.                 *)
LEMMA AlignUpAligned ==
  ASSUME NEW a \in Nat, NEW n \in Nat, a % Granularity = 0
  PROVE  (a + AlignUp(n)) % Granularity = 0
<1>1. (n + Granularity - 1) \div Granularity \in Int
  BY GranularityAssumption
<1> QED BY <1>1, ModLemma DEF AlignUp

LEMMA RemoveAligned ==
  ASSUME NEW s \in Seq(FreeRange), StartsAligned(s), NEW i \in 1 .. Len(s)
  PROVE  StartsAligned(RemoveAt(s, i))
<1>1. /\ RemoveAt(s, i) \in Seq(FreeRange)
      /\ Len(RemoveAt(s, i)) = Len(s) - 1
      /\ \A j \in 1 .. Len(s) - 1 :
           RemoveAt(s, i)[j] = IF j < i THEN s[j] ELSE s[j + 1]
  BY RemoveAtLemma
<1>2. /\ Len(s) \in Nat /\ DOMAIN s = 1 .. Len(s)
      /\ DOMAIN RemoveAt(s, i) = 1 .. Len(s) - 1
  BY <1>1, VectorType
<1> QED BY <1>1, <1>2 DEF StartsAligned

LEMMA InsertAligned ==
  ASSUME NEW s \in Seq(FreeRange), StartsAligned(s),
         NEW r \in FreeRange, r.start % Granularity = 0,
         NEW k \in 1 .. Len(s) + 1
  PROVE  StartsAligned(InsertAt(s, k, r))
<1>0. Len(s) \in Nat /\ DOMAIN s = 1 .. Len(s)
  BY VectorType
<1>1. k \in Nat /\ 1 <= k /\ k <= Len(s) + 1
  BY <1>0
<1>2. /\ InsertAt(s, k, r) \in Seq(FreeRange)
      /\ Len(InsertAt(s, k, r)) = Len(s) + 1
      /\ \A j \in 1 .. k - 1 : InsertAt(s, k, r)[j] = s[j]
      /\ InsertAt(s, k, r)[k] = r
      /\ \A j \in k + 1 .. Len(s) + 1 : InsertAt(s, k, r)[j] = s[j - 1]
  BY <1>1, InsertAtLemma
<1>3. DOMAIN InsertAt(s, k, r) = 1 .. Len(s) + 1
  BY <1>2, VectorType
<1>4. ASSUME NEW j \in 1 .. Len(s) + 1
      PROVE  InsertAt(s, k, r)[j].start % Granularity = 0
  <2>1. CASE j < k
    BY <1>0, <1>1, <1>2, <2>1 DEF StartsAligned
  <2>2. CASE j = k
    BY <1>2, <2>2
  <2>3. CASE j > k
    BY <1>0, <1>1, <1>2, <2>3 DEF StartsAligned
  <2> QED BY <1>0, <1>1, <2>1, <2>2, <2>3
<1> QED BY <1>3, <1>4 DEF StartsAligned
LEMMA CarveAligned ==
  ASSUME IInv, AlignedInv, Carve
  PROVE  AlignedInv'
<1> DEFINE s == free_ranges_
           n == AlignUp(request)
<1>1. PICK i \in DOMAIN s :
        LET r == s[i]
        IN /\ FirstFit(i, n)
           /\ s' = IF r.start + n >= r.end
                     THEN RemoveAt(s, i)
                     ELSE [s EXCEPT ![i].start = @ + n]
           /\ held' = held \cup {[ptr |-> r.start, size |-> request]}
  BY DEF Carve
<1>2. /\ s \in Seq(FreeRange) /\ DOMAIN s = 1 .. Len(s) /\ Len(s) \in Nat
      /\ s[i] \in FreeRange /\ s[i].start \in Address
      /\ request \in Nat
  <2>1. request \in Sizes /\ s \in Seq(FreeRange)
    BY DEF Carve, IInv, TypeOK
  <2> QED BY <2>1, SizesAssumption, VectorType
<1>3. Address \subseteq Nat
  BY BasesAssumption DEF Address
<1>4. s[i].start % Granularity = 0
  BY DEF AlignedInv, StartsAligned
<1>5. (s[i].start + n) % Granularity = 0
  BY <1>2, <1>3, <1>4, AlignUpAligned
<1> HIDE DEF n
<1>6. StartsAligned(s')
  <2>1. CASE s[i].start + n >= s[i].end
    BY <1>1, <1>2, <2>1, RemoveAligned DEF AlignedInv
  <2>2. CASE ~(s[i].start + n >= s[i].end)
    <3>1. s' = [s EXCEPT ![i].start = @ + n]
      BY <1>1, <2>2
    <3>2. /\ DOMAIN s' = DOMAIN s
          /\ s'[i].start = s[i].start + n
          /\ \A j \in DOMAIN s : j # i => s'[j] = s[j]
      BY <1>2, <3>1 DEF FreeRange
    <3> QED BY <1>5, <3>2 DEF AlignedInv, StartsAligned
  <2> QED BY <2>1, <2>2
<1>7. HeldAligned'
  BY <1>1, <1>4 DEF HeldAligned, AlignedInv
<1> QED BY <1>6, <1>7 DEF AlignedInv

LEMMA ReserveAligned ==
  ASSUME BasesAligned, IInv, AlignedInv, ReserveChunk
  PROVE  AlignedInv'
<1> DEFINE s == free_ranges_
<1>1. PICK b \in FreshBases :
        s' = Append(s, [start |-> b, end |-> b + kChunkSize])
  BY DEF ReserveChunk
<1> DEFINE r == [start |-> b, end |-> b + kChunkSize]
<1>2. b \in Bases /\ r \in FreeRange /\ r.start % Granularity = 0
  BY BasesAssumption, ChunkAssumption
  DEF FreshBases, FreeRange, Address, BasesAligned
<1>3. s \in Seq(FreeRange) /\ Len(s) + 1 \in 1 .. Len(s) + 1
  <2>1. s \in Seq(FreeRange)
    BY DEF IInv, TypeOK
  <2> QED BY <2>1, VectorType
<1> HIDE DEF r
<1>4. s' = InsertAt(s, Len(s) + 1, r)
  BY <1>1, <1>2, <1>3, AppendIsInsert DEF r
<1>5. StartsAligned(s')
  BY <1>2, <1>3, <1>4, InsertAligned DEF AlignedInv
<1>6. HeldAligned'
  BY DEF ReserveChunk, HeldAligned, AlignedInv
<1> QED BY <1>5, <1>6 DEF AlignedInv

LEMMA FreeAligned ==
  ASSUME IInv, AlignedInv, NEW h \in held, FreeVirtual(h)
  PROVE  AlignedInv'
<1> DEFINE s == free_ranges_
           ptr == h.ptr
           end == ptr + AlignUp(h.size)
<1>1. InsertCoalesced(ptr, h.size)
  BY DEF FreeVirtual
<1>2. PICK p \in LowerBound(s, ptr) :
        LET joinsPrev == p > 1 /\ s[p - 1].end = ptr
            start == IF joinsPrev THEN s[p - 1].start ELSE ptr
            rest == IF joinsPrev THEN RemoveAt(s, p - 1) ELSE s
        IN \E q \in IF joinsPrev THEN LowerBound(rest, start) ELSE {p} :
             LET joinsNext == q <= Len(rest) /\ rest[q].start = end
                 freed == [start |-> start,
                           end   |-> IF joinsNext THEN rest[q].end ELSE end]
                 others == IF joinsNext THEN RemoveAt(rest, q) ELSE rest
             IN \E k \in LowerBound(others, freed.start) :
                  s' = InsertAt(others, k, freed)
  BY <1>1 DEF InsertCoalesced
<1> DEFINE joinsPrev == p > 1 /\ s[p - 1].end = ptr
           start == IF joinsPrev THEN s[p - 1].start ELSE ptr
           rest == IF joinsPrev THEN RemoveAt(s, p - 1) ELSE s
<1>3. PICK q \in IF joinsPrev THEN LowerBound(rest, start) ELSE {p} :
        LET joinsNext == q <= Len(rest) /\ rest[q].start = end
            freed == [start |-> start,
                      end   |-> IF joinsNext THEN rest[q].end ELSE end]
            others == IF joinsNext THEN RemoveAt(rest, q) ELSE rest
        IN \E k \in LowerBound(others, freed.start) :
             s' = InsertAt(others, k, freed)
  BY <1>2
<1> DEFINE joinsNext == q <= Len(rest) /\ rest[q].start = end
           top == IF joinsNext THEN rest[q].end ELSE end
           freed == [start |-> start, end |-> top]
           others == IF joinsNext THEN RemoveAt(rest, q) ELSE rest
<1>4. PICK k \in LowerBound(others, freed.start) :
        s' = InsertAt(others, k, freed)
  BY <1>3
<1>5. /\ s \in Seq(FreeRange) /\ DOMAIN s = 1 .. Len(s) /\ Len(s) \in Nat
      /\ \A i \in 1 .. Len(s) : s[i].start \in Address
  <2>1. s \in Seq(FreeRange)
    BY DEF IInv, TypeOK
  <2> QED BY <2>1, VectorType
<1>6. ptr \in Address /\ end \in Address /\ ptr % Granularity = 0
  BY HeldRange DEF IInv, AlignedInv, HeldAligned
<1>7. StartsAligned(s)
  BY DEF AlignedInv
<1>8. p \in 1 .. Len(s) + 1
  BY DEF LowerBound
<1> HIDE DEF s, ptr, end
<1>9. /\ rest \in Seq(FreeRange) /\ StartsAligned(rest)
      /\ start \in Address /\ start % Granularity = 0
  <2>1. CASE joinsPrev
    <3>1. p - 1 \in 1 .. Len(s)
      BY <1>5, <1>8, <2>1
    <3> QED BY <1>5, <1>7, <2>1, <3>1, RemoveAligned, RemoveAtLemma
            DEF StartsAligned
  <2>2. CASE ~joinsPrev
    BY <1>5, <1>6, <1>7, <2>2
  <2> QED BY <2>1, <2>2
<1>10. q \in 1 .. Len(rest) + 1
  <2>1. CASE joinsPrev
    BY <2>1 DEF LowerBound
  <2>2. CASE ~joinsPrev
    BY <1>8, <2>2
  <2> QED BY <2>1, <2>2
<1> HIDE DEF joinsPrev, start, rest
<1>11. /\ others \in Seq(FreeRange) /\ StartsAligned(others)
       /\ top \in Address
  <2>1. CASE joinsNext
    <3>1. q \in 1 .. Len(rest)
      BY <1>9, <1>10, <2>1, VectorType
    <3> QED BY <1>9, <2>1, <3>1, RemoveAligned, RemoveAtLemma, VectorType
  <2>2. CASE ~joinsNext
    BY <1>6, <1>9, <2>2
  <2> QED BY <2>1, <2>2
<1> HIDE DEF joinsNext, top, others
<1>12. freed \in FreeRange /\ freed.start = start
  BY <1>9, <1>11 DEF FreeRange
<1> HIDE DEF freed
<1>13. k \in 1 .. Len(others) + 1
  BY DEF LowerBound
<1>14. StartsAligned(s')
  BY <1>4, <1>9, <1>11, <1>12, <1>13, InsertAligned
<1>15. HeldAligned'
  BY DEF FreeVirtual, HeldAligned, AlignedInv
<1> QED BY <1>14, <1>15 DEF AlignedInv, s

LEMMA NextAligned ==
  ASSUME BasesAligned
  PROVE  IInv /\ AlignedInv /\ [Next]_vars => AlignedInv'
<1> SUFFICES ASSUME IInv, AlignedInv, [Next]_vars PROVE AlignedInv'
  OBVIOUS
<1>1. ASSUME free_ranges_' = free_ranges_, held' = held
      PROVE  AlignedInv'
  BY <1>1 DEF AlignedInv, HeldAligned
<1>2. CASE \E size \in Sizes : CallAllocateVirtual(size)
  BY <1>1, <1>2 DEF CallAllocateVirtual
<1>3. CASE Carve
  BY <1>3, CarveAligned
<1>4. CASE ReserveChunk
  BY <1>4, ReserveAligned
<1>5. CASE ReserveFails
  BY <1>1, <1>5 DEF ReserveFails
<1>6. CASE \E h \in held : FreeVirtual(h)
  BY <1>6, FreeAligned
<1>7. CASE Destroy
  BY <1>1, <1>7 DEF Destroy
<1>8. CASE UNCHANGED vars
  BY <1>1, <1>8 DEF vars
<1> QED BY <1>2, <1>3, <1>4, <1>5, <1>6, <1>7, <1>8 DEF Next, AllocateVirtual

(* If the driver aligns the chunks it reserves, every range that           *)
(* AllocateVirtual hands out is aligned, however often ranges have been    *)
(* split and merged, and whether or not kChunkSize is a multiple of the    *)
(* granularity.                                                            *)
THEOREM HandedOutAligned ==
  ASSUME BasesAligned
  PROVE  Spec => []HeldAligned
<1>1. Init => AlignedInv
  <2>1. ASSUME Init PROVE DOMAIN free_ranges_ = {} /\ held = {}
    BY <2>1 DEF Init
  <2> QED BY <2>1 DEF AlignedInv, StartsAligned, HeldAligned
<1>2. AlignedInv => HeldAligned
  BY DEF AlignedInv
<1> QED BY <1>1, <1>2, NextAligned, Invariance, PTL DEF Spec

(* If no request is larger than a chunk, AllocateVirtual goes back to the  *)
(* driver only when no free range is as large as a chunk: the recursion    *)
(* after ReserveChunk ends with the first new chunk.                       *)
THEOREM OneChunkIsEnough ==
  ASSUME \A size \in Sizes : AlignUp(size) <= kChunkSize
  PROVE  Spec => NoSpareChunk
<1> DEFINE Enough == chunks' # chunks =>
             \A i \in DOMAIN free_ranges_ :
               free_ranges_[i].end - free_ranges_[i].start < kChunkSize
<1>1. ASSUME TypeOK, [Next]_vars
      PROVE  Enough
  <2>1. CASE ReserveChunk
    <3>1. request \in Sizes /\ free_ranges_ \in Seq(FreeRange)
      BY <1>1, <2>1 DEF ReserveChunk, TypeOK
    <3>2. AlignUp(request) \in Nat /\ AlignUp(request) <= kChunkSize
      BY <3>1, SizesAssumption, AlignUpLemma
    <3>3. \A i \in DOMAIN free_ranges_ :
            ~(free_ranges_[i].end - free_ranges_[i].start >= AlignUp(request))
      BY <2>1 DEF ReserveChunk, NothingFits, Fits
    <3> QED BY <3>1, <3>2, <3>3, VectorType, ChunkAssumption
  <2>2. CASE ~ReserveChunk
    BY <1>1, <2>2 DEF Next, vars, CallAllocateVirtual, AllocateVirtual, Carve,
                      ReserveFails, FreeVirtual, Destroy
  <2> QED BY <2>1, <2>2
<1> QED BY <1>1, TypeCorrect, PTL DEF Spec, NoSpareChunk

=============================================================================
