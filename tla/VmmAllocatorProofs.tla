------------------------- MODULE VmmAllocatorProofs -------------------------
(***************************************************************************)
(* What every call of VmmAllocator keeps, whoever makes it: lemmas for the *)
(* modules that extend VmmAllocator with a client.                         *)
(***************************************************************************)
EXTENDS VmmAllocator, FiniteSetTheorems, TLAPS

-----------------------------------------------------------------------------
(* Sums of bytes.  SumFunctionOnSet is defined by recursion on the set; an *)
(* induction on finite sets is a set of subsets that has a minimal member. *)

LEMMA MinimalSubset ==
  ASSUME NEW S, IsFiniteSet(S), NEW Bad \in SUBSET SUBSET S, Bad # {}
  PROVE  \E T \in Bad : \A U \in Bad : U \subseteq T => U = T
<1>1. FiniteSubsetsOf(S) = SUBSET S
  BY FS_FiniteSubsetsOfFinite
<1>2. IsWellFoundedOn(StrictSubsetOrdering(S), SUBSET S)
  BY <1>1, FS_StrictSubsetOrderingWellFounded
<1>3. PICK T \in Bad : \A U \in Bad : ~ (<<U, T>> \in StrictSubsetOrdering(S))
  BY <1>2, WFMin, Zenon
<1>4. ASSUME NEW U \in Bad, U \subseteq T PROVE U = T
  <2>1. <<U, T>> \in (SUBSET S) \X (SUBSET S)
    BY <1>3
  <2> QED BY <1>3, <1>4, <2>1 DEF StrictSubsetOrdering
<1> QED BY <1>3, <1>4

Pick(s) == CHOOSE x \in s : TRUE

(* The recursive function of MapThenFoldSet.                               *)
Adds(f, S, g) ==
  g = [s \in SUBSET S |-> IF s = {} THEN 0 ELSE f[Pick(s)] + g[s \ {Pick(s)}]]

LEMMA SumIsChosen ==
  ASSUME NEW f, NEW S
  PROVE  SumFunctionOnSet(f, S) = (CHOOSE g : Adds(f, S, g))[S]
  BY DEF SumFunctionOnSet, FoldFunctionOnSet, MapThenFoldSet, Pick, Adds

Unfolded(f, s) ==
  IF s = {} THEN 0 ELSE f[Pick(s)] + SumFunctionOnSet(f, s \ {Pick(s)})

LEMMA AddsDetermined ==
  ASSUME NEW f, NEW S, IsFiniteSet(S), NEW g, NEW h, Adds(f, S, g), Adds(f, S, h)
  PROVE  \A s \in SUBSET S : g[s] = h[s]
<1> DEFINE Bad == {s \in SUBSET S : g[s] # h[s]}
<1> SUFFICES ASSUME Bad # {} PROVE FALSE
  OBVIOUS
<1>1. PICK T \in Bad : \A U \in Bad : U \subseteq T => U = T
  <2>1. Bad \in SUBSET SUBSET S /\ Bad # {}
    OBVIOUS
  <2> HIDE DEF Bad
  <2> QED BY <2>1, MinimalSubset
<1>2. \A s \in SUBSET S :
        /\ g[s] = IF s = {} THEN 0 ELSE f[Pick(s)] + g[s \ {Pick(s)}]
        /\ h[s] = IF s = {} THEN 0 ELSE f[Pick(s)] + h[s \ {Pick(s)}]
  BY DEF Adds
<1>3. CASE T = {}
  BY <1>1, <1>2, <1>3
<1>4. CASE T # {}
  <2>1. Pick(T) \in T
    BY <1>4 DEF Pick
  <2>2. T \ {Pick(T)} \in SUBSET S /\ T \ {Pick(T)} \notin Bad
    BY <1>1, <2>1
  <2>3. g[T \ {Pick(T)}] = h[T \ {Pick(T)}]
    BY <2>2
  <2> QED BY <1>1, <1>2, <1>4, <2>3
<1> QED BY <1>3, <1>4

LEMMA SumUnfolds ==
  ASSUME NEW f, NEW S, IsFiniteSet(S)
  PROVE  SumFunctionOnSet(f, S) = Unfolded(f, S)
<1> DEFINE Bad == {s \in SUBSET S : SumFunctionOnSet(f, s) # Unfolded(f, s)}
<1> SUFFICES ASSUME Bad # {} PROVE FALSE
  OBVIOUS
<1>1. PICK T \in Bad : \A U \in Bad : U \subseteq T => U = T
  <2>1. Bad \in SUBSET SUBSET S /\ Bad # {}
    OBVIOUS
  <2> HIDE DEF Bad
  <2> QED BY <2>1, MinimalSubset
<1>2. \A s \in SUBSET T : s # T => SumFunctionOnSet(f, s) = Unfolded(f, s)
  BY <1>1
<1> DEFINE h == [s \in SUBSET T |-> IF s = T THEN Unfolded(f, T) ELSE SumFunctionOnSet(f, s)]
<1>3. \A s \in SUBSET T : h[s] = Unfolded(f, s)
  BY <1>2
<1>4. \A s \in SUBSET T : s # {} => s \ {Pick(s)} \in SUBSET T /\ s \ {Pick(s)} # T
  BY DEF Pick
<1>5. \A s \in SUBSET T : s # {} => h[s \ {Pick(s)}] = SumFunctionOnSet(f, s \ {Pick(s)})
  BY <1>4
<1>6. h = [s \in SUBSET T |-> h[s]]
  OBVIOUS
<1> HIDE DEF h
<1>7. h = [s \in SUBSET T |-> IF s = {} THEN 0 ELSE f[Pick(s)] + h[s \ {Pick(s)}]]
  BY <1>3, <1>5, <1>6 DEF Unfolded
<1>8. Adds(f, T, h)
  BY <1>7 DEF Adds
<1> DEFINE g == CHOOSE k : Adds(f, T, k)
<1>9. Adds(f, T, g)
  BY <1>8
<1>10. IsFiniteSet(T)
  BY <1>1, FS_Subset
<1> HIDE DEF g
<1>11. g[T] = h[T]
  BY <1>8, <1>9, <1>10, AddsDetermined
<1>12. SumFunctionOnSet(f, T) = g[T]
  BY SumIsChosen DEF g
<1> QED BY <1>1, <1>3, <1>11, <1>12

LEMMA SumEmpty == ASSUME NEW f PROVE SumFunctionOnSet(f, {}) = 0
  BY SumUnfolds, FS_EmptySet DEF Unfolded

Weighs(f, S) == \A x \in S : f[x] \in Nat

LEMMA SumNat ==
  ASSUME NEW f, NEW S, IsFiniteSet(S), Weighs(f, S)
  PROVE  SumFunctionOnSet(f, S) \in Nat
<1> DEFINE Bad == {s \in SUBSET S : SumFunctionOnSet(f, s) \notin Nat}
<1> SUFFICES ASSUME Bad # {} PROVE FALSE
  OBVIOUS
<1>1. PICK T \in Bad : \A U \in Bad : U \subseteq T => U = T
  <2>1. Bad \in SUBSET SUBSET S /\ Bad # {}
    OBVIOUS
  <2> HIDE DEF Bad
  <2> QED BY <2>1, MinimalSubset
<1>2. IsFiniteSet(T)
  BY <1>1, FS_Subset
<1>3. T # {}
  <2>1. SumFunctionOnSet(f, T) \notin Nat
    BY <1>1
  <2> QED BY <2>1, SumEmpty
<1>4. Pick(T) \in T /\ T \ {Pick(T)} \in SUBSET S
  BY <1>1, <1>3 DEF Pick
<1>5. SumFunctionOnSet(f, T \ {Pick(T)}) \in Nat
  BY <1>1, <1>4
<1>6. f[Pick(T)] \in Nat
  BY <1>4 DEF Weighs
<1>7. SumFunctionOnSet(f, T) = f[Pick(T)] + SumFunctionOnSet(f, T \ {Pick(T)})
  BY <1>2, <1>3, SumUnfolds DEF Unfolded
<1> QED BY <1>1, <1>5, <1>6, <1>7

(* The order in which the elements are taken does not matter.              *)
LEMMA SumTakes ==
  ASSUME NEW f, NEW S, IsFiniteSet(S), Weighs(f, S), NEW x \in S
  PROVE  SumFunctionOnSet(f, S) = f[x] + SumFunctionOnSet(f, S \ {x})
<1> DEFINE Sum(s) == SumFunctionOnSet(f, s)
           Takes(s) == \A y \in s : Sum(s) = f[y] + Sum(s \ {y})
           Bad == {s \in SUBSET S : ~Takes(s)}
<1> HIDE DEF Sum
<1> SUFFICES ASSUME Bad # {} PROVE FALSE
  <2>1. S \in SUBSET S
    OBVIOUS
  <2>2. Takes(S) => SumFunctionOnSet(f, S) = f[x] + SumFunctionOnSet(f, S \ {x})
    BY DEF Sum
  <2> QED BY <2>1, <2>2
<1>1. PICK T \in Bad : \A U \in Bad : U \subseteq T => U = T
  <2>1. Bad \in SUBSET SUBSET S /\ Bad # {}
    OBVIOUS
  <2> HIDE DEF Bad
  <2> QED BY <2>1, MinimalSubset
<1>2. PICK y \in T : Sum(T) # f[y] + Sum(T \ {y})
  BY <1>1
<1>3. \A s \in SUBSET T : s # T => Takes(s)
  BY <1>1
<1> DEFINE z == Pick(T)
<1>4. z \in T
  BY <1>2 DEF Pick
<1> HIDE DEF z
<1>5. Sum(T) = f[z] + Sum(T \ {z})
  <2>1. IsFiniteSet(T)
    BY <1>1, FS_Subset
  <2> QED BY <2>1, <1>2, SumUnfolds DEF Unfolded, Sum, z
<1>6. y # z
  BY <1>2, <1>5
<1>7. Sum(T \ {z}) = f[y] + Sum((T \ {z}) \ {y})
  BY <1>2, <1>3, <1>4, <1>6
<1>8. Sum(T \ {y}) = f[z] + Sum((T \ {y}) \ {z})
  BY <1>2, <1>3, <1>4, <1>6
<1>9. (T \ {z}) \ {y} = (T \ {y}) \ {z}
  OBVIOUS
<1>10. f[y] \in Nat /\ f[z] \in Nat
  BY <1>1, <1>2, <1>4 DEF Weighs
<1>11. Sum((T \ {y}) \ {z}) \in Nat
  <2>1. (T \ {y}) \ {z} \subseteq S
    BY <1>1
  <2> QED BY <2>1, FS_Subset, SumNat DEF Weighs, Sum
<1>12. \A a, b, c \in Nat : a + (b + c) = b + (a + c)
  OBVIOUS
<1>13. f[z] + (f[y] + Sum((T \ {y}) \ {z})) = f[y] + (f[z] + Sum((T \ {y}) \ {z}))
  BY <1>10, <1>11, <1>12
<1>14. Sum(T) = f[z] + (f[y] + Sum((T \ {y}) \ {z}))
  BY <1>5, <1>7, <1>9, Zenon
<1>15. Sum(T) = f[y] + Sum(T \ {y})
  BY <1>8, <1>13, <1>14, Zenon
<1> QED BY <1>2, <1>15

LEMMA SumAdds ==
  ASSUME NEW f, NEW S, IsFiniteSet(S), NEW x, x \notin S, Weighs(f, S \cup {x})
  PROVE  SumFunctionOnSet(f, S \cup {x}) = f[x] + SumFunctionOnSet(f, S)
<1>1. IsFiniteSet(S \cup {x}) /\ (S \cup {x}) \ {x} = S
  BY FS_AddElement
<1> QED BY <1>1, SumTakes
LEMMA SumSame ==
  ASSUME NEW f, NEW g, NEW S, IsFiniteSet(S), \A x \in S : f[x] = g[x]
  PROVE  SumFunctionOnSet(f, S) = SumFunctionOnSet(g, S)
<1> DEFINE Bad == {s \in SUBSET S : SumFunctionOnSet(f, s) # SumFunctionOnSet(g, s)}
<1> SUFFICES ASSUME Bad # {} PROVE FALSE
  OBVIOUS
<1>1. PICK T \in Bad : \A U \in Bad : U \subseteq T => U = T
  <2>1. Bad \in SUBSET SUBSET S /\ Bad # {}
    OBVIOUS
  <2> HIDE DEF Bad
  <2> QED BY <2>1, MinimalSubset
<1>2. SumFunctionOnSet(f, T) = Unfolded(f, T) /\ SumFunctionOnSet(g, T) = Unfolded(g, T)
  <2>1. IsFiniteSet(T)
    BY <1>1, FS_Subset
  <2> QED BY <2>1, SumUnfolds
<1>3. CASE T = {}
  BY <1>1, <1>2, <1>3 DEF Unfolded
<1>4. CASE T # {}
  <2>1. Pick(T) \in T /\ T \ {Pick(T)} \in SUBSET S /\ T \ {Pick(T)} \notin Bad
    BY <1>1, <1>4 DEF Pick
  <2>2. SumFunctionOnSet(f, T \ {Pick(T)}) = SumFunctionOnSet(g, T \ {Pick(T)})
    BY <2>1
  <2>3. f[Pick(T)] = g[Pick(T)]
    BY <1>1, <2>1
  <2> QED BY <1>1, <1>2, <1>4, <2>2, <2>3 DEF Unfolded
<1> QED BY <1>3, <1>4

(* f's elements have places of their own in T, where g weighs no less.     *)
LEMMA SumAtMost ==
  ASSUME NEW f, NEW S, IsFiniteSet(S), Weighs(f, S),
         NEW g, NEW T, IsFiniteSet(T), Weighs(g, T),
         NEW at, \A x \in S : at[x] \in T /\ f[x] <= g[at[x]],
         \A x, y \in S : at[x] = at[y] => x = y
  PROVE  SumFunctionOnSet(f, S) <= SumFunctionOnSet(g, T)
<1> DEFINE F(s) == SumFunctionOnSet(f, s)
           G(t) == SumFunctionOnSet(g, t)
           Fits(s) == \A t \in SUBSET T : {at[x] : x \in s} \subseteq t => F(s) <= G(t)
           Bad == {s \in SUBSET S : ~Fits(s)}
<1>a. \A s \in SUBSET S : IsFiniteSet(s) /\ F(s) \in Nat
  BY FS_Subset, SumNat DEF Weighs
<1>b. \A t \in SUBSET T : IsFiniteSet(t) /\ G(t) \in Nat
  BY FS_Subset, SumNat DEF Weighs
<1>c. ASSUME NEW s \in SUBSET S, NEW x \in s PROVE F(s) = f[x] + F(s \ {x})
  <2>1. IsFiniteSet(s) /\ Weighs(f, s)
    BY <1>a DEF Weighs
  <2> QED BY <2>1, SumTakes
<1>d. ASSUME NEW t \in SUBSET T, NEW x \in t PROVE G(t) = g[x] + G(t \ {x})
  <2>1. IsFiniteSet(t) /\ Weighs(g, t)
    BY <1>b DEF Weighs
  <2> QED BY <2>1, SumTakes
<1>e. F({}) = 0
  BY SumEmpty
<1> HIDE DEF F, G
<1> SUFFICES ASSUME Bad # {} PROVE FALSE
  <2>1. S \in SUBSET S /\ T \in SUBSET T /\ {at[x] : x \in S} \subseteq T
    OBVIOUS
  <2>2. Fits(S) => F(S) <= G(T)
    BY <2>1
  <2> QED BY <2>1, <2>2 DEF F, G
<1>1. PICK B \in Bad : \A U \in Bad : U \subseteq B => U = B
  <2>1. Bad \in SUBSET SUBSET S /\ Bad # {}
    OBVIOUS
  <2> HIDE DEF Bad
  <2> QED BY <2>1, MinimalSubset
<1>2. PICK t \in SUBSET T : {at[x] : x \in B} \subseteq t /\ ~(F(B) <= G(t))
  BY <1>1
<1>3. B # {}
  BY <1>2, <1>b, <1>e
<1>4. PICK x \in B : TRUE
  BY <1>3
<1>5. at[x] \in t /\ B \in SUBSET S /\ B \ {x} \in SUBSET S /\ B \ {x} # B
  BY <1>1, <1>2
<1>6. Fits(B \ {x})
  BY <1>1, <1>5
<1>7. {at[y] : y \in B \ {x}} \subseteq t \ {at[x]} /\ t \ {at[x]} \in SUBSET T
  BY <1>1, <1>2
<1>8. F(B \ {x}) <= G(t \ {at[x]})
  BY <1>6, <1>7
<1>9. F(B) = f[x] + F(B \ {x}) /\ G(t) = g[at[x]] + G(t \ {at[x]})
  BY <1>c, <1>d, <1>4, <1>5
<1>10. f[x] \in Nat /\ g[at[x]] \in Nat /\ f[x] <= g[at[x]]
  BY <1>1 DEF Weighs
<1>11. F(B \ {x}) \in Nat /\ G(t \ {at[x]}) \in Nat
  BY <1>a, <1>b, <1>5, <1>7
<1> QED BY <1>2, <1>8, <1>9, <1>10, <1>11

LEMMA SumSplits ==
  ASSUME NEW f, NEW S, IsFiniteSet(S), NEW R, IsFiniteSet(R), S \cap R = {},
         Weighs(f, S \cup R)
  PROVE  SumFunctionOnSet(f, S \cup R) = SumFunctionOnSet(f, S) + SumFunctionOnSet(f, R)
<1> DEFINE F(s) == SumFunctionOnSet(f, s)
           Bad == {s \in SUBSET S : F(s \cup R) # F(s) + F(R)}
<1>a. \A s \in SUBSET S : IsFiniteSet(s) /\ F(s) \in Nat
  BY FS_Subset, SumNat DEF Weighs
<1>b. \A s \in SUBSET S : IsFiniteSet(s \cup R)
  BY <1>a, FS_Union
<1>c. ASSUME NEW s \in SUBSET S, NEW x \in s PROVE F(s) = f[x] + F(s \ {x})
  <2>1. IsFiniteSet(s) /\ Weighs(f, s)
    BY <1>a DEF Weighs
  <2> QED BY <2>1, SumTakes
<1>d. ASSUME NEW s \in SUBSET S, NEW x \in s
      PROVE  F(s \cup R) = f[x] + F((s \cup R) \ {x})
  <2>1. IsFiniteSet(s \cup R) /\ Weighs(f, s \cup R)
    BY <1>b DEF Weighs
  <2> QED BY <2>1, SumTakes
<1>e. F({}) = 0 /\ F(R) \in Nat
  BY SumEmpty, SumNat DEF Weighs
<1> HIDE DEF F
<1> SUFFICES ASSUME Bad # {} PROVE FALSE
  <2>1. S \in SUBSET S
    OBVIOUS
  <2> QED BY <2>1 DEF F
<1>1. PICK B \in Bad : \A U \in Bad : U \subseteq B => U = B
  <2>1. Bad \in SUBSET SUBSET S /\ Bad # {}
    OBVIOUS
  <2> HIDE DEF Bad
  <2> QED BY <2>1, MinimalSubset
<1>2. B # {}
  <2>1. ASSUME B = {} PROVE FALSE
    <3>1. B \cup R = R
      BY <2>1
    <3> QED BY <1>1, <1>e, <2>1, <3>1
  <2> QED BY <2>1
<1>3. PICK x \in B : TRUE
  BY <1>2
<1>4. B \ {x} \in SUBSET S /\ F((B \ {x}) \cup R) = F(B \ {x}) + F(R)
  BY <1>1, <1>3
<1>5. (B \cup R) \ {x} = (B \ {x}) \cup R
  BY <1>1, <1>3
<1>6. f[x] \in Nat /\ F(B \ {x}) \in Nat
  BY <1>1, <1>a, <1>4 DEF Weighs
<1>7. F(B) = f[x] + F(B \ {x}) /\ F(B \cup R) = f[x] + F((B \cup R) \ {x})
  BY <1>1, <1>c, <1>d
<1>8. F(B \cup R) # F(B) + F(R)
  BY <1>1
<1>9. F(B \cup R) = f[x] + (F(B \ {x}) + F(R))
  BY <1>4, <1>5, <1>7
<1>10. f[x] + (F(B \ {x}) + F(R)) = (f[x] + F(B \ {x})) + F(R)
  BY <1>6, <1>e
<1> QED BY <1>7, <1>8, <1>9, <1>10
(* Intervals of f[p] addresses from p on that do not overlap have no more  *)
(* addresses than there are.                                               *)
LEMMA SumApart ==
  ASSUME NEW f, NEW S, IsFiniteSet(S), Weighs(f, S), NEW n \in Nat,
         \A p \in S : p \in Nat /\ p + f[p] <= n,
         \A p, q \in S : p # q => p + f[p] <= q \/ q + f[q] <= p
  PROVE  SumFunctionOnSet(f, S) <= n
<1> DEFINE All == 0 .. n - 1
           In(p) == p .. p + f[p] - 1
           U(s) == {a \in All : \E p \in s : a \in In(p)}
           Bad == {s \in SUBSET S : SumFunctionOnSet(f, s) # Cardinality(U(s))}
<1>1. IsFiniteSet(All) /\ Cardinality(All) = n
  BY FS_Interval
<1>2. \A s \in SUBSET S : /\ IsFiniteSet(U(s)) /\ Cardinality(U(s)) \in Nat
                          /\ Cardinality(U(s)) <= n
  <2>1. \A s \in SUBSET S : U(s) \in SUBSET All
    OBVIOUS
  <2> HIDE DEF U, All
  <2> QED BY <1>1, <2>1, FS_Subset, FS_CardinalityType
<1>3. ASSUME Bad # {} PROVE FALSE
  <2>1. PICK B \in Bad : \A V \in Bad : V \subseteq B => V = B
    <3> HIDE DEF U
    <3>1. Bad \in SUBSET SUBSET S /\ Bad # {}
      BY <1>3
    <3> HIDE DEF Bad
    <3> QED BY <3>1, MinimalSubset
  <2>2. B # {}
    <3>1. ASSUME B = {} PROVE FALSE
      <4>1. U(B) = {}
        BY <3>1
      <4>2. SumFunctionOnSet(f, B) # Cardinality(U(B))
        BY <2>1
      <4> QED BY <3>1, <4>1, <4>2, SumEmpty, FS_EmptySet
    <3> QED BY <3>1
  <2>3. PICK x \in B : TRUE
    BY <2>2
  <2> DEFINE C == B \ {x}
  <2>4. C \in SUBSET S /\ C # B /\ B \in SUBSET S /\ x \in S
    BY <2>1
  <2>5. SumFunctionOnSet(f, C) = Cardinality(U(C))
    BY <2>1, <2>4
  <2>6. SumFunctionOnSet(f, B) = f[x] + SumFunctionOnSet(f, C)
    <3>1. IsFiniteSet(B) /\ Weighs(f, B)
      BY <2>4, FS_Subset DEF Weighs
    <3> QED BY <3>1, SumTakes
  <2>7. f[x] \in Nat /\ x \in Nat /\ x + f[x] <= n
    BY <2>4 DEF Weighs
  <2>8. IsFiniteSet(In(x)) /\ Cardinality(In(x)) = f[x]
    <3> DEFINE e == x + f[x] - 1
    <3>1. e \in Int /\ (IF x > e THEN 0 ELSE e - x + 1) = f[x]
      BY <2>7
    <3> HIDE DEF e
    <3>2. x \in Int
      BY <2>7
    <3>3. /\ IsFiniteSet(x .. e)
          /\ Cardinality(x .. e) = IF x > e THEN 0 ELSE e - x + 1
      BY <3>1, <3>2, FS_Interval, Zenon
    <3> QED BY <3>1, <3>3, Zenon DEF e
  <2>9. U(B) = U(C) \cup In(x)
    <3>1. In(x) \subseteq All
      BY <2>7
    <3>2. \A a : (\E p \in B : a \in In(p)) <=> (\E p \in C : a \in In(p)) \/ a \in In(x)
      OBVIOUS
    <3> HIDE DEF In, All
    <3> QED BY <3>1, <3>2
  <2>10. U(C) \cap In(x) = {}
    <3>1. ASSUME NEW p \in C, NEW a \in In(p), a \in In(x) PROVE FALSE
      <4>1. p \in S /\ p # x /\ p \in Nat /\ f[p] \in Nat
        BY <2>4 DEF Weighs
      <4>2. p + f[p] <= x \/ x + f[x] <= p
        BY <2>4, <4>1
      <4> QED BY <2>7, <3>1, <4>1, <4>2
    <3> QED BY <3>1
  <2>11. Cardinality(U(B)) = Cardinality(U(C)) + f[x]
    <3>1. IsFiniteSet(U(C)) /\ Cardinality(U(C)) \in Nat
      BY <1>2, <2>4
    <3> HIDE DEF U, In, C
    <3>2. Cardinality(U(C) \cup In(x))
            = Cardinality(U(C)) + Cardinality(In(x)) - Cardinality(U(C) \cap In(x))
      BY <2>8, <3>1, FS_Union
    <3> QED BY <2>7, <2>8, <2>9, <2>10, <3>1, <3>2, FS_EmptySet
  <2>12. Cardinality(U(C)) \in Nat /\ SumFunctionOnSet(f, B) # Cardinality(U(B))
    BY <1>2, <2>1, <2>4
  <2> HIDE DEF U, C
  <2> QED BY <2>5, <2>6, <2>7, <2>11, <2>12
<1>4. SumFunctionOnSet(f, S) = Cardinality(U(S)) /\ S \in SUBSET S
  BY <1>3
<1> HIDE DEF U
<1> QED BY <1>2, <1>4

-----------------------------------------------------------------------------
(* The driver.                                                             *)

IsGpu(g) == g \in [mem : {g.mem}, maps : {g.maps}, linear : {g.linear}]
IsMemory(m) == m \in [open : BOOLEAN, size : Nat, data : {m.data}]
IsBuffer(b) == b \in [size : Nat, data : {b.data}]
IsMapping(m) == m \in [handle : Handles, size : Nat, access : BOOLEAN]

(* Every mapping is of memory there is, and of no more than there is.      *)
WellFormed(g) ==
  /\ IsGpu(g)
  /\ DOMAIN g.mem \subseteq Handles
  /\ \A h \in DOMAIN g.mem : IsMemory(g.mem[h])
  /\ \A p \in DOMAIN g.linear : IsBuffer(g.linear[p])
  /\ \A va \in DOMAIN g.maps :
       /\ IsMapping(g.maps[va])
       /\ g.maps[va].handle \in DOMAIN g.mem
       /\ g.maps[va].size <= g.mem[g.maps[va].handle].size

LEMMA GpuExcept ==
  ASSUME NEW g, IsGpu(g), NEW x
  PROVE  /\ [g EXCEPT !.mem = x] = [mem |-> x, maps |-> g.maps, linear |-> g.linear]
         /\ [g EXCEPT !.maps = x] = [mem |-> g.mem, maps |-> x, linear |-> g.linear]
         /\ [g EXCEPT !.linear = x] = [mem |-> g.mem, maps |-> g.maps, linear |-> x]
  BY DEF IsGpu

(* Handles keep their size and contents, or are gone.                      *)
Kept(g, r) ==
  /\ DOMAIN r.mem \subseteq DOMAIN g.mem
  /\ \A h \in DOMAIN r.mem :
       r.mem[h].size = g.mem[h].size /\ r.mem[h].data = g.mem[h].data

LEMMA ReapFacts ==
  ASSUME NEW g, WellFormed(g)
  PROVE  LET r == Reap(g)
         IN /\ WellFormed(r)
            /\ r.maps = g.maps /\ r.linear = g.linear
            /\ DOMAIN r.mem = {h \in DOMAIN g.mem : g.mem[h].open \/ Mapped(g, h)}
            /\ \A h \in DOMAIN r.mem : r.mem[h] = g.mem[h]
<1> DEFINE Lives == {h \in DOMAIN g.mem : g.mem[h].open \/ Mapped(g, h)}
           m == [h \in Lives |-> g.mem[h]]
<1>1. RestrictDomain(g.mem, LAMBDA h : g.mem[h].open \/ Mapped(g, h)) = m
  BY DEF RestrictDomain, Restrict
<1>2. Reap(g) = [g EXCEPT !.mem = m]
  BY <1>1 DEF Reap
<1>3. DOMAIN m = Lives /\ \A h \in Lives : m[h] = g.mem[h]
  OBVIOUS
<1>4. \A va \in DOMAIN g.maps : g.maps[va].handle \in Lives
  BY DEF WellFormed, Mapped
<1> DEFINE r == [mem |-> m, maps |-> g.maps, linear |-> g.linear]
<1> HIDE DEF m
<1>5. Reap(g) = r
  BY <1>2, GpuExcept DEF WellFormed
<1>6. r.mem = m /\ r.maps = g.maps /\ r.linear = g.linear /\ IsGpu(r)
  BY DEF IsGpu
<1>7. WellFormed(r)
  <2> HIDE DEF r
  <2> QED BY <1>3, <1>4, <1>6 DEF WellFormed
<1> QED BY <1>3, <1>5, <1>6, <1>7

LEMMA UnmapFacts ==
  ASSUME NEW g, WellFormed(g), NEW va, NEW n
  PROVE  LET r == CuMemUnmap(g, va, n)
         IN /\ WellFormed(r) /\ Kept(g, r) /\ r.linear = g.linear
            /\ \A x \in DOMAIN r.mem : r.mem[x] = g.mem[x]
            /\ DOMAIN r.maps = {x \in DOMAIN g.maps : ~(x = va /\ g.maps[va].size = n)}
            /\ \A x \in DOMAIN r.maps : r.maps[x] = g.maps[x]
<1>1. CASE va \in DOMAIN g.maps /\ g.maps[va].size = n
  <2> DEFINE m == [x \in DOMAIN g.maps \ {va} |-> g.maps[x]]
             k == [mem |-> g.mem, maps |-> m, linear |-> g.linear]
  <2>1. Restrict(g.maps, DOMAIN g.maps \ {va}) = m
    BY DEF Restrict
  <2>2. DOMAIN m = DOMAIN g.maps \ {va} /\ \A x \in DOMAIN m : m[x] = g.maps[x]
    OBVIOUS
  <2>3. CuMemUnmap(g, va, n) = Reap([g EXCEPT !.maps = m])
    BY <1>1, <2>1 DEF CuMemUnmap
  <2> HIDE DEF m
  <2>4. [g EXCEPT !.maps = m] = k
    BY GpuExcept DEF WellFormed
  <2>5. k.mem = g.mem /\ k.maps = m /\ k.linear = g.linear /\ IsGpu(k)
    BY DEF IsGpu
  <2> HIDE DEF k
  <2>6. WellFormed(k)
    BY <2>2, <2>5 DEF WellFormed
  <2> QED BY <1>1, <2>2, <2>3, <2>4, <2>5, <2>6, ReapFacts DEF Kept
<1>2. CASE ~(va \in DOMAIN g.maps /\ g.maps[va].size = n)
  <2>1. CuMemUnmap(g, va, n) = g
    BY <1>2 DEF CuMemUnmap
  <2> QED BY <1>2, <2>1 DEF Kept
<1> QED BY <1>1, <1>2

LEMMA ReleaseFacts ==
  ASSUME NEW g, WellFormed(g), NEW h
  PROVE  LET r == CuMemRelease(g, h)
         IN /\ WellFormed(r) /\ Kept(g, r)
            /\ r.maps = g.maps /\ r.linear = g.linear
            /\ \A x \in DOMAIN r.mem : x # h => r.mem[x] = g.mem[x]
            /\ h \in DOMAIN r.mem => ~r.mem[h].open
<1>1. CASE h \in DOMAIN g.mem
  <2> DEFINE m == [g.mem EXCEPT ![h].open = FALSE]
             k == [mem |-> m, maps |-> g.maps, linear |-> g.linear]
  <2>1. CuMemRelease(g, h) = Reap([g EXCEPT !.mem = m])
    BY <1>1 DEF CuMemRelease
  <2>2. /\ DOMAIN m = DOMAIN g.mem
        /\ \A x \in DOMAIN m : x # h => m[x] = g.mem[x]
        /\ IsMemory(m[h]) /\ ~m[h].open
        /\ m[h].size = g.mem[h].size /\ m[h].data = g.mem[h].data
    <3>1. ASSUME NEW c, IsMemory(c), NEW o \in BOOLEAN, NEW d, d = [c EXCEPT !.open = o]
          PROVE  IsMemory(d) /\ d.open = o /\ d.size = c.size /\ d.data = c.data
      BY <3>1 DEF IsMemory
    <3>2. m[h] = [g.mem[h] EXCEPT !.open = FALSE] /\ IsMemory(g.mem[h])
      BY <1>1 DEF WellFormed
    <3>3. IsMemory(m[h]) /\ m[h].open = FALSE /\ m[h].size = g.mem[h].size
          /\ m[h].data = g.mem[h].data
      <4> HIDE DEF m
      <4>1. FALSE \in BOOLEAN
        OBVIOUS
      <4> QED BY <3>1, <3>2, <4>1, Zenon
    <3> QED BY <3>3
  <2> HIDE DEF m
  <2>3. [g EXCEPT !.mem = m] = k
    BY GpuExcept DEF WellFormed
  <2>4. k.mem = m /\ k.maps = g.maps /\ k.linear = g.linear /\ IsGpu(k)
    BY DEF IsGpu
  <2> HIDE DEF k
  <2>5. WellFormed(k)
    BY <2>2, <2>4 DEF WellFormed
  <2> QED BY <2>1, <2>2, <2>3, <2>4, <2>5, ReapFacts DEF Kept
<1>2. CASE h \notin DOMAIN g.mem
  BY <1>2 DEF CuMemRelease, Kept
<1> QED BY <1>1, <1>2

(* r is g with open memory of n bytes more.                                *)
HasCreated(g, r, h, n) ==
  /\ WellFormed(r)
  /\ r.maps = g.maps /\ r.linear = g.linear
  /\ h \in Handles \ DOMAIN g.mem
  /\ DOMAIN r.mem = DOMAIN g.mem \cup {h}
  /\ r.mem[h].open /\ r.mem[h].size = n /\ r.mem[h].data = Garbage
  /\ \A x \in DOMAIN g.mem : r.mem[x] = g.mem[x]

LEMMA CreateFacts ==
  ASSUME NEW g, WellFormed(g), NEW h \in FreshHandles(g), NEW n \in Nat
  PROVE  HasCreated(g, CuMemCreate(g, h, n), h, n)
<1> DEFINE c == [open |-> TRUE, size |-> n, data |-> Garbage]
           m == Put(g.mem, h, c)
           k == [mem |-> m, maps |-> g.maps, linear |-> g.linear]
<1>1. CuMemCreate(g, h, n) = [g EXCEPT !.mem = m]
  BY DEF CuMemCreate
<1>2. c.open /\ c.size = n /\ c.data = Garbage /\ IsMemory(c)
  BY DEF IsMemory
<1> HIDE DEF c
<1>3. /\ DOMAIN m = DOMAIN g.mem \cup {h} /\ m[h] = c
      /\ \A x \in DOMAIN g.mem : m[x] = g.mem[x]
  BY DEF Put, FreshHandles
<1> HIDE DEF m
<1>4. [g EXCEPT !.mem = m] = k
  BY GpuExcept DEF WellFormed
<1>5. k.mem = m /\ k.maps = g.maps /\ k.linear = g.linear /\ IsGpu(k)
  BY DEF IsGpu
<1> HIDE DEF k
<1>6. WellFormed(k)
  BY <1>2, <1>3, <1>5 DEF WellFormed, FreshHandles
<1>7. h \in Handles \ DOMAIN g.mem
  BY DEF FreshHandles
<1>8. HasCreated(g, k, h, n)
  BY <1>2, <1>3, <1>5, <1>6, <1>7 DEF HasCreated
<1> QED BY <1>1, <1>4, <1>8

(* r is g with memory of h mapped at va, with access or without.           *)
HasMapped(g, r, va, n, h, access) ==
  /\ WellFormed(r)
  /\ r.mem = g.mem /\ r.linear = g.linear
  /\ DOMAIN r.maps = DOMAIN g.maps \cup {va}
  /\ r.maps[va].handle = h /\ r.maps[va].size = n /\ r.maps[va].access = access
  /\ \A x \in DOMAIN g.maps : x # va => r.maps[x] = g.maps[x]

LEMMA MapFacts ==
  ASSUME NEW g, WellFormed(g), NEW va, NEW n \in Nat, NEW h, CanMap(g, va, n, h)
  PROVE  HasMapped(g, CuMemMap(g, va, n, h), va, n, h, FALSE)
<1> DEFINE c == [handle |-> h, size |-> n, access |-> FALSE]
           m == Put(g.maps, va, c)
           k == [mem |-> g.mem, maps |-> m, linear |-> g.linear]
<1>1. CuMemMap(g, va, n, h) = [g EXCEPT !.maps = m]
  BY DEF CuMemMap
<1>2. c.handle = h /\ c.size = n /\ c.access = FALSE /\ IsMapping(c)
  BY DEF IsMapping, CanMap, WellFormed
<1> HIDE DEF c
<1>3. /\ DOMAIN m = DOMAIN g.maps \cup {va} /\ m[va] = c
      /\ \A x \in DOMAIN g.maps : m[x] = g.maps[x]
  BY DEF Put, CanMap
<1> HIDE DEF m
<1>4. [g EXCEPT !.maps = m] = k
  BY GpuExcept DEF WellFormed
<1>5. k.mem = g.mem /\ k.maps = m /\ k.linear = g.linear /\ IsGpu(k)
  BY DEF IsGpu
<1> HIDE DEF k
<1>6. WellFormed(k)
  BY <1>2, <1>3, <1>5 DEF WellFormed, CanMap
<1>7. HasMapped(g, k, va, n, h, FALSE)
  BY <1>2, <1>3, <1>5, <1>6, Zenon DEF HasMapped
<1> QED BY <1>1, <1>4, <1>7

LEMMA SetAccessFacts ==
  ASSUME NEW g, NEW k, NEW va, NEW n, NEW h, HasMapped(g, k, va, n, h, FALSE)
  PROVE  HasMapped(g, CuMemSetAccess(k, va), va, n, h, TRUE)
<1> DEFINE m == [k.maps EXCEPT ![va].access = TRUE]
           r == [mem |-> k.mem, maps |-> m, linear |-> k.linear]
<1>1. /\ WellFormed(k) /\ k.mem = g.mem /\ k.linear = g.linear
      /\ DOMAIN k.maps = DOMAIN g.maps \cup {va}
      /\ k.maps[va].handle = h /\ k.maps[va].size = n
      /\ \A x \in DOMAIN g.maps : x # va => k.maps[x] = g.maps[x]
  BY DEF HasMapped
<1>2. CuMemSetAccess(k, va) = [k EXCEPT !.maps = m]
  BY DEF CuMemSetAccess
<1>3. m[va] = [k.maps[va] EXCEPT !.access = TRUE] /\ IsMapping(k.maps[va])
  BY <1>1 DEF WellFormed
<1>4. /\ DOMAIN m = DOMAIN k.maps
      /\ \A x \in DOMAIN m : x # va => m[x] = k.maps[x]
  OBVIOUS
<1> HIDE DEF m
<1>5. IsMapping(m[va]) /\ m[va].handle = h /\ m[va].size = n /\ m[va].access = TRUE
  <2>1. ASSUME NEW c, IsMapping(c), NEW a \in BOOLEAN, NEW d, d = [c EXCEPT !.access = a]
        PROVE  IsMapping(d) /\ d.access = a /\ d.handle = c.handle /\ d.size = c.size
    BY <2>1 DEF IsMapping
  <2>2. TRUE \in BOOLEAN
    OBVIOUS
  <2>3. /\ IsMapping(m[va]) /\ m[va].access = TRUE
        /\ m[va].handle = k.maps[va].handle /\ m[va].size = k.maps[va].size
    BY <1>3, <2>1, <2>2, Zenon
  <2> QED BY <1>1, <2>3
<1>6. [k EXCEPT !.maps = m] = r
  BY <1>1, GpuExcept DEF WellFormed
<1>7. r.mem = k.mem /\ r.maps = m /\ r.linear = k.linear /\ IsGpu(r)
  BY DEF IsGpu
<1> HIDE DEF r
<1>8. WellFormed(r)
  BY <1>1, <1>4, <1>5, <1>7 DEF WellFormed
<1>9. HasMapped(g, r, va, n, h, TRUE)
  BY <1>1, <1>4, <1>5, <1>7, <1>8, Zenon DEF HasMapped
<1> QED BY <1>2, <1>6, <1>9

LEMMA MapReadWriteFacts ==
  ASSUME NEW g, WellFormed(g), NEW va, NEW n \in Nat, NEW h, CanMap(g, va, n, h)
  PROVE  HasMapped(g, MapReadWrite(g, va, n, h), va, n, h, TRUE)
  BY MapFacts, SetAccessFacts DEF MapReadWrite

(* cuMemcpyHtoD and cuMemsetD8 change contents, and those of one handle or *)
(* of one buffer of cuMemAlloc only.                                       *)
LEMMA WriteFacts ==
  ASSUME NEW g, WellFormed(g), NEW ptr, NEW d
  PROVE  LET r == Write(g, ptr, d)
         IN /\ WellFormed(r) /\ r.maps = g.maps
            /\ DOMAIN r.mem = DOMAIN g.mem /\ DOMAIN r.linear = DOMAIN g.linear
            /\ \A h \in DOMAIN g.mem :
                 /\ r.mem[h].open = g.mem[h].open /\ r.mem[h].size = g.mem[h].size
                 /\ ~(Accessible(g, ptr) /\ g.maps[ptr].handle = h)
                      => r.mem[h] = g.mem[h]
            /\ \A p \in DOMAIN g.linear :
                 p # ptr \/ Accessible(g, ptr) => r.linear[p] = g.linear[p]
            /\ Accessible(g, ptr) => r.mem[g.maps[ptr].handle].data = d
<1>1. CASE Accessible(g, ptr)
  <2> DEFINE h == g.maps[ptr].handle
             m == [g.mem EXCEPT ![h].data = d]
             k == [mem |-> m, maps |-> g.maps, linear |-> g.linear]
  <2>1. Write(g, ptr, d) = [g EXCEPT !.mem = m]
    BY <1>1 DEF Write
  <2>2. h \in DOMAIN g.mem
    BY <1>1 DEF WellFormed, Accessible
  <2>3. /\ DOMAIN m = DOMAIN g.mem
        /\ \A x \in DOMAIN m : x # h => m[x] = g.mem[x]
        /\ IsMemory(m[h]) /\ m[h].open = g.mem[h].open /\ m[h].size = g.mem[h].size
        /\ m[h].data = d
    <3>1. m[h] = [g.mem[h] EXCEPT !.data = d] /\ IsMemory(g.mem[h])
      BY <2>2 DEF WellFormed
    <3>2. /\ IsMemory(m[h]) /\ m[h].open = g.mem[h].open /\ m[h].size = g.mem[h].size
          /\ m[h].data = d
      <4> HIDE DEF m, h
      <4> QED BY <3>1 DEF IsMemory
    <3> QED BY <3>2
  <2> HIDE DEF m
  <2>4. [g EXCEPT !.mem = m] = k
    BY GpuExcept DEF WellFormed
  <2>5. k.mem = m /\ k.maps = g.maps /\ k.linear = g.linear /\ IsGpu(k)
    BY DEF IsGpu
  <2> HIDE DEF k
  <2>6. WellFormed(k)
    BY <2>3, <2>5 DEF WellFormed
  <2> QED BY <1>1, <2>1, <2>3, <2>4, <2>5, <2>6
<1>2. CASE ~Accessible(g, ptr) /\ ptr \in DOMAIN g.linear
  <2> DEFINE m == [g.linear EXCEPT ![ptr].data = d]
             k == [mem |-> g.mem, maps |-> g.maps, linear |-> m]
  <2>1. Write(g, ptr, d) = [g EXCEPT !.linear = m]
    BY <1>2 DEF Write
  <2>2. /\ DOMAIN m = DOMAIN g.linear
        /\ \A x \in DOMAIN m : x # ptr => m[x] = g.linear[x]
        /\ IsBuffer(m[ptr])
    <3>1. m[ptr] = [g.linear[ptr] EXCEPT !.data = d] /\ IsBuffer(g.linear[ptr])
      BY <1>2 DEF WellFormed
    <3>2. IsBuffer(m[ptr])
      <4> HIDE DEF m
      <4> QED BY <3>1 DEF IsBuffer
    <3> QED BY <3>2
  <2> HIDE DEF m
  <2>3. [g EXCEPT !.linear = m] = k
    BY GpuExcept DEF WellFormed
  <2>4. k.mem = g.mem /\ k.maps = g.maps /\ k.linear = m /\ IsGpu(k)
    BY DEF IsGpu
  <2> HIDE DEF k
  <2>5. WellFormed(k)
    BY <2>2, <2>4 DEF WellFormed
  <2> QED BY <1>2, <2>1, <2>2, <2>3, <2>4, <2>5
<1>3. CASE ~Accessible(g, ptr) /\ ptr \notin DOMAIN g.linear
  BY <1>3 DEF Write
<1> QED BY <1>1, <1>2, <1>3

LEMMA LinearFacts ==
  ASSUME NEW g, WellFormed(g), NEW ptr, NEW n \in Nat
  PROVE  /\ LET r == CuMemAlloc(g, ptr, n)
            IN /\ WellFormed(r) /\ r.mem = g.mem /\ r.maps = g.maps
               /\ DOMAIN r.linear = DOMAIN g.linear \cup {ptr}
               /\ \A p \in DOMAIN g.linear : p # ptr => r.linear[p] = g.linear[p]
         /\ LET r == CuMemFree(g, ptr)
            IN /\ WellFormed(r) /\ r.mem = g.mem /\ r.maps = g.maps
               /\ DOMAIN r.linear = DOMAIN g.linear \ {ptr}
               /\ \A p \in DOMAIN r.linear : r.linear[p] = g.linear[p]
<1> DEFINE c == [size |-> n, data |-> Garbage]
           m == Put(g.linear, ptr, c)
           f == [x \in DOMAIN g.linear \ {ptr} |-> g.linear[x]]
<1>1. /\ CuMemAlloc(g, ptr, n) = [g EXCEPT !.linear = m]
      /\ CuMemFree(g, ptr) = [g EXCEPT !.linear = f]
  BY DEF CuMemAlloc, CuMemFree, Restrict
<1>2. IsBuffer(c)
  BY DEF IsBuffer
<1> HIDE DEF c
<1>3. /\ DOMAIN m = DOMAIN g.linear \cup {ptr} /\ m[ptr] = c
      /\ \A x \in DOMAIN g.linear : x # ptr => m[x] = g.linear[x]
  BY DEF Put
<1>4. DOMAIN f = DOMAIN g.linear \ {ptr} /\ \A x \in DOMAIN f : f[x] = g.linear[x]
  OBVIOUS
<1> HIDE DEF m, f
<1>5. ASSUME NEW l, \A p \in DOMAIN l : IsBuffer(l[p]),
             NEW r, r = [g EXCEPT !.linear = l]
      PROVE  WellFormed(r) /\ r.mem = g.mem /\ r.maps = g.maps /\ r.linear = l
  <2>1. r = [mem |-> g.mem, maps |-> g.maps, linear |-> l]
    BY <1>5, GpuExcept DEF WellFormed
  <2>2. r.mem = g.mem /\ r.maps = g.maps /\ r.linear = l /\ IsGpu(r)
    BY <2>1 DEF IsGpu
  <2> QED BY <1>5, <2>2 DEF WellFormed
<1>6. /\ \A p \in DOMAIN m : IsBuffer(m[p])
      /\ \A p \in DOMAIN f : IsBuffer(f[p])
  BY <1>2, <1>3, <1>4 DEF WellFormed
<1> QED BY <1>1, <1>3, <1>4, <1>5, <1>6

-----------------------------------------------------------------------------
(* The allocator.                                                          *)

(* "Round up to granularity" does not make a size smaller, and does not    *)
(* change one that is rounded.                                             *)
LEMMA AllocSizeFacts ==
  ASSUME NEW n \in Nat \ {0}
  PROVE  /\ AllocSize(n) \in Nat \ {0} /\ n <= AllocSize(n)
         /\ AllocSize(AllocSize(n)) = AllocSize(n)
<1> DEFINE k == (n + Granularity - 1) \div Granularity
<1>1. Granularity \in Nat \ {0}
  BY GranularityAssumption
<1>2. AllocSize(n) \in Nat /\ n <= AllocSize(n)
  BY <1>1 DEF AllocSize
<1>3. AllocSize(n) = k * Granularity /\ k \in Int
  BY <1>1 DEF AllocSize
<1> HIDE DEF k
<1>4. AllocSize(k * Granularity) = k * Granularity
  <2>1. (k * Granularity + (Granularity - 1)) \div Granularity = k
    BY <1>1, <1>3
  <2>2. k * Granularity + Granularity - 1 = k * Granularity + (Granularity - 1)
    BY <1>1, <1>3
  <2> QED BY <2>1, <2>2 DEF AllocSize
<1> QED BY <1>2, <1>3, <1>4

(* An entry of cuMemAlloc has no handle.                                   *)
EntriesInv ==
  \A p \in Ptrs : ~entries_[p].is_vmm => entries_[p].physical_handle = NoHandle

(* Only ranges that are handed out have anything mapped, and no range of   *)
(* an entry and no pointer of one can be handed out again.                 *)
RangesInv ==
  /\ DOMAIN gpu.maps \subseteq va_held
  /\ Vas \cap Ptrs \subseteq va_held
  /\ Linears \cap Ptrs \subseteq DOMAIN gpu.linear

(* What is mapped for an entry is its size, rounded: cuMemUnmap succeeds.  *)
SizesInv ==
  \A va \in DOMAIN gpu.maps \cap Ptrs : gpu.maps[va].size = AllocSize(entries_[va].size)

(* The inductive invariant.  That cuMemUnmap takes away what is mapped,    *)
(* and the range can be handed out again, follows from SizesInv.           *)
AInv == WellFormed(gpu) /\ TypeOK /\ RangesInv /\ EntriesInv /\ SizesInv

LEMMA EntryFacts ==
  ASSUME AInv, NEW p \in Ptrs
  PROVE  /\ entries_[p] \in Entry /\ entries_[p].size \in Sizes
         /\ entries_[p].size \in Nat \ {0} /\ AllocSize(entries_[p].size) \in Nat \ {0}
         /\ entries_[p].size <= AllocSize(entries_[p].size)
         /\ entries_[p].is_vmm \in BOOLEAN
         /\ entries_[p].is_vmm <=> p \in Vas
         /\ ~entries_[p].is_vmm <=> p \in Linears
         /\ entries_[p].physical_handle \in Handles \cup {NoHandle}
<1>1. entries_[p] \in Entry /\ (entries_[p].is_vmm <=> p \in Vas) /\ p \in Pointers
  BY DEF AInv, TypeOK
<1>2. entries_[p].size \in Sizes /\ entries_[p].size \in Nat \ {0}
  BY <1>1, SizesAssumption DEF Entry
<1> QED BY <1>1, <1>2, AllocSizeFacts, PointersAssumption DEF Entry, Pointers

(* The assignment of physical_handle.                                      *)
HasAssigned(e, p, h) ==
  /\ DOMAIN e = Ptrs
  /\ \A q \in Ptrs : /\ e[q] \in Entry
                     /\ e[q].size = entries_[q].size
                     /\ e[q].tag = entries_[q].tag
                     /\ e[q].is_vmm = entries_[q].is_vmm
                     /\ q # p => e[q] = entries_[q]
  /\ e[p].physical_handle = h

LEMMA AssignFacts ==
  ASSUME AInv, NEW p \in VmmPtrs, NEW h \in Handles \cup {NoHandle}
  PROVE  HasAssigned(Assign(p, h), p, h)
<1> DEFINE e == Assign(p, h)
<1>1. p \in Ptrs /\ entries_[p] \in Entry
  BY EntryFacts DEF VmmPtrs
<1>2. e[p] = [entries_[p] EXCEPT !.physical_handle = h] /\ DOMAIN e = Ptrs
  BY <1>1 DEF Assign, Ptrs
<1>3. \A q \in Ptrs : q # p => e[q] = entries_[q]
  BY DEF Assign, Ptrs
<1> HIDE DEF e
<1>4. /\ e[p] \in Entry /\ e[p].size = entries_[p].size /\ e[p].tag = entries_[p].tag
      /\ e[p].is_vmm = entries_[p].is_vmm /\ e[p].physical_handle = h
  BY <1>1, <1>2 DEF Entry
<1>5. \A q \in Ptrs : entries_[q] \in Entry
  BY EntryFacts
<1>6. HasAssigned(e, p, h)
  BY <1>2, <1>3, <1>4, <1>5 DEF HasAssigned
<1> QED BY <1>6 DEF e

(* cuMemUnmap and cuMemRelease for an entry: nothing is mapped there, and  *)
(* memory of the entry's handle is left only where another entry has it    *)
(* mapped.                                                                 *)
HasUnbacked(r, p) ==
  /\ WellFormed(r) /\ Kept(gpu, r) /\ r.linear = gpu.linear
  /\ DOMAIN r.maps = DOMAIN gpu.maps \ {p}
  /\ \A x \in DOMAIN r.maps : r.maps[x] = gpu.maps[x]
  /\ \A x \in DOMAIN r.mem :
       x # entries_[p].physical_handle => r.mem[x] = gpu.mem[x]
  /\ entries_[p].physical_handle \in DOMAIN r.mem
       => ~r.mem[entries_[p].physical_handle].open

LEMMA UnbackedFacts ==
  ASSUME AInv, NEW p \in VmmPtrs
  PROVE  HasUnbacked(Unbacked(p), p)
<1> DEFINE n == AllocSize(entries_[p].size)
           h == entries_[p].physical_handle
           u == CuMemUnmap(gpu, p, n)
           r == CuMemRelease(u, h)
<1>1. WellFormed(gpu) /\ (p \in DOMAIN gpu.maps => gpu.maps[p].size = n)
  BY DEF AInv, SizesInv, VmmPtrs
<1>2. Unbacked(p) = r
  BY DEF Unbacked
<1> HIDE DEF n, h
<1>3. /\ WellFormed(u) /\ Kept(gpu, u) /\ u.linear = gpu.linear
      /\ DOMAIN u.maps = DOMAIN gpu.maps \ {p}
      /\ \A x \in DOMAIN u.maps : u.maps[x] = gpu.maps[x]
      /\ \A x \in DOMAIN u.mem : u.mem[x] = gpu.mem[x]
  BY <1>1, UnmapFacts
<1> HIDE DEF u
<1>4. /\ WellFormed(r) /\ Kept(u, r) /\ r.maps = u.maps /\ r.linear = u.linear
      /\ \A x \in DOMAIN r.mem : x # h => r.mem[x] = u.mem[x]
      /\ h \in DOMAIN r.mem => ~r.mem[h].open
  BY <1>3, ReleaseFacts
<1> HIDE DEF r
<1>5. Kept(gpu, r)
  BY <1>3, <1>4 DEF Kept
<1>6. \A x \in DOMAIN r.mem : x # h => r.mem[x] = gpu.mem[x]
  BY <1>3, <1>4 DEF Kept
<1>7. HasUnbacked(r, p)
  BY <1>3, <1>4, <1>5, <1>6 DEF HasUnbacked, h
<1> QED BY <1>2, <1>7

LEMMA InitAInv == Init => AInv
<1> SUFFICES ASSUME Init PROVE AInv
  OBVIOUS
<1>1. gpu.mem = << >> /\ gpu.maps = << >> /\ gpu.linear = << >> /\ IsGpu(gpu)
  BY DEF Init, NoMemory, IsGpu
<1>2. DOMAIN << >> = {} /\ Ptrs = {}
  BY DEF Init, Ptrs
<1>3. TypeOK
  BY <1>1, <1>2, SizeModAssumption DEF Init, TypeOK
<1> QED BY <1>1, <1>2, <1>3 DEF AInv, WellFormed, RangesInv, EntriesInv, SizesInv, Init

LEMMA LiveBytesType ==
  ASSUME live_bytes \in 0 .. SizeMod - 1, NEW n \in Nat
  PROVE  Plus(n) \in 0 .. SizeMod - 1 /\ Minus(n) \in 0 .. SizeMod - 1
  BY SizeModAssumption DEF Plus, Minus

-----------------------------------------------------------------------------
(* Every call keeps AInv, for any client.                                  *)

(* What AllocateVmm makes of the GPU and the entries.                      *)
HasAllocated(bytes, tag, va, h) ==
  /\ va \in Vas /\ va \notin Ptrs /\ va \notin DOMAIN gpu.maps
  /\ h \in Handles \ DOMAIN gpu.mem
  /\ WellFormed(gpu')
  /\ gpu'.linear = gpu.linear
  /\ DOMAIN gpu'.mem = DOMAIN gpu.mem \cup {h}
  /\ gpu'.mem[h].open /\ gpu'.mem[h].data = Garbage
  /\ gpu'.mem[h].size = AllocSize(bytes)
  /\ \A x \in DOMAIN gpu.mem : gpu'.mem[x] = gpu.mem[x]
  /\ DOMAIN gpu'.maps = DOMAIN gpu.maps \cup {va}
  /\ gpu'.maps[va].handle = h /\ gpu'.maps[va].size = AllocSize(bytes)
  /\ gpu'.maps[va].access = TRUE
  /\ \A x \in DOMAIN gpu.maps : gpu'.maps[x] = gpu.maps[x]
  /\ DOMAIN entries_' = Ptrs \cup {va}
  /\ entries_'[va] = [size |-> bytes, tag |-> tag, is_vmm |-> TRUE,
                      physical_handle |-> h]
  /\ \A p \in Ptrs : entries_'[p] = entries_[p]

LEMMA AllocateVmmFacts ==
  ASSUME AInv, NEW bytes \in Sizes, NEW tag, NEW va, NEW h,
         AllocateVmm(bytes, tag, va, h)
  PROVE  HasAllocated(bytes, tag, va, h)
<1> DEFINE n == AllocSize(bytes)
           c == CuMemCreate(gpu, h, n)
           e == [size |-> bytes, tag |-> tag, is_vmm |-> TRUE, physical_handle |-> h]
<1>1. /\ va \in Vas \ va_held /\ h \in FreshHandles(gpu)
      /\ gpu' = MapReadWrite(c, va, n, h)
      /\ entries_' = Put(entries_, va, e)
  BY DEF AllocateVmm
<1>2. va \notin Ptrs /\ va \notin DOMAIN gpu.maps /\ WellFormed(gpu)
  BY <1>1 DEF AInv, RangesInv
<1>3. n \in Nat
  BY AllocSizeFacts, SizesAssumption
<1> HIDE DEF n, e
<1>4. HasCreated(gpu, c, h, n)
  BY <1>1, <1>2, <1>3, CreateFacts
<1> HIDE DEF c
<1>5. CanMap(c, va, n, h) /\ WellFormed(c)
  BY <1>2, <1>3, <1>4 DEF CanMap, HasCreated
<1>6. HasMapped(c, gpu', va, n, h, TRUE)
  BY <1>1, <1>3, <1>5, MapReadWriteFacts
<1>7. /\ DOMAIN entries_' = Ptrs \cup {va} /\ entries_'[va] = e
      /\ \A p \in Ptrs : entries_'[p] = entries_[p]
  BY <1>1, <1>2 DEF Put, Ptrs
<1>8. /\ h \in Handles \ DOMAIN gpu.mem /\ WellFormed(gpu') /\ gpu'.linear = gpu.linear
      /\ DOMAIN gpu'.mem = DOMAIN gpu.mem \cup {h}
      /\ gpu'.mem[h].open /\ gpu'.mem[h].data = Garbage /\ gpu'.mem[h].size = n
      /\ \A x \in DOMAIN gpu.mem : gpu'.mem[x] = gpu.mem[x]
      /\ DOMAIN gpu'.maps = DOMAIN gpu.maps \cup {va}
      /\ gpu'.maps[va].handle = h /\ gpu'.maps[va].size = n
      /\ gpu'.maps[va].access = TRUE
      /\ \A x \in DOMAIN gpu.maps : gpu'.maps[x] = gpu.maps[x]
  BY <1>2, <1>4, <1>6 DEF HasCreated, HasMapped
<1> QED BY <1>1, <1>2, <1>7, <1>8 DEF HasAllocated, n, e

LEMMA AllocateVmmAInv ==
  ASSUME AInv, NEW bytes \in Sizes, NEW tag \in Tags, NEW va, NEW h,
         AllocateVmm(bytes, tag, va, h)
  PROVE  AInv'
<1> DEFINE e == entries_'[va]
<1>1. TypeOK /\ RangesInv /\ EntriesInv /\ SizesInv
  BY DEF AInv
<1>2. HasAllocated(bytes, tag, va, h)
  BY AllocateVmmFacts
<1>3. e \in Entry /\ e.size = bytes /\ e.is_vmm
  BY <1>2 DEF HasAllocated, Entry
<1> HIDE DEF e
<1>4. va_held' = va_held \cup {va} /\ live_bytes' = Plus(bytes) /\ alive' = alive
  BY DEF AllocateVmm
<1>5. TypeOK'
  <2>1. live_bytes' \in 0 .. SizeMod - 1
    BY <1>1, <1>4, LiveBytesType, SizesAssumption DEF TypeOK
  <2>2. Ptrs' = Ptrs \cup {va}
    BY <1>2 DEF HasAllocated, Ptrs
  <2>3. \A p \in Ptrs' : entries_'[p] \in Entry /\ (entries_'[p].is_vmm <=> p \in Vas)
    BY <1>1, <1>2, <1>3, <2>2 DEF HasAllocated, TypeOK, e
  <2> QED BY <1>1, <1>2, <1>4, <2>1, <2>2, <2>3 DEF HasAllocated, TypeOK, WellFormed, Pointers
<1>6. RangesInv'
  BY <1>1, <1>2, <1>4, PointersAssumption DEF HasAllocated, RangesInv, Ptrs
<1>7. EntriesInv'
  BY <1>1, <1>2, <1>3 DEF HasAllocated, EntriesInv, Ptrs, e
<1>8. SizesInv'
  <2>1. Ptrs' = Ptrs \cup {va} /\ e.size = bytes /\ e = entries_'[va]
    BY <1>2, <1>3 DEF HasAllocated, Ptrs, e
  <2> QED BY <1>1, <1>2, <2>1 DEF HasAllocated, SizesInv
<1> QED BY <1>2, <1>5, <1>6, <1>7, <1>8 DEF AInv, HasAllocated

(* gpu' is gpu with new memory of n bytes, which may be mapped at va.      *)
HasGrown(va, n, h) ==
  /\ WellFormed(gpu') /\ gpu'.linear = gpu.linear
  /\ h \in Handles \ DOMAIN gpu.mem
  /\ DOMAIN gpu'.mem = DOMAIN gpu.mem \cup {h} /\ gpu'.mem[h].size = n
  /\ \A x \in DOMAIN gpu.mem : gpu'.mem[x] = gpu.mem[x]
  /\ DOMAIN gpu.maps \subseteq DOMAIN gpu'.maps
  /\ \A x \in DOMAIN gpu'.maps : x \notin DOMAIN gpu.maps
       => x = va /\ gpu'.maps[x].handle = h /\ gpu'.maps[x].size = n
  /\ \A x \in DOMAIN gpu.maps : gpu'.maps[x] = gpu.maps[x]

LEMMA CreatedGrows ==
  ASSUME NEW c, NEW va, NEW n, NEW h, HasCreated(gpu, c, h, n), gpu' = c
  PROVE  HasGrown(va, n, h)
  BY DEF HasCreated, HasGrown

LEMMA MappedGrows ==
  ASSUME NEW c, NEW va, va \notin DOMAIN gpu.maps, NEW n, NEW h, NEW access,
         HasCreated(gpu, c, h, n), HasMapped(c, gpu', va, n, h, access)
  PROVE  HasGrown(va, n, h)
  BY DEF HasCreated, HasMapped, HasGrown

(* AllocateVmm throws: at cuMemCreate, for lack of room, or behind it.     *)
LEMMA AllocateVmmThrowsFacts ==
  ASSUME AInv, NEW bytes \in Sizes, NEW va, AllocateVmmThrows(bytes, va)
  PROVE  /\ va \in Vas \ va_held /\ va_held' = va_held \cup {va}
         /\ UNCHANGED <<entries_, live_bytes, alive>>
         /\ AllocSize(bytes) \in Nat
         /\ IF Room(gpu, AllocSize(bytes)) THEN \E h : HasGrown(va, AllocSize(bytes), h)
                                           ELSE gpu' = gpu
<1> DEFINE n == AllocSize(bytes)
<1>1. /\ va \in Vas \ va_held /\ va_held' = va_held \cup {va}
      /\ UNCHANGED <<entries_, live_bytes, alive>>
      /\ ~Room(gpu, n) => gpu' = gpu
      /\ Room(gpu, n) => \E h \in FreshHandles(gpu) :
                           \/ gpu' = CuMemCreate(gpu, h, n)
                           \/ gpu' = CuMemMap(CuMemCreate(gpu, h, n), va, n, h)
  BY DEF AllocateVmmThrows
<1>2. n \in Nat
  BY AllocSizeFacts, SizesAssumption
<1>3. WellFormed(gpu) /\ va \notin DOMAIN gpu.maps
  BY <1>1 DEF AInv, RangesInv
<1> HIDE DEF n
<1>4. ASSUME Room(gpu, n) PROVE \E h : HasGrown(va, n, h)
  <2>1. PICK h \in FreshHandles(gpu) :
          \/ gpu' = CuMemCreate(gpu, h, n)
          \/ gpu' = CuMemMap(CuMemCreate(gpu, h, n), va, n, h)
    BY <1>1, <1>4
  <2> DEFINE c == CuMemCreate(gpu, h, n)
  <2>2. HasCreated(gpu, c, h, n)
    BY <1>2, <1>3, CreateFacts
  <2>3. gpu' = c \/ gpu' = CuMemMap(c, va, n, h)
    BY <2>1
  <2> HIDE DEF c
  <2>4. CASE gpu' = c
    BY <2>2, <2>4, CreatedGrows
  <2>5. CASE gpu' = CuMemMap(c, va, n, h)
    <3>1. CanMap(c, va, n, h) /\ WellFormed(c)
      BY <1>2, <1>3, <2>2 DEF CanMap, HasCreated
    <3>2. HasMapped(c, gpu', va, n, h, FALSE)
      BY <1>2, <2>5, <3>1, MapFacts
    <3> QED BY <1>3, <2>2, <3>2, MappedGrows
  <2> QED BY <2>3, <2>4, <2>5
<1> QED BY <1>1, <1>2, <1>4 DEF n

LEMMA AllocateVmmThrowsAInv ==
  ASSUME AInv, NEW bytes \in Sizes, NEW va, AllocateVmmThrows(bytes, va)
  PROVE  AInv'
<1>1. /\ va \in Vas \ va_held /\ va_held' = va_held \cup {va}
      /\ UNCHANGED <<entries_, live_bytes, alive>>
      /\ gpu' = gpu \/ \E h : HasGrown(va, AllocSize(bytes), h)
  BY AllocateVmmThrowsFacts
<1>2. TypeOK /\ RangesInv /\ EntriesInv /\ SizesInv /\ WellFormed(gpu) /\ Ptrs' = Ptrs
  BY <1>1 DEF AInv, Ptrs
<1>3. va \notin Ptrs
  BY <1>1, <1>2 DEF RangesInv
<1>4. /\ WellFormed(gpu') /\ gpu'.linear = gpu.linear
      /\ DOMAIN gpu'.maps \subseteq DOMAIN gpu.maps \cup {va}
      /\ \A x \in DOMAIN gpu'.maps : x # va => gpu'.maps[x] = gpu.maps[x]
  BY <1>1, <1>2 DEF HasGrown
<1>5. TypeOK'
  BY <1>1, <1>2, <1>4 DEF TypeOK, WellFormed
<1>6. RangesInv'
  BY <1>1, <1>2, <1>4 DEF RangesInv
<1>7. EntriesInv' /\ SizesInv'
  BY <1>1, <1>2, <1>3, <1>4 DEF EntriesInv, SizesInv
<1> QED BY <1>4, <1>5, <1>6, <1>7 DEF AInv

LEMMA AllocateFallbackAInv ==
  ASSUME AInv, NEW bytes \in Sizes, NEW ptr \in Linears, AllocateFallback(bytes, ptr)
  PROVE  AInv'
<1> DEFINE e == FallbackEntry(bytes)
<1>1. /\ WellFormed(gpu) /\ TypeOK /\ RangesInv /\ EntriesInv /\ SizesInv
      /\ bytes \in Nat /\ ptr \notin DOMAIN gpu.linear
      /\ gpu' = CuMemAlloc(gpu, ptr, bytes)
      /\ entries_' = Put(entries_, ptr, e)
      /\ live_bytes' = Plus(bytes) /\ UNCHANGED <<va_held, alive>>
  BY SizesAssumption DEF AInv, AllocateFallback
<1>2. e \in Entry /\ ~e.is_vmm /\ e.physical_handle = NoHandle
  BY DEF FallbackEntry, Entry
<1> HIDE DEF e
<1>3. /\ WellFormed(gpu') /\ gpu'.maps = gpu.maps
      /\ DOMAIN gpu'.linear = DOMAIN gpu.linear \cup {ptr}
  BY <1>1, LinearFacts
<1>4. /\ DOMAIN entries_' = Ptrs \cup {ptr} /\ entries_'[ptr] = e
      /\ \A p \in Ptrs : p # ptr => entries_'[p] = entries_[p]
  <2>1. ptr \notin Ptrs /\ DOMAIN entries_ = Ptrs
    BY <1>1, PointersAssumption DEF RangesInv, Ptrs
  <2> QED BY <1>1, <2>1 DEF Put
<1>5. ptr \notin Vas /\ ptr \notin Ptrs
  BY <1>1, PointersAssumption DEF RangesInv
<1>6. TypeOK'
  <2>1. live_bytes' \in 0 .. SizeMod - 1
    BY <1>1, LiveBytesType DEF TypeOK
  <2>2. Ptrs' = Ptrs \cup {ptr}
    BY <1>4 DEF Ptrs
  <2> QED BY <1>1, <1>2, <1>3, <1>4, <1>5, <2>1, <2>2 DEF TypeOK, WellFormed, Pointers
<1>7. RangesInv'
  BY <1>1, <1>3, <1>4, <1>5 DEF RangesInv, Ptrs
<1>8. EntriesInv' /\ SizesInv'
  <2>1. ptr \notin DOMAIN gpu.maps
    BY <1>1, <1>5 DEF RangesInv, TypeOK
  <2> QED BY <1>1, <1>2, <1>3, <1>4, <1>5, <2>1 DEF EntriesInv, SizesInv, Ptrs
<1> QED BY <1>3, <1>6, <1>7, <1>8 DEF AInv

LEMMA DeallocateAInv ==
  ASSUME AInv, NEW p \in Ptrs, Deallocate(p)
  PROVE  AInv'
<1>1. /\ TypeOK /\ RangesInv /\ EntriesInv /\ SizesInv /\ WellFormed(gpu)
      /\ entries_' = RestrictDomain(entries_, LAMBDA q : q # p)
      /\ live_bytes' = Minus(entries_[p].size) /\ alive' = alive
      /\ DeallocateVmm(p) \/ DeallocateFallback(p)
  BY DEF AInv, Deallocate
<1>2. DOMAIN entries_' = Ptrs \ {p} /\ \A q \in Ptrs : q # p => entries_'[q] = entries_[q]
  BY <1>1 DEF RestrictDomain, Restrict, Ptrs
<1>3. entries_[p].size \in Nat /\ (entries_[p].is_vmm <=> p \in Vas)
      /\ (~entries_[p].is_vmm <=> p \in Linears)
  BY EntryFacts
<1>4. /\ WellFormed(gpu')
      /\ DOMAIN gpu'.maps = DOMAIN gpu.maps \ {p}
      /\ \A x \in DOMAIN gpu'.maps : gpu'.maps[x] = gpu.maps[x]
      /\ DOMAIN gpu.linear \ {p} \subseteq DOMAIN gpu'.linear
      /\ va_held' = va_held \ {p}
  <2>1. CASE DeallocateVmm(p)
    <3>1. p \in VmmPtrs /\ gpu' = Unbacked(p) /\ va_held' = va_held \ {p} /\ p \in Vas
      BY <1>3, <2>1 DEF DeallocateVmm, VmmPtrs
    <3>2. HasUnbacked(gpu', p)
      BY <3>1, UnbackedFacts
    <3> QED BY <3>1, <3>2 DEF HasUnbacked
  <2>2. CASE DeallocateFallback(p)
    <3>1. gpu' = CuMemFree(gpu, p) /\ va_held' = va_held /\ p \notin Vas
      BY <1>3, <2>2 DEF DeallocateFallback
    <3>2. /\ WellFormed(gpu') /\ gpu'.maps = gpu.maps
          /\ DOMAIN gpu'.linear = DOMAIN gpu.linear \ {p}
      BY <1>1, <1>3, <3>1, LinearFacts
    <3>3. p \notin DOMAIN gpu.maps /\ p \notin va_held
      BY <1>1, <3>1 DEF RangesInv, TypeOK
    <3> QED BY <3>1, <3>2, <3>3
  <2> QED BY <1>1, <2>1, <2>2
<1>5. TypeOK'
  <2>1. live_bytes' \in 0 .. SizeMod - 1
    BY <1>1, <1>3, LiveBytesType DEF TypeOK
  <2>2. Ptrs' = Ptrs \ {p}
    BY <1>2 DEF Ptrs
  <2> QED BY <1>1, <1>2, <1>4, <2>1, <2>2 DEF TypeOK, WellFormed
<1>6. RangesInv'
  BY <1>1, <1>2, <1>4 DEF RangesInv, Ptrs
<1>7. EntriesInv' /\ SizesInv'
  BY <1>1, <1>2, <1>4 DEF EntriesInv, SizesInv, RangesInv, Ptrs
<1> QED BY <1>4, <1>5, <1>6, <1>7 DEF AInv

(* A call that only changes what the entries have for memory.              *)
LEMMA PhysicalAInv ==
  ASSUME AInv, NEW p \in VmmPtrs, NEW h,
         WellFormed(gpu'), gpu'.linear = gpu.linear,
         DOMAIN gpu'.maps \subseteq DOMAIN gpu.maps \cup {p},
         \A x \in DOMAIN gpu'.maps : \/ gpu'.maps[x] = gpu.maps[x] /\ x \in DOMAIN gpu.maps
                                     \/ gpu'.maps[x].size = AllocSize(entries_[x].size),
         HasAssigned(entries_', p, h) \/ entries_' = entries_,
         live_bytes' \in 0 .. SizeMod - 1, UNCHANGED <<va_held, alive>>
  PROVE  AInv'
<1>1. TypeOK /\ RangesInv /\ EntriesInv /\ SizesInv /\ p \in Ptrs /\ entries_[p].is_vmm
  BY DEF AInv, VmmPtrs
<1>2. /\ Ptrs' = Ptrs
      /\ \A q \in Ptrs : /\ entries_'[q] \in Entry
                         /\ entries_'[q].size = entries_[q].size
                         /\ entries_'[q].is_vmm = entries_[q].is_vmm
                         /\ q # p => entries_'[q] = entries_[q]
  <2>1. CASE HasAssigned(entries_', p, h)
    BY <2>1 DEF HasAssigned, Ptrs
  <2>2. CASE entries_' = entries_
    BY <1>1, <2>2 DEF TypeOK, Ptrs
  <2> QED BY <2>1, <2>2
<1>3. p \in Vas
  BY <1>1 DEF TypeOK
<1>4. TypeOK'
  BY <1>1, <1>2 DEF TypeOK, WellFormed
<1>5. RangesInv'
  BY <1>1, <1>2, <1>3 DEF RangesInv
<1>6. EntriesInv'
  BY <1>1, <1>2 DEF EntriesInv
<1>7. SizesInv'
  <2> SUFFICES ASSUME NEW x \in DOMAIN gpu'.maps \cap Ptrs
               PROVE  gpu'.maps[x].size = AllocSize(entries_'[x].size)
    BY <1>2 DEF SizesInv
  <2>1. entries_'[x].size = entries_[x].size
    BY <1>2
  <2>2. gpu'.maps[x].size = AllocSize(entries_[x].size)
    BY <1>1 DEF SizesInv
  <2> QED BY <2>1, <2>2
<1> QED BY <1>4, <1>5, <1>6, <1>7 DEF AInv

LEMMA ReleasePhysicalFacts ==
  ASSUME AInv, NEW p \in Ptrs, ReleasePhysical(p)
  PROVE  /\ p \in VmmPtrs /\ HasUnbacked(gpu', p) /\ HasAssigned(entries_', p, NoHandle)
         /\ live_bytes' \in 0 .. SizeMod - 1 /\ UNCHANGED <<va_held, alive>>
<1>1. /\ p \in VmmPtrs /\ gpu' = Unbacked(p) /\ entries_' = Assign(p, NoHandle)
      /\ live_bytes' = Minus(entries_[p].size) /\ UNCHANGED <<va_held, alive>>
  BY DEF ReleasePhysical
<1>2. HasUnbacked(gpu', p)
  BY <1>1, UnbackedFacts
<1>3. NoHandle \in Handles \cup {NoHandle}
  OBVIOUS
<1>4. HasAssigned(entries_', p, NoHandle)
  BY <1>1, <1>3, AssignFacts
<1>5. live_bytes' \in 0 .. SizeMod - 1
  BY <1>1, EntryFacts, LiveBytesType DEF AInv, TypeOK
<1> QED BY <1>1, <1>2, <1>4, <1>5

LEMMA ReleasePhysicalAInv ==
  ASSUME AInv, NEW p \in Ptrs, ReleasePhysical(p)
  PROVE  AInv'
<1>1. /\ p \in VmmPtrs /\ HasUnbacked(gpu', p) /\ HasAssigned(entries_', p, NoHandle)
      /\ live_bytes' \in 0 .. SizeMod - 1 /\ UNCHANGED <<va_held, alive>>
  BY ReleasePhysicalFacts
<1>2. /\ WellFormed(gpu') /\ gpu'.linear = gpu.linear
      /\ DOMAIN gpu'.maps \subseteq DOMAIN gpu.maps \cup {p}
      /\ \A x \in DOMAIN gpu'.maps : gpu'.maps[x] = gpu.maps[x] /\ x \in DOMAIN gpu.maps
  BY <1>1 DEF HasUnbacked
<1> QED BY <1>1, <1>2, PhysicalAInv

(* What RestorePhysical makes of the GPU.                                  *)
HasRestored(p, h) ==
  /\ p \notin DOMAIN gpu.maps /\ h \in Handles \ DOMAIN gpu.mem
  /\ WellFormed(gpu') /\ gpu'.linear = gpu.linear
  /\ DOMAIN gpu'.mem = DOMAIN gpu.mem \cup {h}
  /\ gpu'.mem[h].size = AllocSize(entries_[p].size)
  /\ \A x \in DOMAIN gpu.mem : gpu'.mem[x] = gpu.mem[x]
  /\ DOMAIN gpu'.maps = DOMAIN gpu.maps \cup {p}
  /\ gpu'.maps[p].handle = h /\ gpu'.maps[p].size = AllocSize(entries_[p].size)
  /\ gpu'.maps[p].access = TRUE
  /\ \A x \in DOMAIN gpu.maps : gpu'.maps[x] = gpu.maps[x]

LEMMA CreatedFacts ==
  ASSUME AInv, NEW p \in Ptrs, NEW h \in FreshHandles(gpu)
  PROVE  HasCreated(gpu, Created(p, h), h, AllocSize(entries_[p].size))
<1>1. AllocSize(entries_[p].size) \in Nat /\ WellFormed(gpu)
  BY EntryFacts DEF AInv
<1> QED BY <1>1, CreateFacts DEF Created

LEMMA RestorePhysicalFacts ==
  ASSUME AInv, NEW p \in Ptrs, NEW h, NEW d, RestorePhysical(p, h, d)
  PROVE  /\ p \in VmmPtrs /\ HasRestored(p, h) /\ HasAssigned(entries_', p, h)
         /\ gpu'.mem[h].data = d
         /\ live_bytes' \in 0 .. SizeMod - 1 /\ UNCHANGED <<va_held, alive>>
<1> DEFINE n == AllocSize(entries_[p].size)
           c == Created(p, h)
           m == MapReadWrite(c, p, n, h)
<1>1. /\ p \in VmmPtrs /\ h \in FreshHandles(gpu)
      /\ CanMap(c, p, n, h)
      /\ gpu' = Write(m, p, d)
      /\ entries_' = Assign(p, h)
      /\ live_bytes' = Plus(entries_[p].size) /\ UNCHANGED <<va_held, alive>>
  BY DEF RestorePhysical, Refill
<1>2. n \in Nat /\ HasCreated(gpu, c, h, n)
  BY <1>1, EntryFacts, CreatedFacts
<1> HIDE DEF n, c
<1>3. HasMapped(c, m, p, n, h, TRUE)
  BY <1>1, <1>2, MapReadWriteFacts DEF HasCreated
<1>4. p \notin DOMAIN gpu.maps
  BY <1>1, <1>2 DEF CanMap, HasCreated
<1> HIDE DEF m
<1>5. Accessible(m, p) /\ m.maps[p].handle = h /\ WellFormed(m)
  BY <1>3 DEF HasMapped, Accessible
<1>6. /\ WellFormed(gpu') /\ gpu'.maps = m.maps
      /\ DOMAIN gpu'.mem = DOMAIN m.mem /\ DOMAIN gpu'.linear = DOMAIN m.linear
      /\ \A x \in DOMAIN m.mem : x # h => gpu'.mem[x] = m.mem[x]
      /\ gpu'.mem[h].data = d /\ gpu'.mem[h].size = m.mem[h].size
  BY <1>1, <1>5, WriteFacts DEF WellFormed, Accessible
<1>7. gpu'.linear = m.linear
  <2>1. gpu' = [m EXCEPT !.mem[m.maps[p].handle].data = d]
    BY <1>1, <1>5 DEF Write
  <2> QED BY <1>5, <2>1 DEF WellFormed, IsGpu
<1>8. HasRestored(p, h)
  BY <1>2, <1>3, <1>4, <1>6, <1>7 DEF HasCreated, HasMapped, HasRestored, n
<1>9. HasAssigned(entries_', p, h)
  BY <1>1, AssignFacts DEF FreshHandles
<1>10. live_bytes' \in 0 .. SizeMod - 1
  BY <1>1, EntryFacts, LiveBytesType DEF AInv, TypeOK
<1> QED BY <1>1, <1>6, <1>8, <1>9, <1>10

LEMMA RestorePhysicalAInv ==
  ASSUME AInv, NEW p \in Ptrs, NEW h, NEW d, RestorePhysical(p, h, d)
  PROVE  AInv'
<1>1. /\ p \in VmmPtrs /\ HasRestored(p, h) /\ HasAssigned(entries_', p, h)
      /\ live_bytes' \in 0 .. SizeMod - 1 /\ UNCHANGED <<va_held, alive>>
  BY RestorePhysicalFacts
<1>2. /\ WellFormed(gpu') /\ gpu'.linear = gpu.linear
      /\ DOMAIN gpu'.maps \subseteq DOMAIN gpu.maps \cup {p}
      /\ \A x \in DOMAIN gpu'.maps : \/ gpu'.maps[x] = gpu.maps[x] /\ x \in DOMAIN gpu.maps
                                     \/ gpu'.maps[x].size = AllocSize(entries_[x].size)
  BY <1>1 DEF HasRestored
<1> QED BY <1>1, <1>2, PhysicalAInv

(* RestorePhysical throws: at cuMemCreate, for lack of room, or behind it. *)
LEMMA RestorePhysicalThrowsFacts ==
  ASSUME AInv, NEW p \in Ptrs, RestorePhysicalThrows(p)
  PROVE  /\ p \in VmmPtrs /\ UNCHANGED <<va_held, entries_, live_bytes, alive>>
         /\ AllocSize(entries_[p].size) \in Nat
         /\ IF Room(gpu, AllocSize(entries_[p].size))
              THEN \E h : HasGrown(p, AllocSize(entries_[p].size), h)
              ELSE gpu' = gpu
<1> DEFINE n == AllocSize(entries_[p].size)
<1>1. /\ p \in VmmPtrs /\ UNCHANGED <<va_held, entries_, live_bytes, alive>>
      /\ ~Room(gpu, n) => gpu' = gpu
      /\ Room(gpu, n) => \E h \in FreshHandles(gpu) :
           \/ gpu' = Created(p, h)
           \/ /\ CanMap(Created(p, h), p, n, h)
              /\ \/ gpu' = CuMemMap(Created(p, h), p, n, h)
                 \/ gpu' = MapReadWrite(Created(p, h), p, n, h)
  BY DEF RestorePhysicalThrows
<1>2. n \in Nat
  BY EntryFacts
<1>3. ASSUME Room(gpu, n) PROVE \E h : HasGrown(p, n, h)
  <2>1. PICK h \in FreshHandles(gpu) :
           \/ gpu' = Created(p, h)
           \/ /\ CanMap(Created(p, h), p, n, h)
              /\ \/ gpu' = CuMemMap(Created(p, h), p, n, h)
                 \/ gpu' = MapReadWrite(Created(p, h), p, n, h)
    BY <1>1, <1>3
  <2> DEFINE c == Created(p, h)
  <2>2. HasCreated(gpu, c, h, n)
    BY CreatedFacts
  <2>3. CASE gpu' = c
    <3> HIDE DEF c, n
    <3> QED BY <2>2, <2>3, CreatedGrows
  <2>4. CASE /\ CanMap(c, p, n, h)
             /\ gpu' = CuMemMap(c, p, n, h) \/ gpu' = MapReadWrite(c, p, n, h)
    <3> HIDE DEF c, n
    <3>1. WellFormed(c) /\ p \notin DOMAIN gpu.maps
      BY <2>2, <2>4 DEF HasCreated, CanMap
    <3>2. \E access : HasMapped(c, gpu', p, n, h, access)
      BY <1>2, <2>4, <3>1, MapFacts, MapReadWriteFacts
    <3> QED BY <2>2, <3>1, <3>2, MappedGrows
  <2> QED BY <2>1, <2>3, <2>4
<1> QED BY <1>1, <1>2, <1>3

LEMMA RestorePhysicalThrowsAInv ==
  ASSUME AInv, NEW p \in Ptrs, RestorePhysicalThrows(p)
  PROVE  AInv'
<1>1. /\ p \in VmmPtrs /\ UNCHANGED <<va_held, entries_, live_bytes, alive>>
      /\ gpu' = gpu \/ \E h : HasGrown(p, AllocSize(entries_[p].size), h)
  BY RestorePhysicalThrowsFacts
<1>2. live_bytes' \in 0 .. SizeMod - 1 /\ WellFormed(gpu)
  BY <1>1 DEF AInv, TypeOK
<1>3. /\ WellFormed(gpu') /\ gpu'.linear = gpu.linear
      /\ DOMAIN gpu'.maps \subseteq DOMAIN gpu.maps \cup {p}
      /\ \A x \in DOMAIN gpu'.maps : \/ gpu'.maps[x] = gpu.maps[x] /\ x \in DOMAIN gpu.maps
                                     \/ gpu'.maps[x].size = AllocSize(entries_[x].size)
  BY <1>1, <1>2 DEF HasGrown
<1> QED BY <1>1, <1>2, <1>3, PhysicalAInv

(* The GPU after SharePhysical: dst's memory is gone, and it maps src's.   *)
LEMMA SharePhysicalFacts ==
  ASSUME AInv, NEW dst \in Ptrs, NEW src \in Ptrs, SharePhysical(dst, src)
  PROVE  /\ dst \in VmmPtrs /\ src \in VmmPtrs
         /\ HasUnbacked(Unbacked(dst), dst)
         /\ HasMapped(Unbacked(dst), gpu', dst, AllocSize(entries_[dst].size),
                      entries_[src].physical_handle, TRUE)
         /\ Unbacked(dst).mem[entries_[src].physical_handle].open
         /\ entries_[src].physical_handle \in DOMAIN Unbacked(dst).mem
         /\ HasAssigned(entries_', dst, entries_[src].physical_handle)
         /\ UNCHANGED <<va_held, live_bytes, alive>>
<1> DEFINE n == AllocSize(entries_[dst].size)
           h == entries_[src].physical_handle
           u == Unbacked(dst)
<1>1. /\ dst \in VmmPtrs /\ src \in VmmPtrs
      /\ CanMap(u, dst, n, h) /\ gpu' = MapReadWrite(u, dst, n, h)
      /\ entries_' = Assign(dst, h) /\ UNCHANGED <<va_held, live_bytes, alive>>
  BY DEF SharePhysical, CanShare
<1>2. n \in Nat /\ h \in Handles \cup {NoHandle} /\ HasUnbacked(u, dst)
  BY <1>1, EntryFacts, UnbackedFacts
<1>3. HasAssigned(entries_', dst, h)
  BY <1>1, <1>2, AssignFacts
<1> HIDE DEF n, h, u
<1>4. HasMapped(u, gpu', dst, n, h, TRUE)
  BY <1>1, <1>2, MapReadWriteFacts DEF HasUnbacked
<1> QED BY <1>1, <1>2, <1>3, <1>4 DEF CanMap, n, h, u

LEMMA SharePhysicalAInv ==
  ASSUME AInv, NEW dst \in Ptrs, NEW src \in Ptrs, SharePhysical(dst, src)
  PROVE  AInv'
<1> DEFINE h == entries_[src].physical_handle
<1>1. /\ dst \in VmmPtrs
      /\ HasUnbacked(Unbacked(dst), dst)
      /\ HasMapped(Unbacked(dst), gpu', dst, AllocSize(entries_[dst].size), h, TRUE)
      /\ HasAssigned(entries_', dst, h) /\ UNCHANGED <<va_held, live_bytes, alive>>
  BY SharePhysicalFacts
<1> HIDE DEF h
<1>2. /\ WellFormed(gpu') /\ gpu'.linear = gpu.linear
      /\ DOMAIN gpu'.maps \subseteq DOMAIN gpu.maps \cup {dst}
      /\ \A x \in DOMAIN gpu'.maps : \/ gpu'.maps[x] = gpu.maps[x] /\ x \in DOMAIN gpu.maps
                                     \/ gpu'.maps[x].size = AllocSize(entries_[x].size)
  BY <1>1 DEF HasUnbacked, HasMapped
<1>3. live_bytes' \in 0 .. SizeMod - 1
  BY <1>1 DEF AInv, TypeOK
<1> QED BY <1>1, <1>2, <1>3, PhysicalAInv

(* SharePhysical throws at cuMemMap or behind it.                          *)
LEMMA SharePhysicalThrowsFacts ==
  ASSUME AInv, NEW dst \in Ptrs, NEW src \in Ptrs, SharePhysicalThrows(dst, src)
  PROVE  /\ dst \in VmmPtrs /\ HasUnbacked(Unbacked(dst), dst)
         /\ \/ gpu' = Unbacked(dst)
            \/ HasMapped(Unbacked(dst), gpu', dst, AllocSize(entries_[dst].size),
                         entries_[src].physical_handle, FALSE)
         /\ UNCHANGED <<va_held, entries_, live_bytes, alive>>
<1> DEFINE n == AllocSize(entries_[dst].size)
           h == entries_[src].physical_handle
           u == Unbacked(dst)
<1>1. /\ dst \in VmmPtrs /\ UNCHANGED <<va_held, entries_, live_bytes, alive>>
      /\ \/ gpu' = u
         \/ CanMap(u, dst, n, h) /\ gpu' = CuMemMap(u, dst, n, h)
  BY DEF SharePhysicalThrows, CanShare
<1>2. n \in Nat /\ HasUnbacked(u, dst)
  BY <1>1, EntryFacts, UnbackedFacts
<1> HIDE DEF n, h, u
<1>3. gpu' = u \/ HasMapped(u, gpu', dst, n, h, FALSE)
  BY <1>1, <1>2, MapFacts DEF HasUnbacked
<1> QED BY <1>1, <1>2, <1>3 DEF n, h, u

LEMMA SharePhysicalThrowsAInv ==
  ASSUME AInv, NEW dst \in Ptrs, NEW src \in Ptrs, SharePhysicalThrows(dst, src)
  PROVE  AInv'
<1> DEFINE u == Unbacked(dst)
           h == entries_[src].physical_handle
<1>1. /\ dst \in VmmPtrs /\ HasUnbacked(u, dst)
      /\ gpu' = u \/ HasMapped(u, gpu', dst, AllocSize(entries_[dst].size), h, FALSE)
      /\ UNCHANGED <<va_held, entries_, live_bytes, alive>>
  BY SharePhysicalThrowsFacts
<1> HIDE DEF u, h
<1>2. /\ WellFormed(gpu') /\ gpu'.linear = gpu.linear
      /\ DOMAIN gpu'.maps \subseteq DOMAIN gpu.maps \cup {dst}
      /\ \A x \in DOMAIN gpu'.maps : \/ gpu'.maps[x] = gpu.maps[x] /\ x \in DOMAIN gpu.maps
                                     \/ gpu'.maps[x].size = AllocSize(entries_[x].size)
  BY <1>1 DEF HasUnbacked, HasMapped
<1>3. live_bytes' \in 0 .. SizeMod - 1
  BY <1>1 DEF AInv, TypeOK
<1> QED BY <1>1, <1>2, <1>3, PhysicalAInv

LEMMA PhysicalNextAInv ==
  ASSUME AInv, PhysicalNext
  PROVE  AInv'
  BY ReleasePhysicalAInv, RestorePhysicalAInv, RestorePhysicalThrowsAInv,
     SharePhysicalAInv, SharePhysicalThrowsAInv DEF PhysicalNext

(* Every pointer that cuMemAlloc returned is an entry's.  (It is not for   *)
(* an application that calls the driver, too.)                             *)
LinearsInv == DOMAIN gpu.linear \subseteq Linears \cap Ptrs

LEMMA InitLinears == Init => LinearsInv
<1> SUFFICES ASSUME Init PROVE LinearsInv
  OBVIOUS
<1>1. gpu.linear = << >> /\ DOMAIN << >> = {}
  BY DEF Init, NoMemory
<1> QED BY <1>1 DEF LinearsInv

LEMMA AllocateVmmLinears ==
  ASSUME AInv, LinearsInv, NEW bytes \in Sizes, NEW tag, NEW va, NEW h,
         AllocateVmm(bytes, tag, va, h)
  PROVE  LinearsInv'
<1>1. gpu'.linear = gpu.linear /\ Ptrs' = Ptrs \cup {va}
  BY AllocateVmmFacts DEF HasAllocated, Ptrs
<1> QED BY <1>1 DEF LinearsInv

LEMMA AllocateVmmThrowsLinears ==
  ASSUME AInv, LinearsInv, NEW bytes \in Sizes, NEW va, AllocateVmmThrows(bytes, va)
  PROVE  LinearsInv'
<1>1. /\ gpu' = gpu \/ \E h : HasGrown(va, AllocSize(bytes), h)
      /\ entries_' = entries_
  BY AllocateVmmThrowsFacts
<1>2. gpu'.linear = gpu.linear /\ Ptrs' = Ptrs
  BY <1>1 DEF HasGrown, Ptrs
<1> QED BY <1>2 DEF LinearsInv

LEMMA AllocateFallbackLinears ==
  ASSUME AInv, LinearsInv, NEW bytes \in Sizes, NEW ptr \in Linears,
         AllocateFallback(bytes, ptr)
  PROVE  LinearsInv'
<1>1. /\ gpu' = CuMemAlloc(gpu, ptr, bytes) /\ WellFormed(gpu) /\ bytes \in Nat
      /\ Ptrs' = Ptrs \cup {ptr}
  BY SizesAssumption DEF AllocateFallback, AInv, Put, Ptrs
<1>2. DOMAIN gpu'.linear = DOMAIN gpu.linear \cup {ptr}
  BY <1>1, LinearFacts
<1> QED BY <1>1, <1>2 DEF LinearsInv

LEMMA DeallocateLinears ==
  ASSUME AInv, LinearsInv, NEW p \in Ptrs, Deallocate(p)
  PROVE  LinearsInv'
<1>1. Ptrs' = Ptrs \ {p} /\ (DeallocateVmm(p) \/ DeallocateFallback(p))
  BY DEF Deallocate, RestrictDomain, Restrict, Ptrs
<1>2. DOMAIN gpu'.linear \subseteq DOMAIN gpu.linear \ {p}
  <2>1. CASE DeallocateVmm(p)
    <3>1. p \notin DOMAIN gpu.linear
      BY <2>1, EntryFacts, PointersAssumption DEF DeallocateVmm, LinearsInv
    <3>2. HasUnbacked(gpu', p)
      BY <2>1, UnbackedFacts DEF DeallocateVmm, VmmPtrs
    <3> QED BY <3>1, <3>2 DEF HasUnbacked
  <2>2. CASE DeallocateFallback(p)
    <3>1. gpu' = CuMemFree(gpu, p) /\ WellFormed(gpu) /\ 0 \in Nat
      BY <2>2 DEF DeallocateFallback, AInv
    <3>2. DOMAIN CuMemFree(gpu, p).linear = DOMAIN gpu.linear \ {p}
      BY <3>1, LinearFacts, Zenon
    <3> QED BY <3>1, <3>2
  <2> QED BY <1>1, <2>1, <2>2
<1> QED BY <1>1, <1>2 DEF LinearsInv

LEMMA PhysicalNextLinears ==
  ASSUME AInv, LinearsInv, PhysicalNext
  PROVE  LinearsInv'
<1>1. ASSUME NEW p \in Ptrs, ReleasePhysical(p)
      PROVE  gpu'.linear = gpu.linear /\ Ptrs' = Ptrs
  BY <1>1, ReleasePhysicalFacts DEF HasUnbacked, HasAssigned, Ptrs
<1>2. ASSUME NEW p \in Ptrs, NEW h \in Handles, NEW d \in Data, RestorePhysical(p, h, d)
      PROVE  gpu'.linear = gpu.linear /\ Ptrs' = Ptrs
  BY <1>2, RestorePhysicalFacts DEF HasRestored, HasAssigned, Ptrs
<1>3. ASSUME NEW p \in Ptrs, RestorePhysicalThrows(p)
      PROVE  gpu'.linear = gpu.linear /\ Ptrs' = Ptrs
  <2>1. /\ gpu' = gpu \/ \E h : HasGrown(p, AllocSize(entries_[p].size), h)
        /\ entries_' = entries_
    BY <1>3, RestorePhysicalThrowsFacts
  <2> QED BY <2>1 DEF HasGrown, Ptrs
<1>4. ASSUME NEW dst \in Ptrs, NEW src \in Ptrs, SharePhysical(dst, src)
      PROVE  gpu'.linear = gpu.linear /\ Ptrs' = Ptrs
  BY <1>4, SharePhysicalFacts DEF HasUnbacked, HasMapped, HasAssigned, Ptrs
<1>5. ASSUME NEW dst \in Ptrs, NEW src \in Ptrs, SharePhysicalThrows(dst, src)
      PROVE  gpu'.linear = gpu.linear /\ Ptrs' = Ptrs
  <2> DEFINE u == Unbacked(dst)
  <2>1. /\ HasUnbacked(u, dst) /\ entries_' = entries_
        /\ \E n, h : gpu' = u \/ HasMapped(u, gpu', dst, n, h, FALSE)
    BY <1>5, SharePhysicalThrowsFacts
  <2> HIDE DEF u
  <2> QED BY <2>1 DEF HasUnbacked, HasMapped, Ptrs
<1> QED BY <1>1, <1>2, <1>3, <1>4, <1>5 DEF PhysicalNext, LinearsInv

(* With both, what can be handed out again is what AInv says, exactly.     *)
LEMMA RangesUnmapped ==
  ASSUME AInv, LinearsInv
  PROVE  PoolRangesUnmapped
  BY DEF AInv, RangesInv, LinearsInv, PoolRangesUnmapped

LEMMA SameAInv ==
  ASSUME AInv, UNCHANGED <<gpu, va_held, entries_, live_bytes>>, alive' \in BOOLEAN
  PROVE  AInv'
  BY DEF AInv, TypeOK, RangesInv, EntriesInv, SizesInv, Ptrs

(* A copy to a buffer changes no mapping and no entry.                     *)
LEMMA WriteAInv ==
  ASSUME AInv, NEW ptr, NEW d, gpu' = Write(gpu, ptr, d),
         UNCHANGED <<va_held, entries_, live_bytes, alive>>
  PROVE  AInv'
<1>1. /\ WellFormed(gpu') /\ gpu'.maps = gpu.maps
      /\ DOMAIN gpu'.mem = DOMAIN gpu.mem /\ DOMAIN gpu'.linear = DOMAIN gpu.linear
  BY WriteFacts DEF AInv
<1>2. TypeOK /\ RangesInv /\ EntriesInv /\ SizesInv
  BY DEF AInv
<1>3. TypeOK'
  BY <1>1, <1>2 DEF TypeOK, Ptrs
<1>4. RangesInv' /\ EntriesInv' /\ SizesInv'
  BY <1>1, <1>2 DEF RangesInv, EntriesInv, SizesInv, Ptrs
<1> QED BY <1>1, <1>3, <1>4 DEF AInv

-----------------------------------------------------------------------------
(* The entries say what is mapped.  SharePhysicalThrows, in which an entry *)
(* keeps the handle of memory it has lost, is the one call after which     *)
(* they do not.  Where an entry says that it has no memory there may be    *)
(* some all the same, of a RestorePhysical that threw.                     *)
Mirrored ==
  \A p \in VmmPtrs :
    Resident(p) => /\ Accessible(gpu, p)
                   /\ gpu.maps[p].handle = entries_[p].physical_handle

LEMMA BackedFact ==
  ASSUME AInv, Mirrored
  PROVE  Backed
<1> SUFFICES ASSUME NEW p \in Ptrs, entries_[p].is_vmm, Resident(p)
             PROVE  /\ Accessible(gpu, p)
                    /\ gpu.maps[p].handle = entries_[p].physical_handle
                    /\ entries_[p].size <= gpu.mem[gpu.maps[p].handle].size
  BY DEF Backed
<1>1. /\ Accessible(gpu, p) /\ p \in DOMAIN gpu.maps
      /\ gpu.maps[p].handle = entries_[p].physical_handle
  BY DEF Mirrored, VmmPtrs, Accessible
<1>2. gpu.maps[p].size = AllocSize(entries_[p].size)
  BY <1>1 DEF AInv, SizesInv
<1>3. /\ gpu.maps[p].size <= gpu.mem[gpu.maps[p].handle].size
      /\ gpu.mem[gpu.maps[p].handle].size \in Nat
  BY <1>1 DEF AInv, WellFormed, IsMemory
<1>4. entries_[p].size \in Nat /\ AllocSize(entries_[p].size) \in Nat
      /\ entries_[p].size <= AllocSize(entries_[p].size)
  BY EntryFacts
<1> QED BY <1>1, <1>2, <1>3, <1>4

LEMMA AllocateVmmMirrored ==
  ASSUME AInv, Mirrored, NEW bytes \in Sizes, NEW tag, NEW va, NEW h,
         AllocateVmm(bytes, tag, va, h)
  PROVE  Mirrored'
<1>1. HasAllocated(bytes, tag, va, h)
  BY AllocateVmmFacts
<1>2. /\ va \notin Ptrs /\ Ptrs' = Ptrs \cup {va}
      /\ entries_'[va].is_vmm /\ entries_'[va].physical_handle = h
      /\ \A p \in Ptrs : entries_'[p] = entries_[p]
      /\ Accessible(gpu', va) /\ gpu'.maps[va].handle = h
      /\ \A p \in Ptrs : Accessible(gpu, p) =>
           Accessible(gpu', p) /\ gpu'.maps[p].handle = gpu.maps[p].handle
  BY <1>1 DEF HasAllocated, Ptrs, Accessible
<1> QED BY <1>2 DEF Mirrored, VmmPtrs, Resident

(* A call after which the entries are the same, and the mappings those     *)
(* there were, or more.                                                    *)
LEMMA GrownMirrored ==
  ASSUME Mirrored, entries_' = entries_,
         \A x \in DOMAIN gpu.maps : x \in DOMAIN gpu'.maps /\ gpu'.maps[x] = gpu.maps[x]
  PROVE  Mirrored'
  BY DEF Mirrored, VmmPtrs, Ptrs, Resident, Accessible

LEMMA AllocateVmmThrowsMirrored ==
  ASSUME AInv, Mirrored, NEW bytes \in Sizes, NEW va, AllocateVmmThrows(bytes, va)
  PROVE  Mirrored'
<1>1. /\ entries_' = entries_
      /\ gpu' = gpu \/ \E h : HasGrown(va, AllocSize(bytes), h)
  BY AllocateVmmThrowsFacts
<1> QED BY <1>1, GrownMirrored DEF HasGrown

(* What AllocateFallback makes of the GPU and the entries.                 *)
HasFallback(bytes, ptr) ==
  /\ ptr \notin Ptrs /\ ptr \notin Vas /\ gpu'.mem = gpu.mem /\ gpu'.maps = gpu.maps
  /\ Ptrs' = Ptrs \cup {ptr} /\ entries_'[ptr] = FallbackEntry(bytes)
  /\ ~entries_'[ptr].is_vmm
  /\ \A p \in Ptrs : entries_'[p] = entries_[p]

LEMMA AllocateFallbackFacts ==
  ASSUME AInv, NEW bytes \in Sizes, NEW ptr \in Linears, AllocateFallback(bytes, ptr)
  PROVE  HasFallback(bytes, ptr)
<1>1. /\ gpu' = CuMemAlloc(gpu, ptr, bytes) /\ ptr \notin DOMAIN gpu.linear
      /\ entries_' = Put(entries_, ptr, FallbackEntry(bytes))
      /\ WellFormed(gpu) /\ bytes \in Nat
  BY SizesAssumption DEF AllocateFallback, AInv
<1>2. gpu'.mem = gpu.mem /\ gpu'.maps = gpu.maps
  BY <1>1, LinearFacts
<1>3. ptr \notin Ptrs /\ ptr \notin Vas
  BY <1>1, PointersAssumption DEF AInv, RangesInv
<1>4. ~FallbackEntry(bytes).is_vmm
  BY DEF FallbackEntry
<1> QED BY <1>1, <1>2, <1>3, <1>4 DEF Put, Ptrs, HasFallback

LEMMA AllocateFallbackMirrored ==
  ASSUME AInv, Mirrored, NEW bytes \in Sizes, NEW ptr \in Linears,
         AllocateFallback(bytes, ptr)
  PROVE  Mirrored'
  BY AllocateFallbackFacts DEF HasFallback, Mirrored, VmmPtrs, Resident, Accessible

LEMMA DeallocateMirrored ==
  ASSUME AInv, Mirrored, NEW p \in Ptrs, Deallocate(p)
  PROVE  Mirrored'
<1>1. Ptrs' = Ptrs \ {p} /\ \A q \in Ptrs' : entries_'[q] = entries_[q]
  BY DEF Deallocate, RestrictDomain, Restrict, Ptrs
<1>2. CASE DeallocateVmm(p)
  <2>1. p \in VmmPtrs /\ HasUnbacked(gpu', p)
    BY <1>2, UnbackedFacts DEF DeallocateVmm, VmmPtrs
  <2> QED BY <1>1, <2>1 DEF Mirrored, VmmPtrs, Resident, HasUnbacked, Accessible
<1>3. CASE DeallocateFallback(p)
  <2>1. gpu' = CuMemFree(gpu, p) /\ WellFormed(gpu) /\ entries_[p].size \in Nat
    BY <1>3, EntryFacts DEF DeallocateFallback, AInv
  <2>2. gpu'.maps = gpu.maps
    BY <2>1, LinearFacts
  <2> QED BY <1>1, <2>2 DEF Mirrored, VmmPtrs, Resident, Accessible
<1> QED BY <1>2, <1>3 DEF Deallocate

LEMMA ReleasePhysicalMirrored ==
  ASSUME AInv, Mirrored, NEW p \in Ptrs, ReleasePhysical(p)
  PROVE  Mirrored'
<1>1. p \in VmmPtrs /\ HasUnbacked(gpu', p) /\ HasAssigned(entries_', p, NoHandle)
  BY ReleasePhysicalFacts
<1>2. /\ Ptrs' = Ptrs
      /\ \A q \in Ptrs : entries_'[q].is_vmm = entries_[q].is_vmm
      /\ \A q \in Ptrs : q # p => entries_'[q] = entries_[q]
      /\ entries_'[p].physical_handle = NoHandle
  BY <1>1 DEF HasAssigned, Ptrs
<1> QED BY <1>1, <1>2 DEF Mirrored, VmmPtrs, Resident, HasUnbacked, Accessible

LEMMA RestorePhysicalMirrored ==
  ASSUME AInv, Mirrored, NEW p \in Ptrs, NEW h, NEW d, RestorePhysical(p, h, d)
  PROVE  Mirrored'
<1>1. p \in VmmPtrs /\ HasRestored(p, h) /\ HasAssigned(entries_', p, h)
  BY RestorePhysicalFacts
<1>2. /\ Ptrs' = Ptrs
      /\ \A q \in Ptrs : entries_'[q].is_vmm = entries_[q].is_vmm
      /\ \A q \in Ptrs : q # p => entries_'[q] = entries_[q]
      /\ entries_'[p].physical_handle = h
  BY <1>1 DEF HasAssigned, Ptrs
<1> QED BY <1>1, <1>2 DEF Mirrored, VmmPtrs, Resident, HasRestored, Accessible

LEMMA RestorePhysicalThrowsMirrored ==
  ASSUME AInv, Mirrored, NEW p \in Ptrs, RestorePhysicalThrows(p)
  PROVE  Mirrored'
<1>1. /\ entries_' = entries_
      /\ gpu' = gpu \/ \E h : HasGrown(p, AllocSize(entries_[p].size), h)
  BY RestorePhysicalThrowsFacts
<1> QED BY <1>1, GrownMirrored DEF HasGrown

LEMMA SharePhysicalMirrored ==
  ASSUME AInv, Mirrored, NEW dst \in Ptrs, NEW src \in Ptrs, SharePhysical(dst, src)
  PROVE  Mirrored'
<1> DEFINE h == entries_[src].physical_handle
           u == Unbacked(dst)
<1>1. /\ dst \in VmmPtrs /\ HasUnbacked(u, dst)
      /\ HasMapped(u, gpu', dst, AllocSize(entries_[dst].size), h, TRUE)
      /\ HasAssigned(entries_', dst, h)
  BY SharePhysicalFacts
<1> HIDE DEF h, u
<1>2. /\ Ptrs' = Ptrs
      /\ \A q \in Ptrs : entries_'[q].is_vmm = entries_[q].is_vmm
      /\ \A q \in Ptrs : q # dst => entries_'[q] = entries_[q]
      /\ entries_'[dst].physical_handle = h
  BY <1>1 DEF HasAssigned, Ptrs
<1> QED BY <1>1, <1>2 DEF Mirrored, VmmPtrs, Resident, HasUnbacked, HasMapped, Accessible

(* RestorePhysical returns only for an entry that had no memory: where     *)
(* something is mapped already, cuMemMap fails.                            *)
LEMMA RestorePhysicalHadNone ==
  ASSUME AInv, Mirrored, NEW p \in Ptrs, NEW h, NEW d, RestorePhysical(p, h, d)
  PROVE  ~Resident(p)
<1>1. p \in VmmPtrs /\ HasRestored(p, h)
  BY RestorePhysicalFacts
<1> QED BY <1>1 DEF HasRestored, Mirrored, Accessible

LEMMA InitMirrored == Init => Mirrored
  BY DEF Init, Mirrored, VmmPtrs, Ptrs

LEMMA CarefulPhysicalMirrored ==
  ASSUME AInv, Mirrored, CarefulPhysical
  PROVE  Mirrored'
  BY ReleasePhysicalMirrored, RestorePhysicalMirrored, RestorePhysicalThrowsMirrored,
     SharePhysicalMirrored DEF CarefulPhysical

LEMMA SameMirrored ==
  ASSUME Mirrored, UNCHANGED <<gpu, entries_>>
  PROVE  Mirrored'
  BY DEF Mirrored, VmmPtrs, Ptrs, Resident, Accessible

-----------------------------------------------------------------------------
(* What calls lose.  A call that returns loses nothing, but for            *)
(* RestorePhysical for an entry that has memory; one that throws loses no  *)
(* more than it has created and been given.                                *)

LosesNothing == Lost' \subseteq Lost /\ LostRanges' \subseteq LostRanges

LEMMA LosesNothingFact == LosesNothing => OnlyThrowsLose
<1> SUFFICES ASSUME LosesNothing PROVE OnlyThrowsLose
  OBVIOUS
<1>1. Lost' \ Lost = {} /\ LostRanges' \ LostRanges = {}
  BY DEF LosesNothing
<1>2. Cardinality({}) = 0
  BY FS_EmptySet
<1> QED BY <1>1, <1>2 DEF OnlyThrowsLose

LEMMA AtMostOne ==
  ASSUME NEW x, NEW S, S \subseteq {x}
  PROVE  Cardinality(S) <= 1
<1>1. S = {} \/ S = {x}
  OBVIOUS
<1>2. Cardinality({}) = 0 /\ Cardinality({x}) = 1
  BY FS_EmptySet, FS_Singleton, Zenon
<1> QED BY <1>1, <1>2

LEMMA ThrowLoses ==
  ASSUME NEW h, h \notin DOMAIN gpu.mem, NEW va, UNCHANGED <<entries_, live_bytes>>,
         Lost' \subseteq Lost \cup {h},
         LostRanges' \ LostRanges \subseteq {va} \ va_held
  PROVE  OnlyThrowsLose
<1>1. Lost' \ Lost \subseteq {h} /\ LostRanges' \ LostRanges \subseteq {va}
  OBVIOUS
<1>2. Cardinality(Lost' \ Lost) <= 1 /\ Cardinality(LostRanges' \ LostRanges) <= 1
  BY <1>1, AtMostOne
<1>3. /\ (Lost' \ Lost) \cap DOMAIN gpu.mem = {}
      /\ (LostRanges' \ LostRanges) \cap va_held = {}
  BY <1>1
<1> QED BY <1>2, <1>3 DEF OnlyThrowsLose

LEMMA SameLoses ==
  ASSUME UNCHANGED <<gpu, va_held, entries_>>
  PROVE  OnlyThrowsLose
<1>1. LosesNothing
  BY DEF LosesNothing, Lost, LostRanges, Ptrs
<1> QED BY <1>1, LosesNothingFact

LEMMA AllocateVmmLoses ==
  ASSUME AInv, NEW bytes \in Sizes, NEW tag, NEW va, NEW h,
         AllocateVmm(bytes, tag, va, h)
  PROVE  OnlyThrowsLose
<1>1. HasAllocated(bytes, tag, va, h) /\ va_held' = va_held \cup {va}
  BY AllocateVmmFacts DEF AllocateVmm
<1>2. /\ Ptrs' = Ptrs \cup {va} /\ entries_'[va].physical_handle = h
      /\ \A p \in Ptrs : entries_'[p] = entries_[p]
  BY <1>1 DEF HasAllocated, Ptrs
<1>3. Lost' \subseteq Lost
  <2> SUFFICES ASSUME NEW x \in Lost' PROVE x \in Lost
    OBVIOUS
  <2>1. x \in DOMAIN gpu'.mem
    BY DEF Lost
  <2>2. CASE gpu'.mem[x].open /\ \A p \in Ptrs' : entries_'[p].physical_handle # x
    <3>1. x # h
      BY <1>2, <2>2
    <3> QED BY <1>1, <1>2, <2>1, <2>2, <3>1 DEF Lost, HasAllocated
  <2>3. CASE \E y \in DOMAIN gpu'.maps \ Ptrs' : gpu'.maps[y].handle = x
    <3>1. PICK y \in DOMAIN gpu'.maps \ Ptrs' : gpu'.maps[y].handle = x
      BY <2>3
    <3>2. y \in DOMAIN gpu.maps \ Ptrs /\ gpu.maps[y].handle = x
      BY <1>1, <1>2, <3>1 DEF HasAllocated
    <3>3. x \in DOMAIN gpu.mem
      BY <3>2 DEF AInv, WellFormed
    <3> QED BY <3>2, <3>3 DEF Lost
  <2> QED BY <2>2, <2>3 DEF Lost
<1>4. LostRanges' \subseteq LostRanges
  BY <1>1, <1>2 DEF LostRanges
<1> QED BY <1>3, <1>4, LosesNothingFact DEF LosesNothing

(* A call that only adds memory, and maps it at va.                        *)
LEMMA GrownLost ==
  ASSUME AInv, NEW va, NEW n, NEW h, HasGrown(va, n, h), entries_' = entries_
  PROVE  h \notin DOMAIN gpu.mem /\ Lost' \subseteq Lost \cup {h}
<1>1. h \notin DOMAIN gpu.mem /\ Ptrs' = Ptrs
  BY DEF HasGrown, Ptrs
<1> SUFFICES ASSUME NEW x \in Lost', x # h PROVE x \in Lost
  BY <1>1
<1>2. x \in DOMAIN gpu'.mem
  BY DEF Lost
<1>3. x \in DOMAIN gpu.mem /\ gpu'.mem[x] = gpu.mem[x]
  BY <1>2 DEF HasGrown
<1>4. CASE gpu'.mem[x].open /\ \A p \in Ptrs' : entries_'[p].physical_handle # x
  BY <1>1, <1>3, <1>4 DEF Lost
<1>5. CASE \E y \in DOMAIN gpu'.maps \ Ptrs' : gpu'.maps[y].handle = x
  <2>1. PICK y \in DOMAIN gpu'.maps \ Ptrs' : gpu'.maps[y].handle = x
    BY <1>5
  <2>2. y \in DOMAIN gpu.maps \ Ptrs /\ gpu.maps[y].handle = x
    BY <1>1, <2>1 DEF HasGrown
  <2> QED BY <1>3, <2>2 DEF Lost
<1> QED BY <1>4, <1>5 DEF Lost

LEMMA AllocateVmmThrowsLoses ==
  ASSUME AInv, NEW bytes \in Sizes, NEW va, AllocateVmmThrows(bytes, va)
  PROVE  OnlyThrowsLose
<1>1. /\ va \in Vas \ va_held /\ va_held' = va_held \cup {va}
      /\ UNCHANGED <<entries_, live_bytes, alive>>
      /\ gpu' = gpu \/ \E h : HasGrown(va, AllocSize(bytes), h)
  BY AllocateVmmThrowsFacts
<1>2. LostRanges' \ LostRanges \subseteq {va} \ va_held
  BY <1>1 DEF LostRanges, Ptrs
<1>3. CASE gpu' = gpu
  <2>1. NoHandle \notin DOMAIN gpu.mem
    BY HandlesAssumption DEF AInv, WellFormed
  <2>2. Lost' \subseteq Lost \cup {NoHandle}
    BY <1>1, <1>3 DEF Lost, Ptrs
  <2> QED BY <1>1, <1>2, <2>1, <2>2, ThrowLoses
<1>4. CASE \E h : HasGrown(va, AllocSize(bytes), h)
  BY <1>1, <1>2, <1>4, GrownLost, ThrowLoses
<1> QED BY <1>1, <1>3, <1>4

LEMMA AllocateFallbackLoses ==
  ASSUME AInv, NEW bytes \in Sizes, NEW ptr \in Linears, AllocateFallback(bytes, ptr)
  PROVE  OnlyThrowsLose
<1>1. HasFallback(bytes, ptr) /\ va_held' = va_held
  BY AllocateFallbackFacts DEF AllocateFallback
<1>2. Lost' \subseteq Lost
  BY <1>1 DEF HasFallback, Lost
<1>3. LostRanges' \subseteq LostRanges
  BY <1>1 DEF HasFallback, LostRanges
<1> QED BY <1>2, <1>3, LosesNothingFact DEF LosesNothing

(* When an entry's memory is taken: the entry is erased, or its handle is. *)
LEMMA UnbackedLost ==
  ASSUME AInv, NEW p \in VmmPtrs, HasUnbacked(gpu', p),
         Ptrs' \subseteq Ptrs, Ptrs \ {p} \subseteq Ptrs',
         \A q \in Ptrs \ {p} : entries_'[q] = entries_[q]
  PROVE  Lost' \subseteq Lost
<1> SUFFICES ASSUME NEW x \in Lost' PROVE x \in Lost
  OBVIOUS
<1>1. x \in DOMAIN gpu'.mem /\ x \in DOMAIN gpu.mem
  BY DEF Lost, HasUnbacked, Kept
<1>2. CASE gpu'.mem[x].open /\ \A q \in Ptrs' : entries_'[q].physical_handle # x
  <2>1. x # entries_[p].physical_handle
    BY <1>1, <1>2 DEF HasUnbacked
  <2>2. gpu.mem[x].open
    BY <1>1, <1>2, <2>1 DEF HasUnbacked
  <2>3. \A q \in Ptrs : entries_[q].physical_handle # x
    BY <1>2, <2>1
  <2> QED BY <1>1, <2>2, <2>3 DEF Lost
<1>3. CASE \E y \in DOMAIN gpu'.maps \ Ptrs' : gpu'.maps[y].handle = x
  <2>1. PICK y \in DOMAIN gpu'.maps \ Ptrs' : gpu'.maps[y].handle = x
    BY <1>3
  <2>2. y \in DOMAIN gpu.maps \ Ptrs /\ gpu.maps[y].handle = x
    BY <2>1 DEF HasUnbacked
  <2> QED BY <1>1, <2>2 DEF Lost
<1> QED BY <1>2, <1>3 DEF Lost

LEMMA DeallocateLoses ==
  ASSUME AInv, NEW p \in Ptrs, Deallocate(p)
  PROVE  OnlyThrowsLose
<1>1. Ptrs' = Ptrs \ {p} /\ \A q \in Ptrs' : entries_'[q] = entries_[q]
  BY DEF Deallocate, RestrictDomain, Restrict, Ptrs
<1>2. CASE DeallocateVmm(p)
  <2>1. p \in VmmPtrs /\ HasUnbacked(gpu', p) /\ va_held' = va_held \ {p}
    BY <1>2, UnbackedFacts DEF DeallocateVmm, VmmPtrs
  <2>2. Lost' \subseteq Lost
    BY <1>1, <2>1, UnbackedLost
  <2>3. LostRanges' \subseteq LostRanges
    BY <1>1, <2>1 DEF LostRanges
  <2> QED BY <2>2, <2>3, LosesNothingFact DEF LosesNothing
<1>3. CASE DeallocateFallback(p)
  <2>1. ~entries_[p].is_vmm /\ gpu' = CuMemFree(gpu, p) /\ WellFormed(gpu) /\ va_held' = va_held
    BY <1>3 DEF DeallocateFallback, AInv
  <2>2. entries_[p].physical_handle = NoHandle /\ entries_[p].size \in Nat /\ p \notin Vas
    BY <2>1, EntryFacts DEF AInv, EntriesInv
  <2>3. gpu'.mem = gpu.mem /\ gpu'.maps = gpu.maps
    BY <2>1, <2>2, LinearFacts
  <2>4. /\ NoHandle \notin DOMAIN gpu.mem /\ DOMAIN gpu.maps \subseteq va_held
        /\ va_held \subseteq Vas
    BY HandlesAssumption DEF AInv, WellFormed, RangesInv, TypeOK
  <2>5. Lost' \subseteq Lost
    <3> SUFFICES ASSUME NEW x \in Lost' PROVE x \in Lost
      OBVIOUS
    <3>1. x \in DOMAIN gpu.mem
      BY <2>3 DEF Lost
    <3>2. CASE gpu'.mem[x].open /\ \A q \in Ptrs' : entries_'[q].physical_handle # x
      BY <1>1, <2>2, <2>3, <2>4, <3>1, <3>2 DEF Lost
    <3>3. CASE \E y \in DOMAIN gpu'.maps \ Ptrs' : gpu'.maps[y].handle = x
      BY <1>1, <2>2, <2>3, <2>4, <3>1, <3>3 DEF Lost
    <3> QED BY <3>2, <3>3 DEF Lost
  <2>6. LostRanges' \subseteq LostRanges
    BY <1>1, <2>1, <2>2, <2>4 DEF LostRanges
  <2> QED BY <2>5, <2>6, LosesNothingFact DEF LosesNothing
<1> QED BY <1>2, <1>3 DEF Deallocate

LEMMA ReleasePhysicalLoses ==
  ASSUME AInv, NEW p \in Ptrs, ReleasePhysical(p)
  PROVE  OnlyThrowsLose
<1>1. /\ p \in VmmPtrs /\ HasUnbacked(gpu', p) /\ HasAssigned(entries_', p, NoHandle)
      /\ va_held' = va_held
  BY ReleasePhysicalFacts
<1>2. Ptrs' = Ptrs /\ \A q \in Ptrs \ {p} : entries_'[q] = entries_[q]
  BY <1>1 DEF HasAssigned, Ptrs
<1>3. Lost' \subseteq Lost
  BY <1>1, <1>2, UnbackedLost
<1>4. LostRanges' \subseteq LostRanges
  BY <1>1, <1>2 DEF LostRanges
<1> QED BY <1>3, <1>4, LosesNothingFact DEF LosesNothing

LEMMA RestorePhysicalLoses ==
  ASSUME AInv, NEW p \in Ptrs, ~Resident(p), NEW h, NEW d, RestorePhysical(p, h, d)
  PROVE  OnlyThrowsLose
<1>1. /\ p \in VmmPtrs /\ HasRestored(p, h) /\ HasAssigned(entries_', p, h)
      /\ va_held' = va_held
  BY RestorePhysicalFacts
<1>2. /\ Ptrs' = Ptrs
      /\ \A q \in Ptrs : q # p => entries_'[q] = entries_[q]
      /\ entries_'[p].physical_handle = h
  BY <1>1 DEF HasAssigned, Ptrs
<1>3. entries_[p].physical_handle \notin DOMAIN gpu.mem
  BY HandlesAssumption DEF Resident, AInv, WellFormed
<1>4. Lost' \subseteq Lost
  <2> SUFFICES ASSUME NEW x \in Lost' PROVE x \in Lost
    OBVIOUS
  <2>1. x \in DOMAIN gpu'.mem
    BY DEF Lost
  <2>2. CASE gpu'.mem[x].open /\ \A q \in Ptrs' : entries_'[q].physical_handle # x
    <3>1. x # h
      BY <1>2, <2>2
    <3>2. x \in DOMAIN gpu.mem /\ gpu.mem[x].open
      BY <1>1, <2>1, <2>2, <3>1 DEF HasRestored
    <3>3. \A q \in Ptrs : entries_[q].physical_handle # x
      BY <1>2, <1>3, <2>2, <3>2
    <3> QED BY <3>2, <3>3 DEF Lost
  <2>3. CASE \E y \in DOMAIN gpu'.maps \ Ptrs' : gpu'.maps[y].handle = x
    <3>1. PICK y \in DOMAIN gpu'.maps \ Ptrs' : gpu'.maps[y].handle = x
      BY <2>3
    <3>2. y \in DOMAIN gpu.maps \ Ptrs /\ gpu.maps[y].handle = x
      BY <1>1, <1>2, <3>1 DEF HasRestored
    <3>3. x \in DOMAIN gpu.mem
      BY <3>2 DEF AInv, WellFormed
    <3> QED BY <3>2, <3>3 DEF Lost
  <2> QED BY <2>2, <2>3 DEF Lost
<1>5. LostRanges' \subseteq LostRanges
  BY <1>1, <1>2 DEF LostRanges
<1> QED BY <1>4, <1>5, LosesNothingFact DEF LosesNothing

LEMMA RestorePhysicalThrowsLoses ==
  ASSUME AInv, NEW p \in Ptrs, RestorePhysicalThrows(p)
  PROVE  OnlyThrowsLose
<1>1. /\ UNCHANGED <<va_held, entries_, live_bytes>>
      /\ gpu' = gpu \/ \E h : HasGrown(p, AllocSize(entries_[p].size), h)
  BY RestorePhysicalThrowsFacts
<1>2. LostRanges' = LostRanges
  BY <1>1 DEF LostRanges, Ptrs
<1>3. CASE gpu' = gpu
  BY <1>1, <1>3, SameLoses
<1>4. CASE \E h : HasGrown(p, AllocSize(entries_[p].size), h)
  BY <1>1, <1>2, <1>4, GrownLost, ThrowLoses
<1> QED BY <1>1, <1>3, <1>4

(* dst's memory has been taken, and src's may be mapped there.             *)
LEMMA SharedLost ==
  ASSUME AInv, NEW dst \in VmmPtrs, NEW u, HasUnbacked(u, dst), NEW h, NEW n, NEW access,
         gpu' = u \/ HasMapped(u, gpu', dst, n, h, access),
         Ptrs' = Ptrs, \A q \in Ptrs \ {dst} : entries_'[q] = entries_[q]
  PROVE  Lost' \subseteq Lost
<1> SUFFICES ASSUME NEW x \in Lost' PROVE x \in Lost
  OBVIOUS
<1>1. /\ gpu'.mem = u.mem /\ DOMAIN u.mem \subseteq DOMAIN gpu.mem
      /\ \A y \in DOMAIN gpu'.maps : y # dst =>
           y \in DOMAIN gpu.maps /\ gpu'.maps[y] = gpu.maps[y]
  BY DEF HasUnbacked, HasMapped, Kept
<1>2. x \in DOMAIN u.mem /\ x \in DOMAIN gpu.mem
  BY <1>1 DEF Lost
<1>3. CASE gpu'.mem[x].open /\ \A q \in Ptrs' : entries_'[q].physical_handle # x
  <2>1. x # entries_[dst].physical_handle
    BY <1>1, <1>2, <1>3 DEF HasUnbacked
  <2>2. gpu.mem[x].open
    BY <1>1, <1>2, <1>3, <2>1 DEF HasUnbacked
  <2>3. \A q \in Ptrs : entries_[q].physical_handle # x
    BY <1>3, <2>1
  <2> QED BY <1>2, <2>2, <2>3 DEF Lost
<1>4. CASE \E y \in DOMAIN gpu'.maps \ Ptrs' : gpu'.maps[y].handle = x
  <2>1. PICK y \in DOMAIN gpu'.maps \ Ptrs' : gpu'.maps[y].handle = x
    BY <1>4
  <2>2. y \in DOMAIN gpu.maps \ Ptrs /\ gpu.maps[y].handle = x
    BY <1>1, <2>1 DEF VmmPtrs
  <2> QED BY <1>2, <2>2 DEF Lost
<1> QED BY <1>3, <1>4 DEF Lost

LEMMA SharePhysicalLoses ==
  ASSUME AInv, NEW dst \in Ptrs, NEW src \in Ptrs,
         SharePhysical(dst, src) \/ SharePhysicalThrows(dst, src)
  PROVE  OnlyThrowsLose
<1>1. PICK u, n, h, access :
        /\ dst \in VmmPtrs /\ HasUnbacked(u, dst)
        /\ gpu' = u \/ HasMapped(u, gpu', dst, n, h, access)
        /\ Ptrs' = Ptrs /\ \A q \in Ptrs \ {dst} : entries_'[q] = entries_[q]
        /\ va_held' = va_held
  <2>1. CASE SharePhysical(dst, src)
    BY <2>1, SharePhysicalFacts DEF HasAssigned, Ptrs
  <2>2. CASE SharePhysicalThrows(dst, src)
    <3>1. /\ dst \in VmmPtrs /\ HasUnbacked(Unbacked(dst), dst)
          /\ \E n, h, access :
               gpu' = Unbacked(dst) \/ HasMapped(Unbacked(dst), gpu', dst, n, h, access)
          /\ UNCHANGED <<va_held, entries_>>
      BY <2>2, SharePhysicalThrowsFacts
    <3> QED BY <3>1 DEF Ptrs
  <2> QED BY <2>1, <2>2
<1>2. Lost' \subseteq Lost
  BY <1>1, SharedLost
<1>3. LostRanges' \subseteq LostRanges
  BY <1>1 DEF LostRanges
<1> QED BY <1>2, <1>3, LosesNothingFact DEF LosesNothing

LEMMA CarefulPhysicalLoses ==
  ASSUME AInv, CarefulPhysical
  PROVE  OnlyThrowsLose
  BY ReleasePhysicalLoses, RestorePhysicalLoses, RestorePhysicalThrowsLoses,
     SharePhysicalLoses DEF CarefulPhysical

LEMMA WriteLoses ==
  ASSUME AInv, NEW ptr, NEW d, gpu' = Write(gpu, ptr, d), UNCHANGED <<va_held, entries_>>
  PROVE  OnlyThrowsLose
<1>1. /\ gpu'.maps = gpu.maps /\ DOMAIN gpu'.mem = DOMAIN gpu.mem
      /\ \A h \in DOMAIN gpu.mem : gpu'.mem[h].open = gpu.mem[h].open
  BY WriteFacts DEF AInv
<1>2. LosesNothing
  BY <1>1 DEF LosesNothing, Lost, LostRanges, Ptrs
<1> QED BY <1>2, LosesNothingFact

-----------------------------------------------------------------------------
(* What the memory holds.                                                  *)

(* Memory and buffers that are there before and after a call hold what     *)
(* they held.                                                              *)
KeepsContents ==
  /\ \A h \in DOMAIN gpu.mem \cap DOMAIN gpu'.mem : gpu'.mem[h].data = gpu.mem[h].data
  /\ \A q \in DOMAIN gpu.linear \cap DOMAIN gpu'.linear :
       gpu'.linear[q].data = gpu.linear[q].data

LEMMA ContentsKept ==
  ASSUME AInv, Mirrored, AInv', Mirrored', KeepsContents,
         NEW p \in Ptrs \cap Ptrs', Resident(p), entries_'[p] = entries_[p]
  PROVE  Contents(gpu', p) = Contents(gpu, p)
<1>1. Resident(p)'
  BY DEF Resident
<1>2. CASE entries_[p].is_vmm
  <2> DEFINE h == entries_[p].physical_handle
  <2>1. p \in VmmPtrs /\ p \in VmmPtrs'
    BY <1>2 DEF VmmPtrs
  <2>2. /\ Accessible(gpu, p) /\ gpu.maps[p].handle = h
        /\ Accessible(gpu', p) /\ gpu'.maps[p].handle = h
    BY <1>1, <2>1 DEF Mirrored
  <2>3. h \in DOMAIN gpu.mem /\ h \in DOMAIN gpu'.mem
    BY <2>2 DEF AInv, WellFormed, Accessible
  <2> HIDE DEF h
  <2> QED BY <2>2, <2>3 DEF KeepsContents, Contents
<1>3. CASE ~entries_[p].is_vmm
  <2>1. p \in Linears /\ p \notin Vas
    BY <1>3, EntryFacts, PointersAssumption
  <2>2. /\ p \notin DOMAIN gpu.maps /\ p \notin DOMAIN gpu'.maps
        /\ p \in DOMAIN gpu.linear /\ p \in DOMAIN gpu'.linear
    BY <2>1 DEF AInv, RangesInv, TypeOK
  <2> QED BY <2>2 DEF KeepsContents, Contents, Accessible
<1>4. entries_[p].is_vmm \in BOOLEAN
  BY EntryFacts
<1> QED BY <1>2, <1>3, <1>4

LEMMA AllocateVmmContents ==
  ASSUME AInv, NEW bytes \in Sizes, NEW tag, NEW va, NEW h,
         AllocateVmm(bytes, tag, va, h)
  PROVE  KeepsContents
<1>1. HasAllocated(bytes, tag, va, h)
  BY AllocateVmmFacts
<1> QED BY <1>1 DEF HasAllocated, KeepsContents

LEMMA AllocateVmmThrowsContents ==
  ASSUME AInv, NEW bytes \in Sizes, NEW va, AllocateVmmThrows(bytes, va)
  PROVE  KeepsContents
<1>1. gpu' = gpu \/ \E h : HasGrown(va, AllocSize(bytes), h)
  BY AllocateVmmThrowsFacts
<1> QED BY <1>1 DEF HasGrown, KeepsContents

LEMMA AllocateFallbackContents ==
  ASSUME AInv, NEW bytes \in Sizes, NEW ptr \in Linears, AllocateFallback(bytes, ptr)
  PROVE  KeepsContents
<1>1. /\ gpu' = CuMemAlloc(gpu, ptr, bytes) /\ ptr \notin DOMAIN gpu.linear
      /\ WellFormed(gpu) /\ bytes \in Nat
  BY SizesAssumption DEF AllocateFallback, AInv
<1>2. /\ gpu'.mem = gpu.mem
      /\ \A p \in DOMAIN gpu.linear : p # ptr => gpu'.linear[p] = gpu.linear[p]
  BY <1>1, LinearFacts
<1> QED BY <1>1, <1>2 DEF KeepsContents

LEMMA DeallocateContents ==
  ASSUME AInv, NEW p \in Ptrs, Deallocate(p)
  PROVE  KeepsContents
<1>1. CASE DeallocateVmm(p)
  <2>1. HasUnbacked(gpu', p)
    BY <1>1, UnbackedFacts DEF DeallocateVmm, VmmPtrs
  <2> QED BY <2>1 DEF HasUnbacked, Kept, KeepsContents
<1>2. CASE DeallocateFallback(p)
  <2>1. gpu' = CuMemFree(gpu, p) /\ WellFormed(gpu) /\ 0 \in Nat
    BY <1>2 DEF DeallocateFallback, AInv
  <2>2. /\ CuMemFree(gpu, p).mem = gpu.mem
        /\ \A q \in DOMAIN CuMemFree(gpu, p).linear :
             CuMemFree(gpu, p).linear[q] = gpu.linear[q]
    BY <2>1, LinearFacts, Zenon
  <2> QED BY <2>1, <2>2 DEF KeepsContents
<1> QED BY <1>1, <1>2 DEF Deallocate

LEMMA CarefulPhysicalContents ==
  ASSUME AInv, CarefulPhysical
  PROVE  KeepsContents
<1>1. ASSUME NEW p \in Ptrs, ReleasePhysical(p)
      PROVE  KeepsContents
  BY <1>1, ReleasePhysicalFacts DEF HasUnbacked, Kept, KeepsContents
<1>2. ASSUME NEW p \in Ptrs, NEW h \in Handles, NEW d \in Data, RestorePhysical(p, h, d)
      PROVE  KeepsContents
  <2>1. HasRestored(p, h)
    BY <1>2, RestorePhysicalFacts
  <2> QED BY <2>1 DEF HasRestored, KeepsContents
<1>3. ASSUME NEW p \in Ptrs, RestorePhysicalThrows(p)
      PROVE  KeepsContents
  <2>1. gpu' = gpu \/ \E h : HasGrown(p, AllocSize(entries_[p].size), h)
    BY <1>3, RestorePhysicalThrowsFacts
  <2> QED BY <2>1 DEF HasGrown, KeepsContents
<1>4. ASSUME NEW dst \in Ptrs, NEW src \in Ptrs, SharePhysical(dst, src)
      PROVE  KeepsContents
  <2>1. /\ HasUnbacked(Unbacked(dst), dst)
        /\ HasMapped(Unbacked(dst), gpu', dst, AllocSize(entries_[dst].size),
                     entries_[src].physical_handle, TRUE)
    BY <1>4, SharePhysicalFacts
  <2> QED BY <2>1 DEF HasUnbacked, HasMapped, Kept, KeepsContents
<1> QED BY <1>1, <1>2, <1>3, <1>4 DEF CarefulPhysical

-----------------------------------------------------------------------------
(* Bytes are counted.                                                      *)

Weights(f) == [x \in DOMAIN f |-> f[x].size]

LEMMA BytesSum ==
  ASSUME NEW f
  PROVE  Bytes(f) = SumFunctionOnSet(Weights(f), DOMAIN f)
<1>1. DOMAIN Weights(f) = DOMAIN f
  BY DEF Weights
<1> QED BY <1>1 DEF Bytes, SumFunction, Weights

HasSizes(f) == IsFiniteSet(DOMAIN f) /\ \A x \in DOMAIN f : f[x].size \in Nat

LEMMA BytesNat ==
  ASSUME NEW f, HasSizes(f)
  PROVE  Bytes(f) \in Nat /\ Weighs(Weights(f), DOMAIN f)
<1>1. Weighs(Weights(f), DOMAIN f)
  BY DEF HasSizes, Weighs, Weights
<1> QED BY <1>1, BytesSum, SumNat DEF HasSizes

LEMMA BytesAtMost ==
  ASSUME NEW f, HasSizes(f), NEW r, DOMAIN r \subseteq DOMAIN f,
         \A x \in DOMAIN r : r[x].size = f[x].size
  PROVE  HasSizes(r) /\ Bytes(r) <= Bytes(f)
<1>1. HasSizes(r)
  BY FS_Subset DEF HasSizes
<1> DEFINE at == [x \in DOMAIN r |-> x]
<1>2. /\ \A x \in DOMAIN r : at[x] \in DOMAIN f /\ Weights(r)[x] <= Weights(f)[at[x]]
      /\ \A x, y \in DOMAIN r : at[x] = at[y] => x = y
  BY <1>1 DEF HasSizes, Weights
<1> HIDE DEF at
<1>3. /\ IsFiniteSet(DOMAIN f) /\ Weighs(Weights(f), DOMAIN f)
      /\ IsFiniteSet(DOMAIN r) /\ Weighs(Weights(r), DOMAIN r)
  BY <1>1, BytesNat DEF HasSizes
<1>4. SumFunctionOnSet(Weights(r), DOMAIN r) <= SumFunctionOnSet(Weights(f), DOMAIN f)
  BY <1>2, <1>3, SumAtMost
<1> QED BY <1>1, <1>4, BytesSum

LEMMA BytesAdded ==
  ASSUME NEW f, HasSizes(f), NEW r, NEW x, x \notin DOMAIN f, DOMAIN r = DOMAIN f \cup {x},
         r[x].size \in Nat, \A y \in DOMAIN f : r[y].size = f[y].size
  PROVE  HasSizes(r) /\ Bytes(r) = r[x].size + Bytes(f)
<1>1. HasSizes(r) /\ IsFiniteSet(DOMAIN f)
  BY FS_AddElement DEF HasSizes
<1>2. Weighs(Weights(r), DOMAIN f \cup {x}) /\ Weights(r)[x] = r[x].size
  BY <1>1, BytesNat DEF Weights
<1>3. \A y \in DOMAIN f : Weights(r)[y] = Weights(f)[y]
  BY DEF Weights
<1>4. SumFunctionOnSet(Weights(r), DOMAIN f \cup {x})
        = r[x].size + SumFunctionOnSet(Weights(r), DOMAIN f)
  BY <1>1, <1>2, SumAdds
<1>5. SumFunctionOnSet(Weights(r), DOMAIN f) = SumFunctionOnSet(Weights(f), DOMAIN f)
  BY <1>1, <1>3, SumSame
<1> QED BY <1>1, <1>4, <1>5, BytesSum

(* Memory is never overcommitted.                                          *)
MemoryFits ==
  /\ HasSizes(gpu.mem) /\ HasSizes(gpu.linear)
  /\ Bytes(gpu.mem) + Bytes(gpu.linear) <= Vram

LEMMA MemoryKept ==
  ASSUME MemoryFits,
         DOMAIN gpu'.mem \subseteq DOMAIN gpu.mem,
         \A h \in DOMAIN gpu'.mem : gpu'.mem[h].size = gpu.mem[h].size,
         DOMAIN gpu'.linear \subseteq DOMAIN gpu.linear,
         \A p \in DOMAIN gpu'.linear : gpu'.linear[p].size = gpu.linear[p].size
  PROVE  MemoryFits'
<1>1. /\ HasSizes(gpu.mem) /\ HasSizes(gpu.linear)
      /\ Bytes(gpu.mem) + Bytes(gpu.linear) <= Vram
  BY DEF MemoryFits
<1>2. HasSizes(gpu'.mem) /\ Bytes(gpu'.mem) <= Bytes(gpu.mem)
  BY <1>1, BytesAtMost
<1>3. HasSizes(gpu'.linear) /\ Bytes(gpu'.linear) <= Bytes(gpu.linear)
  BY <1>1, BytesAtMost
<1>4. /\ Bytes(gpu.mem) \in Nat /\ Bytes(gpu.linear) \in Nat
      /\ Bytes(gpu'.mem) \in Nat /\ Bytes(gpu'.linear) \in Nat
  BY <1>1, <1>2, <1>3, BytesNat
<1> QED BY <1>1, <1>2, <1>3, <1>4, VramAssumption DEF MemoryFits

LEMMA MemoryCreated ==
  ASSUME MemoryFits, NEW n \in Nat, Room(gpu, n),
         NEW h, h \notin DOMAIN gpu.mem, DOMAIN gpu'.mem = DOMAIN gpu.mem \cup {h},
         gpu'.mem[h].size = n, \A x \in DOMAIN gpu.mem : gpu'.mem[x].size = gpu.mem[x].size,
         gpu'.linear = gpu.linear
  PROVE  MemoryFits'
<1>1. /\ HasSizes(gpu.mem) /\ HasSizes(gpu.linear)
      /\ Bytes(gpu.mem) + Bytes(gpu.linear) + n <= Vram
  BY DEF MemoryFits, Room
<1>2. HasSizes(gpu'.mem) /\ Bytes(gpu'.mem) = n + Bytes(gpu.mem)
  BY <1>1, BytesAdded
<1>3. Bytes(gpu.mem) \in Nat /\ Bytes(gpu.linear) \in Nat
  BY <1>1, BytesNat
<1> QED BY <1>1, <1>2, <1>3, VramAssumption DEF MemoryFits

LEMMA LinearCreated ==
  ASSUME MemoryFits, NEW n \in Nat, Room(gpu, n),
         NEW p, p \notin DOMAIN gpu.linear, gpu' = CuMemAlloc(gpu, p, n), WellFormed(gpu)
  PROVE  MemoryFits' /\ gpu'.linear[p].size = n
<1>1. /\ HasSizes(gpu.mem) /\ HasSizes(gpu.linear)
      /\ Bytes(gpu.mem) + Bytes(gpu.linear) + n <= Vram
  BY DEF MemoryFits, Room
<1>2. /\ gpu'.mem = gpu.mem /\ DOMAIN gpu'.linear = DOMAIN gpu.linear \cup {p}
      /\ \A x \in DOMAIN gpu.linear : gpu'.linear[x] = gpu.linear[x]
  BY LinearFacts
<1>3. gpu'.linear[p].size = n
  BY GpuExcept DEF CuMemAlloc, Put, WellFormed
<1>4. HasSizes(gpu'.linear) /\ Bytes(gpu'.linear) = n + Bytes(gpu.linear)
  BY <1>1, <1>2, <1>3, BytesAdded
<1>5. Bytes(gpu.mem) \in Nat /\ Bytes(gpu.linear) \in Nat
  BY <1>1, BytesNat
<1> QED BY <1>1, <1>2, <1>3, <1>4, <1>5, VramAssumption DEF MemoryFits

(* What is known of sizes, whatever a client calls and whatever throws.    *)
FallbackSizes == \A p \in Linears \cap Ptrs : entries_[p].size = gpu.linear[p].size

MeterInv == IsFiniteSet(Ptrs) /\ MemoryFits /\ FallbackSizes

LEMMA InitMeter == Init => MeterInv
<1> SUFFICES ASSUME Init PROVE MeterInv
  OBVIOUS
<1>1. gpu.mem = << >> /\ gpu.linear = << >> /\ Ptrs = {} /\ DOMAIN << >> = {}
  BY DEF Init, NoMemory, Ptrs
<1>2. HasSizes(<< >>) /\ Bytes(<< >>) = 0
  BY <1>1, BytesSum, SumEmpty, FS_EmptySet DEF HasSizes
<1> QED BY <1>1, <1>2, FS_EmptySet, VramAssumption DEF MeterInv, MemoryFits, FallbackSizes

LEMMA AllocateVmmMeter ==
  ASSUME AInv, MeterInv, NEW bytes \in Sizes, NEW tag, NEW va, NEW h,
         AllocateVmm(bytes, tag, va, h)
  PROVE  MeterInv'
<1>1. HasAllocated(bytes, tag, va, h)
  BY AllocateVmmFacts
<1>2. AllocSize(bytes) \in Nat /\ Room(gpu, AllocSize(bytes))
  BY AllocSizeFacts, SizesAssumption DEF AllocateVmm
<1>3. MemoryFits'
  BY <1>1, <1>2, MemoryCreated DEF HasAllocated, MeterInv
<1>4. va \notin Linears /\ Ptrs' = Ptrs \cup {va}
  BY <1>1, PointersAssumption DEF HasAllocated, Ptrs
<1>5. IsFiniteSet(Ptrs')
  BY <1>4, FS_AddElement DEF MeterInv
<1>6. FallbackSizes'
  BY <1>1, <1>4 DEF HasAllocated, MeterInv, FallbackSizes
<1> QED BY <1>3, <1>5, <1>6 DEF MeterInv

LEMMA AllocateFallbackMeter ==
  ASSUME AInv, MeterInv, NEW bytes \in Sizes, NEW ptr \in Linears,
         AllocateFallback(bytes, ptr)
  PROVE  MeterInv'
<1>1. HasFallback(bytes, ptr)
  BY AllocateFallbackFacts
<1>2. /\ gpu' = CuMemAlloc(gpu, ptr, bytes) /\ ptr \notin DOMAIN gpu.linear
      /\ Room(gpu, bytes) /\ bytes \in Nat /\ WellFormed(gpu)
  BY SizesAssumption DEF AllocateFallback, AInv
<1>3. MemoryFits' /\ gpu'.linear[ptr].size = bytes
  BY <1>2, LinearCreated DEF MeterInv
<1>4. \A p \in DOMAIN gpu.linear : gpu'.linear[p] = gpu.linear[p]
  BY <1>2, LinearFacts
<1>5. Ptrs' = Ptrs \cup {ptr} /\ IsFiniteSet(Ptrs')
  BY <1>1, FS_AddElement DEF HasFallback, MeterInv
<1>6. entries_'[ptr].size = bytes
  BY <1>1 DEF HasFallback, FallbackEntry
<1>7. \A p \in Linears \cap Ptrs : p \in DOMAIN gpu.linear /\ p # ptr
  BY <1>2 DEF AInv, RangesInv
<1>8. FallbackSizes'
  BY <1>1, <1>3, <1>4, <1>5, <1>6, <1>7 DEF HasFallback, MeterInv, FallbackSizes
<1> QED BY <1>3, <1>5, <1>8 DEF MeterInv

LEMMA DeallocateMeter ==
  ASSUME AInv, MeterInv, NEW p \in Ptrs, Deallocate(p)
  PROVE  MeterInv'
<1>1. Ptrs' = Ptrs \ {p} /\ \A q \in Ptrs' : entries_'[q] = entries_[q]
  BY DEF Deallocate, RestrictDomain, Restrict, Ptrs
<1>2. IsFiniteSet(Ptrs')
  BY <1>1, FS_RemoveElement DEF MeterInv
<1>3. CASE DeallocateVmm(p)
  <2>1. HasUnbacked(gpu', p)
    BY <1>3, UnbackedFacts DEF DeallocateVmm, VmmPtrs
  <2>2. MemoryFits'
    BY <2>1, MemoryKept DEF HasUnbacked, Kept, MeterInv
  <2> QED BY <1>1, <1>2, <2>1, <2>2 DEF HasUnbacked, MeterInv, FallbackSizes
<1>4. CASE DeallocateFallback(p)
  <2>1. gpu' = CuMemFree(gpu, p) /\ WellFormed(gpu) /\ entries_[p].size \in Nat
    BY <1>4, EntryFacts DEF DeallocateFallback, AInv
  <2>2. /\ gpu'.mem = gpu.mem /\ DOMAIN gpu'.linear = DOMAIN gpu.linear \ {p}
        /\ \A q \in DOMAIN gpu'.linear : gpu'.linear[q] = gpu.linear[q]
    <3>1. LET r == CuMemFree(gpu, p)
          IN /\ r.mem = gpu.mem /\ DOMAIN r.linear = DOMAIN gpu.linear \ {p}
             /\ \A q \in DOMAIN r.linear : r.linear[q] = gpu.linear[q]
      BY <2>1, LinearFacts, Zenon
    <3> QED BY <2>1, <3>1
  <2>3. MemoryFits'
    BY <2>2, MemoryKept DEF MeterInv
  <2>4. Linears \cap Ptrs \subseteq DOMAIN gpu.linear
    BY DEF AInv, RangesInv
  <2> QED BY <1>1, <1>2, <2>2, <2>3, <2>4 DEF MeterInv, FallbackSizes
<1> QED BY <1>3, <1>4 DEF Deallocate

LEMMA PhysicalMeter ==
  ASSUME MeterInv, MemoryFits', gpu'.linear = gpu.linear,
         Ptrs' = Ptrs, \A p \in Ptrs : entries_'[p].size = entries_[p].size
  PROVE  MeterInv'
  BY DEF MeterInv, FallbackSizes

LEMMA ReleasePhysicalMeter ==
  ASSUME AInv, MeterInv, NEW p \in Ptrs, ReleasePhysical(p)
  PROVE  MeterInv'
<1>1. HasUnbacked(gpu', p) /\ HasAssigned(entries_', p, NoHandle)
  BY ReleasePhysicalFacts
<1>2. MemoryFits'
  BY <1>1, MemoryKept DEF HasUnbacked, Kept, MeterInv
<1> QED BY <1>1, <1>2, PhysicalMeter DEF HasUnbacked, HasAssigned, Ptrs

LEMMA RestorePhysicalMeter ==
  ASSUME AInv, MeterInv, NEW p \in Ptrs, NEW h, NEW d, RestorePhysical(p, h, d)
  PROVE  MeterInv'
<1>1. HasRestored(p, h) /\ HasAssigned(entries_', p, h)
  BY RestorePhysicalFacts
<1>2. AllocSize(entries_[p].size) \in Nat /\ Room(gpu, AllocSize(entries_[p].size))
  BY EntryFacts DEF RestorePhysical
<1>3. MemoryFits'
  BY <1>1, <1>2, MemoryCreated DEF HasRestored, MeterInv
<1> QED BY <1>1, <1>3, PhysicalMeter DEF HasRestored, HasAssigned, Ptrs

LEMMA GrownMeter ==
  ASSUME MeterInv, NEW va, NEW n \in Nat, Room(gpu, n), NEW h, HasGrown(va, n, h),
         entries_' = entries_
  PROVE  MeterInv'
<1>1. MemoryFits'
  BY MemoryCreated DEF HasGrown, MeterInv
<1> QED BY <1>1, PhysicalMeter DEF HasGrown, Ptrs

LEMMA AllocateVmmThrowsMeter ==
  ASSUME AInv, MeterInv, NEW bytes \in Sizes, NEW va, AllocateVmmThrows(bytes, va)
  PROVE  MeterInv'
<1> DEFINE n == AllocSize(bytes)
<1>1. /\ entries_' = entries_ /\ n \in Nat
      /\ IF Room(gpu, n) THEN \E h : HasGrown(va, n, h) ELSE gpu' = gpu
  BY AllocateVmmThrowsFacts
<1> HIDE DEF n
<1>2. CASE Room(gpu, n)
  BY <1>1, <1>2, GrownMeter
<1>3. CASE gpu' = gpu
  BY <1>1, <1>3 DEF MeterInv, MemoryFits, FallbackSizes, Ptrs
<1> QED BY <1>1, <1>2, <1>3

LEMMA RestorePhysicalThrowsMeter ==
  ASSUME AInv, MeterInv, NEW p \in Ptrs, RestorePhysicalThrows(p)
  PROVE  MeterInv'
<1> DEFINE n == AllocSize(entries_[p].size)
<1>1. /\ entries_' = entries_ /\ n \in Nat
      /\ IF Room(gpu, n) THEN \E h : HasGrown(p, n, h) ELSE gpu' = gpu
  BY RestorePhysicalThrowsFacts
<1> HIDE DEF n
<1>2. CASE Room(gpu, n)
  BY <1>1, <1>2, GrownMeter
<1>3. CASE gpu' = gpu
  BY <1>1, <1>3 DEF MeterInv, MemoryFits, FallbackSizes, Ptrs
<1> QED BY <1>1, <1>2, <1>3

LEMMA SharePhysicalMeter ==
  ASSUME AInv, MeterInv, NEW dst \in Ptrs, NEW src \in Ptrs,
         SharePhysical(dst, src) \/ SharePhysicalThrows(dst, src)
  PROVE  MeterInv'
<1>1. PICK u, n, h, access :
        /\ HasUnbacked(u, dst)
        /\ gpu' = u \/ HasMapped(u, gpu', dst, n, h, access)
        /\ Ptrs' = Ptrs /\ \A q \in Ptrs : entries_'[q].size = entries_[q].size
  <2>1. CASE SharePhysical(dst, src)
    BY <2>1, SharePhysicalFacts DEF HasAssigned, Ptrs
  <2>2. CASE SharePhysicalThrows(dst, src)
    <3>1. /\ HasUnbacked(Unbacked(dst), dst)
          /\ \E n, h, access :
               gpu' = Unbacked(dst) \/ HasMapped(Unbacked(dst), gpu', dst, n, h, access)
          /\ entries_' = entries_
      BY <2>2, SharePhysicalThrowsFacts
    <3> QED BY <3>1 DEF Ptrs
  <2> QED BY <2>1, <2>2
<1>2. gpu'.mem = u.mem /\ gpu'.linear = gpu.linear /\ Kept(gpu, u)
  BY <1>1 DEF HasUnbacked, HasMapped
<1>3. MemoryFits'
  BY <1>2, MemoryKept DEF Kept, MeterInv
<1> QED BY <1>1, <1>2, <1>3, PhysicalMeter

LEMMA PhysicalNextMeter ==
  ASSUME AInv, MeterInv, PhysicalNext
  PROVE  MeterInv'
  BY ReleasePhysicalMeter, RestorePhysicalMeter, RestorePhysicalThrowsMeter,
     SharePhysicalMeter DEF PhysicalNext

LEMMA WriteMeter ==
  ASSUME AInv, MeterInv, NEW ptr, NEW d, gpu' = Write(gpu, ptr, d), UNCHANGED entries_
  PROVE  MeterInv'
<1>1. WellFormed(gpu)
  BY DEF AInv
<1>2. /\ DOMAIN gpu'.mem = DOMAIN gpu.mem /\ DOMAIN gpu'.linear = DOMAIN gpu.linear
      /\ \A h \in DOMAIN gpu.mem : gpu'.mem[h].size = gpu.mem[h].size
  BY <1>1, WriteFacts
<1>3. \A p \in DOMAIN gpu.linear : gpu'.linear[p].size = gpu.linear[p].size
  BY <1>1 DEF Write, WellFormed, IsGpu, IsBuffer
<1>4. MemoryFits'
  BY <1>2, <1>3, MemoryKept DEF MeterInv
<1>5. Linears \cap Ptrs \subseteq DOMAIN gpu.linear /\ Ptrs' = Ptrs
  BY DEF AInv, RangesInv, Ptrs
<1> QED BY <1>3, <1>4, <1>5 DEF MeterInv, FallbackSizes

LEMMA SameMeter ==
  ASSUME MeterInv, UNCHANGED <<gpu, entries_>>
  PROVE  MeterInv'
  BY DEF MeterInv, MemoryFits, FallbackSizes, Ptrs

-----------------------------------------------------------------------------
(* live_bytes is the sum of the sizes of the buffers that have memory, as  *)
(* long as that sum is a std::size_t.                                      *)

Residents == {p \in Ptrs : Resident(p)}
Exact == live_bytes = BytesOf(Residents)
Countable == BytesOf(Residents) < SizeMod

LEMMA ExactFact == (alive => Exact) => LiveBytesExact
  BY DEF Exact, Residents, LiveBytesExact

LEMMA TotalSum ==
  ASSUME NEW e, NEW S, IsFiniteSet(S), S \subseteq DOMAIN e
  PROVE  SumFunction([p \in S |-> e[p].size]) = SumFunctionOnSet(Weights(e), S)
<1> DEFINE w == [p \in S |-> e[p].size]
<1>1. DOMAIN w = S /\ \A p \in S : w[p] = Weights(e)[p]
  BY DEF Weights
<1> HIDE DEF w
<1>2. SumFunction(w) = SumFunctionOnSet(w, S)
  BY <1>1 DEF SumFunction
<1>3. SumFunctionOnSet(w, S) = SumFunctionOnSet(Weights(e), S)
  BY <1>1, SumSame
<1> QED BY <1>2, <1>3 DEF w

(* The sum over some of the entries, in this state.                        *)
LEMMA SizesTotal ==
  ASSUME AInv, MeterInv, NEW S \in SUBSET Ptrs
  PROVE  /\ IsFiniteSet(S) /\ Weighs(Weights(entries_), S)
         /\ BytesOf(S) = SumFunctionOnSet(Weights(entries_), S)
         /\ BytesOf(S) \in Nat
<1>1. IsFiniteSet(S) /\ S \subseteq DOMAIN entries_
  BY FS_Subset DEF MeterInv, Ptrs
<1>2. \A p \in Ptrs : entries_[p].size \in Nat
  BY EntryFacts
<1>3. Weighs(Weights(entries_), S)
  BY <1>1, <1>2 DEF Weighs, Weights, Ptrs
<1>4. BytesOf(S) = SumFunctionOnSet(Weights(entries_), S)
  BY <1>1, TotalSum DEF BytesOf
<1> QED BY <1>1, <1>3, <1>4, SumNat

LEMMA CountAdds ==
  ASSUME AInv, MeterInv, MeterInv', Countable', Exact,
         NEW x, x \notin Residents, Residents' = Residents \cup {x}, NEW n \in Nat,
         entries_'[x].size = n, live_bytes' = Plus(n),
         \A p \in Residents : entries_'[p].size = entries_[p].size
  PROVE  Exact'
<1> DEFINE w == Weights(entries_)
           v == Weights(entries_')
           R == Residents
<1>1. /\ R \in SUBSET Ptrs /\ R \subseteq DOMAIN entries_
      /\ R \cup {x} \subseteq DOMAIN entries_'
  BY DEF Residents, Ptrs
<1>2. /\ IsFiniteSet(R) /\ Weighs(w, R)
      /\ BytesOf(R) = SumFunctionOnSet(w, R) /\ SumFunctionOnSet(w, R) \in Nat
  BY <1>1, SizesTotal
<1>3. IsFiniteSet(R \cup {x})
  BY <1>2, FS_AddElement
<1>4. v[x] = n /\ \A p \in R : v[p] = w[p]
  BY <1>1 DEF Weights
<1>5. BytesOf(Residents)' = SumFunctionOnSet(v, R \cup {x})
  BY <1>1, <1>3, TotalSum DEF BytesOf
<1> HIDE DEF w, v, R
<1>6. Weighs(v, R \cup {x})
  BY <1>2, <1>4 DEF Weighs
<1>7. SumFunctionOnSet(v, R \cup {x}) = n + SumFunctionOnSet(v, R)
  BY <1>2, <1>4, <1>6, SumAdds DEF R
<1>8. SumFunctionOnSet(v, R) = SumFunctionOnSet(w, R)
  BY <1>2, <1>4, SumSame
<1>9. live_bytes = SumFunctionOnSet(w, R)
  BY <1>2 DEF Exact, R
<1>10. live_bytes + n = BytesOf(Residents)' /\ live_bytes + n < SizeMod /\ live_bytes \in Nat
  BY <1>2, <1>5, <1>7, <1>8, <1>9 DEF Countable
<1>11. (live_bytes + n) % SizeMod = live_bytes + n
  BY <1>10, SizeModAssumption
<1> QED BY <1>10, <1>11 DEF Exact, Plus

LEMMA CountDrops ==
  ASSUME AInv, MeterInv, Exact,
         NEW x \in Residents, Residents' = Residents \ {x},
         live_bytes' = Minus(entries_[x].size),
         \A p \in Residents' : entries_'[p].size = entries_[p].size
  PROVE  Exact'
<1> DEFINE w == Weights(entries_)
           v == Weights(entries_')
           R == Residents
           n == entries_[x].size
<1>1. R \in SUBSET Ptrs /\ R \ {x} \in SUBSET Ptrs /\ R \ {x} \subseteq DOMAIN entries_'
  BY DEF Residents, Ptrs
<1>2. /\ IsFiniteSet(R) /\ Weighs(w, R) /\ IsFiniteSet(R \ {x})
      /\ BytesOf(R) = SumFunctionOnSet(w, R) /\ SumFunctionOnSet(w, R \ {x}) \in Nat
  BY <1>1, SizesTotal
<1>3. w[x] = n /\ \A p \in R \ {x} : v[p] = w[p]
  BY <1>1 DEF Weights, Ptrs
<1>4. BytesOf(Residents)' = SumFunctionOnSet(v, R \ {x})
  BY <1>1, <1>2, TotalSum DEF BytesOf
<1>5. n \in Nat
  BY <1>1, EntryFacts
<1> HIDE DEF w, v, R, n
<1>6. SumFunctionOnSet(w, R) = n + SumFunctionOnSet(w, R \ {x})
  BY <1>2, <1>3, SumTakes DEF R
<1>7. SumFunctionOnSet(v, R \ {x}) = SumFunctionOnSet(w, R \ {x})
  BY <1>2, <1>3, SumSame
<1>8. live_bytes \in 0 .. SizeMod - 1 /\ live_bytes = SumFunctionOnSet(w, R)
  BY <1>2 DEF Exact, R, AInv, TypeOK
<1>9. live_bytes - n = SumFunctionOnSet(w, R \ {x}) /\ live_bytes - n \in 0 .. SizeMod - 1
  <2> DEFINE rest == SumFunctionOnSet(w, R \ {x})
  <2>1. rest \in Nat /\ live_bytes = n + rest /\ live_bytes \in Nat /\ live_bytes <= SizeMod - 1
    BY <1>2, <1>6, <1>8, SizeModAssumption
  <2> HIDE DEF rest
  <2>2. live_bytes - n = rest /\ live_bytes - n \in 0 .. SizeMod - 1
    BY <1>5, <2>1, SizeModAssumption
  <2> QED BY <2>2 DEF rest
<1>10. (live_bytes - n) % SizeMod = live_bytes - n
  BY <1>9, SizeModAssumption
<1> QED BY <1>4, <1>7, <1>9, <1>10 DEF Exact, Minus, n

LEMMA CountSame ==
  ASSUME AInv, MeterInv, Exact, Residents' = Residents, UNCHANGED live_bytes,
         \A p \in Residents : entries_'[p].size = entries_[p].size
  PROVE  Exact'
<1> DEFINE w == Weights(entries_)
           v == Weights(entries_')
           R == Residents
<1>1. R \in SUBSET Ptrs /\ R \subseteq DOMAIN entries_'
  BY DEF Residents, Ptrs
<1>2. IsFiniteSet(R) /\ BytesOf(R) = SumFunctionOnSet(w, R)
  BY <1>1, SizesTotal
<1>3. \A p \in R : v[p] = w[p]
  BY <1>1 DEF Weights, Ptrs
<1>4. BytesOf(Residents)' = SumFunctionOnSet(v, R)
  BY <1>1, <1>2, TotalSum DEF BytesOf
<1> HIDE DEF w, v, R
<1>5. SumFunctionOnSet(v, R) = SumFunctionOnSet(w, R)
  BY <1>2, <1>3, SumSame
<1> QED BY <1>2, <1>4, <1>5 DEF Exact, R

LEMMA SameExact ==
  ASSUME Exact, UNCHANGED <<entries_, live_bytes>>
  PROVE  Exact'
  BY DEF Exact, BytesOf, Residents, Resident, Ptrs

LEMMA InitExact == Init => Exact
<1> SUFFICES ASSUME Init PROVE Exact
  OBVIOUS
<1>1. Residents = {} /\ live_bytes = 0
  BY DEF Init, Residents, Ptrs
<1>2. SumFunction([p \in {} |-> entries_[p].size]) = 0
  BY TotalSum, SumEmpty, FS_EmptySet
<1> QED BY <1>1, <1>2 DEF Exact, BytesOf

LEMMA AllocateVmmExact ==
  ASSUME AInv, MeterInv, Countable', Exact, NEW bytes \in Sizes, NEW tag, NEW va, NEW h,
         AllocateVmm(bytes, tag, va, h)
  PROVE  Exact'
<1>1. MeterInv'
  BY AllocateVmmMeter
<1>2. HasAllocated(bytes, tag, va, h) /\ live_bytes' = Plus(bytes) /\ bytes \in Nat
  BY AllocateVmmFacts, SizesAssumption DEF AllocateVmm
<1>3. /\ va \notin Ptrs /\ Ptrs' = Ptrs \cup {va} /\ entries_'[va].size = bytes
      /\ \A p \in Ptrs : entries_'[p] = entries_[p]
      /\ entries_'[va].physical_handle # NoHandle
  BY <1>2, HandlesAssumption DEF HasAllocated, Ptrs
<1>4. /\ va \notin Residents /\ Residents' = Residents \cup {va}
      /\ \A p \in Residents : entries_'[p].size = entries_[p].size
  BY <1>3 DEF Residents, Resident
<1> QED BY <1>1, <1>2, <1>3, <1>4, CountAdds

LEMMA AllocateFallbackExact ==
  ASSUME AInv, MeterInv, Countable', Exact, NEW bytes \in Sizes, NEW ptr \in Linears,
         AllocateFallback(bytes, ptr)
  PROVE  Exact'
<1>1. MeterInv'
  BY AllocateFallbackMeter
<1>2. HasFallback(bytes, ptr) /\ live_bytes' = Plus(bytes) /\ bytes \in Nat
  BY AllocateFallbackFacts, SizesAssumption DEF AllocateFallback
<1>3. /\ ptr \notin Ptrs /\ Ptrs' = Ptrs \cup {ptr} /\ entries_'[ptr].size = bytes
      /\ ~entries_'[ptr].is_vmm
      /\ \A p \in Ptrs : entries_'[p] = entries_[p]
  BY <1>2 DEF HasFallback, FallbackEntry
<1>4. /\ ptr \notin Residents /\ Residents' = Residents \cup {ptr}
      /\ \A p \in Residents : entries_'[p].size = entries_[p].size
  BY <1>3 DEF Residents, Resident
<1> QED BY <1>1, <1>2, <1>3, <1>4, CountAdds

LEMMA DeallocateExact ==
  ASSUME AInv, MeterInv, Exact, NEW p \in Ptrs, Resident(p), Deallocate(p)
  PROVE  Exact'
<1>1. /\ Ptrs' = Ptrs \ {p} /\ \A q \in Ptrs' : entries_'[q] = entries_[q]
      /\ live_bytes' = Minus(entries_[p].size)
  BY DEF Deallocate, RestrictDomain, Restrict, Ptrs
<1>2. /\ p \in Residents /\ Residents' = Residents \ {p}
      /\ \A q \in Residents' : entries_'[q].size = entries_[q].size
  BY <1>1 DEF Residents, Resident
<1> QED BY <1>1, <1>2, CountDrops

LEMMA ReleasePhysicalExact ==
  ASSUME AInv, MeterInv, Exact, NEW p \in Ptrs, Resident(p), ReleasePhysical(p)
  PROVE  Exact'
<1>1. p \in VmmPtrs /\ HasAssigned(entries_', p, NoHandle)
  BY ReleasePhysicalFacts
<1>2. live_bytes' = Minus(entries_[p].size)
  BY DEF ReleasePhysical
<1>3. /\ Ptrs' = Ptrs /\ entries_'[p].is_vmm /\ entries_'[p].physical_handle = NoHandle
      /\ \A q \in Ptrs : entries_'[q].size = entries_[q].size
      /\ \A q \in Ptrs : q # p => entries_'[q] = entries_[q]
  BY <1>1 DEF HasAssigned, Ptrs, VmmPtrs
<1>4. /\ p \in Residents /\ Residents' = Residents \ {p}
      /\ \A q \in Residents' : entries_'[q].size = entries_[q].size
  BY <1>3 DEF Residents, Resident
<1> QED BY <1>2, <1>4, CountDrops

(* Where something is mapped already, cuMemMap fails: the entry had no     *)
(* memory.                                                                 *)
LEMMA RestorePhysicalExact ==
  ASSUME AInv, MeterInv, Mirrored, Countable', Exact, NEW p \in Ptrs, NEW h, NEW d,
         RestorePhysical(p, h, d)
  PROVE  Exact'
<1>1. MeterInv'
  BY RestorePhysicalMeter
<1>2. p \in VmmPtrs /\ HasRestored(p, h) /\ HasAssigned(entries_', p, h)
  BY RestorePhysicalFacts
<1>3. ~Resident(p) /\ h # NoHandle
  BY <1>2, RestorePhysicalHadNone, HandlesAssumption DEF HasRestored
<1>4. live_bytes' = Plus(entries_[p].size) /\ entries_[p].size \in Nat
  BY EntryFacts DEF RestorePhysical, Refill
<1>5. /\ Ptrs' = Ptrs /\ entries_'[p].physical_handle = h
      /\ \A q \in Ptrs : entries_'[q].size = entries_[q].size
      /\ \A q \in Ptrs : q # p => entries_'[q] = entries_[q]
  BY <1>2 DEF HasAssigned, Ptrs
<1>6. /\ p \notin Residents /\ Residents' = Residents \cup {p}
      /\ \A q \in Residents : entries_'[q].size = entries_[q].size
  BY <1>3, <1>5 DEF Residents, Resident
<1> QED BY <1>1, <1>4, <1>5, <1>6, CountAdds

LEMMA RestorePhysicalThrowsExact ==
  ASSUME Exact, NEW p \in Ptrs, RestorePhysicalThrows(p)
  PROVE  Exact'
  BY SameExact DEF RestorePhysicalThrows

LEMMA SharePhysicalExact ==
  ASSUME AInv, MeterInv, Exact, NEW dst \in Ptrs, NEW src \in Ptrs, Resident(dst), Resident(src),
         SharePhysical(dst, src)
  PROVE  Exact'
<1>1. /\ dst \in VmmPtrs /\ src \in VmmPtrs /\ UNCHANGED live_bytes
      /\ HasAssigned(entries_', dst, entries_[src].physical_handle)
  BY SharePhysicalFacts
<1>2. /\ Ptrs' = Ptrs /\ entries_'[dst].physical_handle # NoHandle
      /\ \A q \in Ptrs : entries_'[q].size = entries_[q].size
      /\ \A q \in Ptrs : q # dst => entries_'[q] = entries_[q]
  BY <1>1 DEF HasAssigned, Ptrs, VmmPtrs, Resident
<1>3. Residents' = Residents /\ \A q \in Residents : entries_'[q].size = entries_[q].size
  BY <1>2 DEF Residents, Resident
<1> QED BY <1>1, <1>3, CountSame

LEMMA CarefulPhysicalExact ==
  ASSUME AInv, MeterInv, Mirrored, Countable', Exact, CarefulPhysical
  PROVE  Exact'
  BY ReleasePhysicalExact, RestorePhysicalExact, RestorePhysicalThrowsExact,
     SharePhysicalExact DEF CarefulPhysical

(* What there is to count: the entries of the pool, and at most what       *)
(* cuMemAlloc has handed out.                                              *)
LEMMA ResidentBytes ==
  ASSUME AInv, MeterInv
  PROVE  BytesOf(Residents) <= BytesOf(Residents \cap Vas) + Bytes(gpu.linear)
<1> DEFINE w == Weights(entries_)
           V == Residents \cap Vas
           L == Residents \cap Linears
<1>1. Residents \in SUBSET Ptrs /\ V \in SUBSET Ptrs /\ L \in SUBSET Ptrs
  BY DEF Residents
<1>2. Residents = V \cup L /\ V \cap L = {}
  BY <1>1, PointersAssumption DEF AInv, TypeOK, Pointers
<1>3. /\ IsFiniteSet(V) /\ IsFiniteSet(L) /\ Weighs(w, V \cup L) /\ Weighs(w, L)
      /\ BytesOf(Residents) = SumFunctionOnSet(w, V \cup L)
      /\ BytesOf(V) = SumFunctionOnSet(w, V) /\ BytesOf(V) \in Nat
      /\ BytesOf(L) = SumFunctionOnSet(w, L) /\ BytesOf(L) \in Nat
  BY <1>1, <1>2, SizesTotal
<1>4. /\ HasSizes(gpu.linear) /\ L \subseteq DOMAIN gpu.linear
      /\ \A p \in L : entries_[p].size = gpu.linear[p].size
  BY <1>1 DEF MeterInv, MemoryFits, FallbackSizes, AInv, RangesInv
<1>5. /\ IsFiniteSet(DOMAIN gpu.linear) /\ Weighs(Weights(gpu.linear), DOMAIN gpu.linear)
      /\ Bytes(gpu.linear) = SumFunctionOnSet(Weights(gpu.linear), DOMAIN gpu.linear)
      /\ Bytes(gpu.linear) \in Nat
  BY <1>4, BytesNat, BytesSum DEF HasSizes
<1> DEFINE at == [p \in L |-> p]
<1>6. /\ \A p \in L : at[p] \in DOMAIN gpu.linear /\ w[p] <= Weights(gpu.linear)[at[p]]
      /\ \A p, q \in L : at[p] = at[q] => p = q
  <2>1. \A p \in L : w[p] = Weights(gpu.linear)[p] /\ w[p] \in Nat
    BY <1>1, <1>3, <1>4 DEF Weights, Weighs, Ptrs
  <2>2. \A p \in L : at[p] = p
    OBVIOUS
  <2> HIDE DEF w, at, L
  <2> QED BY <1>4, <2>1, <2>2
<1> HIDE DEF w, at, V, L
<1>7. SumFunctionOnSet(w, L) <= SumFunctionOnSet(Weights(gpu.linear), DOMAIN gpu.linear)
  BY <1>3, <1>5, <1>6, SumAtMost
<1>8. SumFunctionOnSet(w, V \cup L) = SumFunctionOnSet(w, V) + SumFunctionOnSet(w, L)
  BY <1>2, <1>3, SumSplits
<1>9. BytesOf(L) <= Bytes(gpu.linear)
  BY <1>3, <1>5, <1>7
<1>10. BytesOf(Residents) = BytesOf(V) + BytesOf(L)
  BY <1>3, <1>8
<1>11. BytesOf(Residents) <= BytesOf(V) + Bytes(gpu.linear)
  BY <1>3, <1>5, <1>9, <1>10
<1> QED BY <1>11 DEF V

=============================================================================
